------------------------------ MODULE RedisQueue ------------------------------
(***************************************************************************)
(* RedisQueueBackend (job_queue.py): worker processes and an API process   *)
(* that share a Redis server. Each method is a sequence of commands and    *)
(* nothing makes them a transaction, so a step is one command that writes, *)
(* with the reads next to it, and a process may die between two of them.   *)
(***************************************************************************)
EXTENDS Naturals, FiniteSets

CONSTANTS Worker,      \* worker processes, running one job at a time
          Client,      \* the process that submits and cancels jobs
          NumJobs,     \* jobs are numbered by their score, best first
          MaxSize,     \* max_size of the queue
          MaxRetries,  \* max_retries of every job
          MaxCrashes   \* bound: how often worker processes die

Job  == 1 .. NumJobs
Proc == Worker \cup {Client}

ASSUME QueueAssumption ==
  /\ IsFiniteSet(Worker) /\ Client \notin Worker
  /\ NumJobs \in Nat /\ MaxSize \in Nat /\ MaxRetries \in Nat /\ MaxCrashes \in Nat

VARIABLES status,    \* status in the job's record, "none" when there is no record
          retries,   \* retry_count in the record
          ttlOver,   \* has its expires_at passed?
          queue,     \* the sorted set of waiting jobs
          claimed,   \* the jobs in the hash of claims
          overdue,   \* the claims older than claim_timeout
          pc,        \* where each process is
          job,       \* the job it is at, 0 for none
          copy,      \* retry_count in its copy of the record
          stalled,   \* the overdue claims it has read
          orphaned,  \* history: jobs whose worker died between two commands
          dropped,   \* history: jobs lost in a full queue or to a late removal
          refused,   \* history: failed jobs that a full queue did not take back
          lapsed,    \* history: jobs whose claim was ever overdue
          crashes    \* how many worker processes have died

recordVars == <<status, retries, ttlOver>>
redisVars  == <<recordVars, queue, claimed, overdue>>
procVars   == <<pc, job, copy, stalled>>
losses     == <<orphaned, dropped, refused>>
history    == <<losses, lapsed, crashes>>
vars       == <<redisVars, procVars, history>>

Over   == {"completed", "dead_letter", "cancelled"}
Status == {"none", "queued", "processing"} \cup Over

(* Process p goes to point l.                                              *)
Goto(p, l) == pc' = [pc EXCEPT ![p] = l]

(* Process p is at point l with job j and its copy says n retries.         *)
Take(p, l, j, n) ==
  /\ Goto(p, l)
  /\ job' = [job EXCEPT ![p] = j]
  /\ copy' = [copy EXCEPT ![p] = n]

(* Process p is done with its job.                                         *)
LetGo(p, l) == Take(p, l, 0, 0)

Write(j, st, n) ==
  /\ status' = [status EXCEPT ![j] = st]
  /\ retries' = [retries EXCEPT ![j] = n]

Unclaim(j) == claimed' = claimed \ {j} /\ overdue' = overdue \ {j}

-----------------------------------------------------------------------------
(* enqueue, shared by submit, the requeue of a failed job and the reclaim  *)
(* of a stalled one: the count, the record, the sorted set. requeue drops  *)
(* the claim first, once more.                                             *)
Entering == {"submit", "requeue", "reclaim"}
Storing  == {"submit store", "requeue store", "reclaim store"}
Pushing  == {"submit push", "requeue push", "reclaim push"}

Entry(p) == CASE pc[p] \in {"submit", "submit store", "submit push"} -> "submit"
              [] pc[p] \in {"requeue", "requeue store", "requeue push"} -> "requeue"
              [] OTHER -> "reclaim"

Count(p) ==
  /\ pc[p] \in Entering
  /\ Cardinality(queue) < MaxSize
  /\ pc' = [pc EXCEPT ![p] = CASE Entry(p) = "submit" -> "submit store"
                               [] Entry(p) = "requeue" -> "requeue store"
                               [] OTHER -> "reclaim store"]
  /\ IF Entry(p) = "requeue" THEN Unclaim(job[p]) ELSE UNCHANGED <<claimed, overdue>>
  /\ UNCHANGED <<recordVars, queue, job, copy, stalled, history>>

(* A full queue: the submitter is told, a failed job goes to the dead      *)
(* letter list, a stalled one is dropped.                                  *)
Refuse(p) ==
  /\ pc[p] \in Entering
  /\ Cardinality(queue) >= MaxSize
  /\ CASE Entry(p) = "submit" ->
            LetGo(p, "idle") /\ UNCHANGED <<claimed, overdue, dropped, refused>>
       [] Entry(p) = "requeue" ->
            /\ Goto(p, "bury failed") /\ Unclaim(job[p])
            /\ refused' = refused \cup {job[p]}
            /\ UNCHANGED <<job, copy, dropped>>
       [] OTHER ->
            /\ LetGo(p, "reclaiming") /\ UNCHANGED <<claimed, overdue, refused>>
            /\ dropped' = dropped \cup {job[p]}
  /\ UNCHANGED <<recordVars, queue, stalled, orphaned, lapsed, crashes>>

Store(p) ==
  /\ pc[p] \in Storing
  /\ Write(job[p], "queued", copy[p])
  /\ ttlOver' = [ttlOver EXCEPT ![job[p]] = FALSE]
  /\ pc' = [pc EXCEPT ![p] = CASE Entry(p) = "submit" -> "submit push"
                               [] Entry(p) = "requeue" -> "requeue push"
                               [] OTHER -> "reclaim push"]
  /\ UNCHANGED <<queue, claimed, overdue, job, copy, stalled, history>>

Push(p) ==
  /\ pc[p] \in Pushing
  /\ queue' = queue \cup {job[p]}
  /\ LetGo(p, IF Entry(p) = "reclaim" THEN "reclaiming" ELSE "idle")
  /\ UNCHANGED <<recordVars, claimed, overdue, stalled, history>>

(* JobQueue.submit of a job that is not known yet.                         *)
Submit(j) ==
  /\ pc[Client] = "idle"
  /\ status[j] = "none" /\ ~ttlOver[j] /\ j \notin queue
  /\ Take(Client, "submit", j, 0)
  /\ UNCHANGED <<redisVars, stalled, history>>

-----------------------------------------------------------------------------
(* dequeue begins with _reclaim_stalled_jobs: it reads the claims ...      *)
ReadClaims(w) ==
  /\ pc[w] = "idle"
  /\ stalled' = [stalled EXCEPT ![w] = overdue]
  /\ Goto(w, "reclaiming")
  /\ UNCHANGED <<redisVars, job, copy, history>>

(* ... removes each overdue one, whoever holds it by now ...               *)
DropClaim(w, j) ==
  /\ pc[w] = "reclaiming" /\ j \in stalled[w]
  /\ stalled' = [stalled EXCEPT ![w] = @ \ {j}]
  /\ Unclaim(j)
  /\ Take(w, "reclaimed", j, 0)
  /\ UNCHANGED <<recordVars, queue, history>>

(* Defect of ReadStalled: a job without retries left is passed over.       *)
ReadStalledPassesOver(w) ==
  LET j == job[w] IN
  /\ pc[w] = "reclaimed"
  /\ IF status[j] \in {"none"} \cup Over \/ ttlOver[j] \/ retries[j] >= MaxRetries
     THEN LetGo(w, "reclaiming")
     ELSE Take(w, "reclaim", j, retries[j] + 1)
  /\ UNCHANGED <<redisVars, stalled, history>>

(* ... and reads the job to put it back or to give it up.                  *)
ReadStalled(w) ==
  LET j == job[w] IN
  /\ pc[w] = "reclaimed"
  /\ CASE status[j] \in {"none"} \cup Over \/ ttlOver[j] -> LetGo(w, "reclaiming")
       [] retries[j] >= MaxRetries -> Take(w, "bury stalled", j, retries[j])
       [] OTHER -> Take(w, "reclaim", j, retries[j] + 1)
  /\ UNCHANGED <<redisVars, stalled, history>>

(* The best job of the queue and its record; a waiting job without one is  *)
(* to be discarded.                                                        *)
ReadHead(w) ==
  /\ pc[w] = "reclaiming" /\ stalled[w] = {}
  /\ IF queue = {} THEN LetGo(w, "idle")
     ELSE \E j \in queue :
            /\ \A k \in queue : j <= k
            /\ Take(w, IF status[j] = "none" \/ ttlOver[j] THEN "discard" ELSE "pop",
                    j, retries[j])
  /\ UNCHANGED <<redisVars, stalled, history>>

(* Its removal, also if it was put back, with a new record, meanwhile.     *)
Discard(w) ==
  /\ pc[w] = "discard"
  /\ queue' = queue \ {job[w]}
  /\ dropped' = IF status[job[w]] = "queued" THEN dropped \cup {job[w]} ELSE dropped
  /\ LetGo(w, "idle")
  /\ UNCHANGED <<recordVars, claimed, overdue, stalled, orphaned, refused, lapsed, crashes>>

(* Defect of Pop: a job that another worker has removed is run all the     *)
(* same.                                                                   *)
PopBlind(w) ==
  /\ pc[w] = "pop"
  /\ queue' = queue \ {job[w]}
  /\ Goto(w, "mark") /\ UNCHANGED <<job, copy>>
  /\ UNCHANGED <<recordVars, claimed, overdue, stalled, history>>

(* zrem: of two workers that read the same job one removes it.             *)
Pop(w) ==
  /\ pc[w] = "pop"
  /\ queue' = queue \ {job[w]}
  /\ IF job[w] \in queue THEN Goto(w, "mark") /\ UNCHANGED <<job, copy>>
                         ELSE LetGo(w, "idle")
  /\ UNCHANGED <<recordVars, claimed, overdue, stalled, history>>

(* The record of the job, from the copy read before zrem.                  *)
Mark(w) ==
  /\ pc[w] = "mark"
  /\ Write(job[w], "processing", copy[w])
  /\ Goto(w, "claim")
  /\ UNCHANGED <<ttlOver, queue, claimed, overdue, job, copy, stalled, history>>

Claim(w) ==
  /\ pc[w] = "claim"
  /\ claimed' = claimed \cup {job[w]}
  /\ overdue' = overdue \ {job[w]}
  /\ Goto(w, "run")
  /\ UNCHANGED <<recordVars, queue, job, copy, stalled, history>>

-----------------------------------------------------------------------------
(* The handler has ended: complete and fail drop the claim, read the       *)
(* record and write it.                                                    *)
Release(w, l) ==
  /\ pc[w] = "run"
  /\ Unclaim(job[w])
  /\ Goto(w, l)
  /\ UNCHANGED <<recordVars, queue, job, copy, stalled, history>>

(* Defects of ReadEnded: the coming attempt counted as made; no count.     *)
ReadEndedEarly(w) ==
  LET j == job[w] IN
  /\ pc[w] = "failing" /\ status[j] # "none"
  /\ IF retries[j] + 1 < MaxRetries THEN Take(w, "requeue", j, retries[j] + 1)
                                    ELSE Take(w, "bury failed", j, retries[j])
  /\ UNCHANGED <<redisVars, stalled, history>>

ReadEnded(w) ==
  LET j == job[w] IN
  /\ \/ pc[w] \in {"completing", "failing"} /\ status[j] = "none" /\ LetGo(w, "idle")
     \/ pc[w] = "completing" /\ status[j] # "none" /\ Take(w, "complete", j, retries[j])
     \/ /\ pc[w] = "failing" /\ status[j] # "none"
        /\ IF retries[j] < MaxRetries THEN Take(w, "requeue", j, retries[j] + 1)
                                      ELSE Take(w, "bury failed", j, retries[j])
  /\ UNCHANGED <<redisVars, stalled, history>>

Complete(w) ==
  /\ pc[w] = "complete"
  /\ Write(job[w], "completed", copy[w])
  /\ LetGo(w, "idle")
  /\ UNCHANGED <<ttlOver, queue, claimed, overdue, stalled, history>>

(* The dead letter list, for a job that failed or stalled.                 *)
Bury(w) ==
  /\ pc[w] \in {"bury failed", "bury stalled"}
  /\ Write(job[w], "dead_letter", copy[w])
  /\ LetGo(w, IF pc[w] = "bury stalled" THEN "reclaiming" ELSE "idle")
  /\ UNCHANGED <<ttlOver, queue, claimed, overdue, stalled, history>>

-----------------------------------------------------------------------------
(* cancel: reads the job, whatever its status, takes claim and queue entry *)
(* away, writes the record.                                                *)
ReadCancelled(j) ==
  /\ pc[Client] = "idle"
  /\ status[j] # "none"
  /\ Take(Client, "withdraw", j, retries[j])
  /\ UNCHANGED <<redisVars, stalled, history>>

Withdraw ==
  /\ pc[Client] = "withdraw"
  /\ Unclaim(job[Client])
  /\ queue' = queue \ {job[Client]}
  /\ Goto(Client, "cancel")
  /\ UNCHANGED <<recordVars, job, copy, stalled, history>>

Cancel ==
  /\ pc[Client] = "cancel"
  /\ Write(job[Client], "cancelled", copy[Client])
  /\ LetGo(Client, "idle")
  /\ UNCHANGED <<ttlOver, queue, claimed, overdue, stalled, history>>

-----------------------------------------------------------------------------
(* Points at which a dead worker leaves its job claimed or waiting.        *)
Safe == {"idle", "run", "reclaiming", "pop", "discard"}

Crash(w) ==
  /\ pc[w] # "idle"
  /\ crashes < MaxCrashes
  /\ crashes' = crashes + 1
  /\ orphaned' = IF pc[w] \in Safe THEN orphaned ELSE orphaned \cup {job[w]}
  /\ LetGo(w, "idle")
  /\ stalled' = [stalled EXCEPT ![w] = {}]
  /\ UNCHANGED <<redisVars, dropped, refused, lapsed>>

(* Time: a claim gets older than claim_timeout; a waiting job's record     *)
(* ends with its TTL, any other one some time after it, that of a job      *)
(* being processed not before twice the claim_timeout.                     *)
LeaseEnds(j) ==
  /\ j \in claimed \ overdue
  /\ overdue' = overdue \cup {j}
  /\ lapsed' = lapsed \cup {j}
  /\ UNCHANGED <<recordVars, queue, claimed, procVars, losses, crashes>>

TtlEnds(j) ==
  /\ status[j] \in {"queued", "processing"} /\ ~ttlOver[j]
  /\ ttlOver' = [ttlOver EXCEPT ![j] = TRUE]
  /\ status' = [status EXCEPT ![j] = IF @ = "queued" THEN "none" ELSE @]
  /\ UNCHANGED <<retries, queue, claimed, overdue, procVars, history>>

RecordEnds(j) ==
  /\ ttlOver[j] /\ status[j] # "none"
  /\ status[j] = "processing" => j \in lapsed
  /\ status' = [status EXCEPT ![j] = "none"]
  /\ UNCHANGED <<retries, ttlOver, queue, claimed, overdue, procVars, history>>

-----------------------------------------------------------------------------
Init ==
  /\ status = [j \in Job |-> "none"]
  /\ retries = [j \in Job |-> 0]
  /\ ttlOver = [j \in Job |-> FALSE]
  /\ queue = {} /\ claimed = {} /\ overdue = {}
  /\ pc = [p \in Proc |-> "idle"]
  /\ job = [p \in Proc |-> 0]
  /\ copy = [p \in Proc |-> 0]
  /\ stalled = [p \in Proc |-> {}]
  /\ orphaned = {} /\ dropped = {} /\ refused = {} /\ lapsed = {}
  /\ crashes = 0

Enqueue(p) == Count(p) \/ Refuse(p) \/ Store(p) \/ Push(p)

Dequeue(w) ==
  \/ ReadClaims(w)
  \/ \E j \in Job : DropClaim(w, j)
  \/ ReadStalled(w)
  \/ ReadHead(w)
  \/ Discard(w)
  \/ Pop(w)
  \/ Mark(w)
  \/ Claim(w)

End(w) ==
  \/ Release(w, "completing")
  \/ Release(w, "failing")
  \/ ReadEnded(w)
  \/ Complete(w)
  \/ Bury(w)

Next ==
  \/ \E p \in Proc : Enqueue(p)
  \/ \E w \in Worker : Dequeue(w) \/ End(w) \/ Crash(w)
  \/ \E j \in Job : \/ Submit(j)
                    \/ ReadCancelled(j)
                    \/ LeaseEnds(j)
                    \/ TtlEnds(j)
                    \/ RecordEnds(j)
  \/ Withdraw
  \/ Cancel

Spec == Init /\ [][Next]_vars

-----------------------------------------------------------------------------
(* The points of the API process and of a worker.                          *)
ClientPoint == {"idle", "submit", "submit store", "submit push", "withdraw", "cancel"}
WorkerPoint ==
  {"idle", "reclaiming", "reclaimed", "reclaim", "reclaim store", "reclaim push",
   "bury stalled", "discard", "pop", "mark", "claim", "run", "completing", "failing",
   "requeue", "requeue store", "requeue push", "bury failed", "complete"}

(* Types; a claim that is overdue is still there, and retries stay within  *)
(* the budget also when they are written from a stale copy.                *)
TypeOK ==
  /\ status \in [Job -> Status] /\ ttlOver \in [Job -> BOOLEAN]
  /\ retries \in [Job -> 0 .. MaxRetries]
  /\ queue \subseteq Job /\ claimed \subseteq Job /\ overdue \subseteq claimed
  /\ pc \in [Proc -> ClientPoint \cup WorkerPoint]
  /\ pc[Client] \in ClientPoint /\ \A w \in Worker : pc[w] \in WorkerPoint
  /\ job \in [Proc -> {0} \cup Job] /\ copy \in [Proc -> 0 .. MaxRetries]
  /\ \A p \in Proc : job[p] \in Job \/ pc[p] \in {"idle", "reclaiming"}
  /\ stalled \in [Proc -> SUBSET Job]
  /\ orphaned \subseteq Job /\ dropped \subseteq Job /\ refused \subseteq Job
  /\ lapsed \subseteq Job /\ crashes \in 0 .. MaxCrashes

(* Process p is between two commands that move job j.                      *)
Moving(p, j) == job[p] = j /\ pc[p] \notin Safe

(* A job that should still run can be found by a worker: it waits, it is   *)
(* claimed, or a process is about to write where it is.                    *)
Reachable(j) == j \in queue \cup claimed \/ \E p \in Proc : Moving(p, j)

Lost == orphaned \cup dropped

Unfinished == {j \in Job : status[j] \in {"queued", "processing"} /\ ~ttlOver[j]}

(* Only three things lose a job: a death between two commands (orphaned);  *)
(* a queue too full to take a stalled job back and the late removal of an  *)
(* expired entry that was renewed (both dropped). However commands mix     *)
(* otherwise, a stale complete, fail, reclaim or cancel, a refused retry   *)
(* and a death while the job runs leave it where a worker finds it.        *)
LostForCause == \A j \in Unfinished \ Lost : Reachable(j)

(* dequeue: "A dead worker must not take the job with it."                 *)
DeadWorkerKeepsJob == \A j \in Unfinished \ dropped : Reachable(j)

(* A job is given up only when its retries are spent or a full queue       *)
(* refused to take it back after a failure.                                *)
GivenUpForCause ==
  \A j \in Job : status[j] = "dead_letter" => retries[j] >= MaxRetries \/ j \in refused

(* Two workers run one job only after its lease has run out.               *)
LeaseExclusive ==
  \A v, w \in Worker : v # w /\ pc[v] = "run" /\ pc[w] = "run" /\ job[v] = job[w]
                       => job[v] \in lapsed

=============================================================================
