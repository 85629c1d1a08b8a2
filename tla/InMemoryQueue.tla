---------------------------- MODULE InMemoryQueue ----------------------------
(***************************************************************************)
(* InMemoryQueueBackend (job_queue.py) behind JobQueue: the API submits    *)
(* and cancels jobs, and worker loops of the same process take and run up  *)
(* to MaxJobs of them at a time.                                           *)
(*                                                                         *)
(* Everything runs on one event loop and no method suspends inside a       *)
(* tenant's lock, so a method is one step, but for dequeue, whose every    *)
(* iteration is a step: it takes the locks anew.                           *)
(***************************************************************************)
EXTENDS Naturals, FiniteSets, FiniteSetsExt

CONSTANTS Worker,      \* worker loops
          NumJobs,
          Tenant,
          Default,     \* the tenant of jobs submitted without one
          TenantOf,    \* tenant of each job
          Priority,    \* priority of each job, larger is more urgent
          Served,      \* the jobs whose type the workers handle
          MaxJobs,     \* jobs a worker runs at a time
          MaxSize,     \* max_size of the queue
          MaxRetries   \* max_retries of every job

Job == 1 .. NumJobs

ASSUME QueueAssumption ==
  /\ NumJobs \in Nat /\ MaxSize \in Nat /\ MaxRetries \in Nat /\ MaxJobs \in Nat \ {0}
  /\ TenantOf \in [Job -> Tenant] /\ Default \in Tenant
  /\ Priority \in [Job -> Nat]
  /\ Served \subseteq Job

VARIABLES status,      \* the status field of each job
          retries,     \* its retry_count
          ttlOver,     \* has its expires_at passed?
          place,       \* its position in its priority lane, 0: in no lane
          processing,  \* _processing
          completed,   \* _completed
          dead,        \* the jobs in the dead letter lists
          holding,     \* the jobs each worker loop has taken
          taking,      \* is the loop inside dequeue?
          claims       \* history: how often each job was handed to a worker

jobVars    == <<status, retries, ttlOver, place, processing, completed, dead>>
workerVars == <<holding, taking>>
vars       == <<jobVars, workerVars, claims>>

Over   == {"completed", "dead_letter", "cancelled"}
Status == {"new", "queued", "processing"} \cup Over

-----------------------------------------------------------------------------
Waiting == {j \in Job : place[j] > 0}

Lane(j)  == {k \in Waiting : TenantOf[k] = TenantOf[j] /\ Priority[k] = Priority[j]}

(* Where append puts a job: behind every other job of its lane.            *)
LastPlace(j) == 1 + Max({0} \cup {place[k] : k \in Lane(j)})

(* Defect of Backlog: a job without a tenant is counted like any other.    *)
BacklogOfOne(t) == {j \in Waiting : TenantOf[j] = t}

(* _total_queued: for a job without a tenant it counts every tenant.       *)
Backlog(t) == IF t = Default THEN Waiting ELSE {j \in Waiting : TenantOf[j] = t}

HasRoom(t) == Cardinality(Backlog(t)) < MaxSize

(* JobQueue.submit: enqueue of a new job; a full queue refuses it.         *)
Submit(j) ==
  /\ status[j] = "new"
  /\ HasRoom(TenantOf[j])
  /\ status' = [status EXCEPT ![j] = "queued"]
  /\ place' = [place EXCEPT ![j] = LastPlace(j)]
  /\ UNCHANGED <<retries, ttlOver, processing, completed, dead, workerVars, claims>>

-----------------------------------------------------------------------------
Live == {j \in Waiting \cap Served : ~ttlOver[j]}

(* The order in which one tenant's lanes are searched: by priority, then   *)
(* first in, first out.                                                    *)
Precedes(j, k) == \/ Priority[j] > Priority[k]
                  \/ Priority[j] = Priority[k] /\ place[j] < place[k]

(* Defect of Heads: a search of the lanes from the back.                   *)
HeadsLast == {j \in Live : \A k \in Live : TenantOf[k] = TenantOf[j] /\ k # j => Precedes(k, j)}

(* The job each tenant would yield.                                        *)
Heads == {j \in Live : \A k \in Live : TenantOf[k] = TenantOf[j] /\ k # j => Precedes(j, k)}

(* One iteration of dequeue. The tenants come in the order of a set: those *)
(* visited before the first that has a job are purged of all their expired *)
(* jobs, that one of its lanes down to the job's.                          *)
Purged(visited, j) ==
  {k \in Waiting : /\ ttlOver[k]
                   /\ \/ TenantOf[k] \in visited
                      \/ TenantOf[k] = TenantOf[j] /\ Priority[k] >= Priority[j]}

(* Defect of Take: the job is claimed but stays in its lane, as when the   *)
(* removal happened after the lock was released.                           *)
TakeCopy(w) ==
  /\ taking[w]
  /\ \E j \in Heads :
       /\ holding' = [holding EXCEPT ![w] = @ \cup {j}]
       /\ taking' = [taking EXCEPT ![w] = Cardinality(holding'[w]) < MaxJobs]
       /\ processing' = processing \cup {j}
       /\ status' = [status EXCEPT ![j] = "processing"]
       /\ claims' = [claims EXCEPT ![j] = @ + 1]
  /\ UNCHANGED <<retries, ttlOver, place, completed, dead>>

Take(w) ==
  /\ taking[w]
  /\ \E j \in Heads : \E visited \in SUBSET (Tenant \ {TenantOf[k] : k \in Live}) :
       /\ place' = [k \in Job |-> IF k \in Purged(visited, j) \cup {j} THEN 0 ELSE place[k]]
       /\ status' = [status EXCEPT ![j] = "processing"]
       /\ processing' = processing \cup {j}
       /\ claims' = [claims EXCEPT ![j] = @ + 1]
       /\ holding' = [holding EXCEPT ![w] = @ \cup {j}]
       /\ taking' = [taking EXCEPT ![w] = Cardinality(holding'[w]) < MaxJobs]
  /\ UNCHANGED <<retries, ttlOver, completed, dead>>

(* The last iteration: no tenant has a job. With an empty hand the loop    *)
(* sleeps and calls dequeue again.                                         *)
TakeNothing(w) ==
  /\ taking[w]
  /\ Live = {}
  /\ place' = [j \in Job |-> IF ttlOver[j] THEN 0 ELSE place[j]]
  /\ taking' = [taking EXCEPT ![w] = holding[w] = {}]
  /\ UNCHANGED <<status, retries, ttlOver, processing, completed, dead, holding, claims>>

(* process_job has ended for j; after the last job of the batch the loop   *)
(* calls dequeue again.                                                    *)
LetGo(w, j) ==
  /\ ~taking[w] /\ j \in holding[w]
  /\ holding' = [holding EXCEPT ![w] = @ \ {j}]
  /\ taking' = [taking EXCEPT ![w] = holding[w] = {j}]
  /\ UNCHANGED claims

(* complete, and the pruning of the results that are past their TTL.       *)
Complete(w, j) ==
  /\ LetGo(w, j)
  /\ j \in processing
  /\ status' = [status EXCEPT ![j] = "completed"]
  /\ processing' = processing \ {j}
  /\ completed' = {k \in completed \cup {j} : ~ttlOver[k]}
  /\ UNCHANGED <<retries, ttlOver, place, dead>>

(* complete or fail of a job that was cancelled while it ran: nothing.     *)
EndUnclaimed(w, j) ==
  /\ LetGo(w, j)
  /\ j \notin processing
  /\ UNCHANGED jobVars

(* Defect of Retry: it is not counted.                                     *)
RetryFree(w, j) ==
  /\ LetGo(w, j)
  /\ j \in processing
  /\ retries[j] < MaxRetries
  /\ HasRoom(TenantOf[j])
  /\ status' = [status EXCEPT ![j] = "queued"]
  /\ ttlOver' = [ttlOver EXCEPT ![j] = FALSE]
  /\ place' = [place EXCEPT ![j] = LastPlace(j)]
  /\ processing' = processing \ {j}
  /\ UNCHANGED <<retries, completed, dead>>

(* fail with retries left: requeue, with a fresh TTL.                      *)
Retry(w, j) ==
  /\ LetGo(w, j)
  /\ j \in processing
  /\ retries[j] < MaxRetries
  /\ HasRoom(TenantOf[j])
  /\ status' = [status EXCEPT ![j] = "queued"]
  /\ retries' = [retries EXCEPT ![j] = @ + 1]
  /\ ttlOver' = [ttlOver EXCEPT ![j] = FALSE]
  /\ place' = [place EXCEPT ![j] = LastPlace(j)]
  /\ processing' = processing \ {j}
  /\ UNCHANGED <<completed, dead>>

(* Defect of GiveUp: a job whose requeue is refused is dropped.            *)
GiveUpUnsaved(w, j) ==
  /\ LetGo(w, j)
  /\ j \in processing
  /\ retries[j] >= MaxRetries \/ ~HasRoom(TenantOf[j])
  /\ status' = [status EXCEPT ![j] = "dead_letter"]
  /\ processing' = processing \ {j}
  /\ dead' = IF retries[j] < MaxRetries THEN dead ELSE dead \cup {j}
  /\ UNCHANGED <<retries, ttlOver, place, completed>>

(* fail without retries left, or with a queue that has no room: in that    *)
(* case requeue has counted the retry and renewed the TTL all the same.    *)
GiveUp(w, j) ==
  /\ LetGo(w, j)
  /\ j \in processing
  /\ retries[j] >= MaxRetries \/ ~HasRoom(TenantOf[j])
  /\ IF retries[j] < MaxRetries
     THEN /\ retries' = [retries EXCEPT ![j] = @ + 1]
          /\ ttlOver' = [ttlOver EXCEPT ![j] = FALSE]
     ELSE UNCHANGED <<retries, ttlOver>>
  /\ status' = [status EXCEPT ![j] = "dead_letter"]
  /\ processing' = processing \ {j}
  /\ dead' = dead \cup {j}
  /\ UNCHANGED <<place, completed>>

(* cancel: of a job that is processed, waits or has completed. A worker    *)
(* that runs it is not told.                                               *)
Cancel(j) ==
  /\ j \in processing \cup Waiting \cup completed
  /\ status' = [status EXCEPT ![j] = "cancelled"]
  /\ place' = [place EXCEPT ![j] = 0]
  /\ processing' = processing \ {j}
  /\ completed' = completed \ {j}
  /\ dead' = dead \cup {j}
  /\ UNCHANGED <<retries, ttlOver, workerVars, claims>>

(* The clock passes the job's expires_at, which no longer matters in the   *)
(* dead letter list.                                                       *)
TtlEnds(j) ==
  /\ status[j] \in {"queued", "processing", "completed"} /\ ~ttlOver[j]
  /\ ttlOver' = [ttlOver EXCEPT ![j] = TRUE]
  /\ UNCHANGED <<status, retries, place, processing, completed, dead, workerVars, claims>>

-----------------------------------------------------------------------------
Init ==
  /\ status = [j \in Job |-> "new"]
  /\ retries = [j \in Job |-> 0]
  /\ ttlOver = [j \in Job |-> FALSE]
  /\ place = [j \in Job |-> 0]
  /\ processing = {} /\ completed = {} /\ dead = {}
  /\ holding = [w \in Worker |-> {}]
  /\ taking = [w \in Worker |-> TRUE]
  /\ claims = [j \in Job |-> 0]

WorkerStep(w) ==
  \/ Take(w)
  \/ TakeNothing(w)
  \/ \E j \in Job : \/ Complete(w, j)
                    \/ EndUnclaimed(w, j)
                    \/ Retry(w, j)
                    \/ GiveUp(w, j)

Next ==
  \/ \E w \in Worker : WorkerStep(w)
  \/ \E j \in Job : Submit(j) \/ Cancel(j) \/ TtlEnds(j)

Spec == Init /\ [][Next]_vars

-----------------------------------------------------------------------------
TypeOK ==
  /\ status \in [Job -> Status]
  /\ retries \in [Job -> 0 .. MaxRetries]
  /\ ttlOver \in [Job -> BOOLEAN]
  /\ place \in [Job -> Nat]
  /\ processing \subseteq Job
  /\ completed \subseteq Job
  /\ dead \subseteq Job
  /\ holding \in [Worker -> SUBSET Job]
  /\ taking \in [Worker -> BOOLEAN]
  /\ claims \in [Job -> Nat]

(* A job is in one place at most, the one its status names, and a job that *)
(* was accepted is in one unless its TTL is over: whatever is refused,     *)
(* cancelled or fails on the way, get_job finds the job.                   *)
NothingMislaid ==
  \A j \in Job :
    /\ j \in Waiting => status[j] = "queued" /\ j \notin processing
    /\ j \in processing <=> status[j] = "processing"
    /\ j \in completed => status[j] = "completed"
    /\ j \in dead <=> status[j] \in {"dead_letter", "cancelled"}
    /\ status[j] = "queued" /\ ~ttlOver[j] => j \in Waiting
    /\ status[j] = "completed" /\ ~ttlOver[j] => j \in completed

(* No two workers run one job, also when it was cancelled under the first, *)
(* and each attempt but the first has used up a retry.                     *)
OneRunner ==
  \A j \in Job :
    /\ \A v, w \in Worker : j \in holding[v] /\ j \in holding[w] => v = w
    /\ claims[j] <= retries[j] + 1

(* enqueue, for new jobs and for the requeue of failed ones alike: no      *)
(* tenant ever has more than max_size jobs waiting, and a job without a    *)
(* tenant enters only if then no more than max_size wait in all lanes.     *)
ShareHeld == \A t \in Tenant : Cardinality({j \in Waiting : TenantOf[j] = t}) <= MaxSize

ShareRespected ==
  /\ []ShareHeld
  /\ [][\A j \in Job : TenantOf[j] = Default /\ place[j] = 0 /\ place'[j] > 0
                        => Cardinality(Waiting') <= MaxSize]_vars

(* Inside a tenant no job is taken while one that precedes it could be.    *)
TenantOrderKept ==
  [][\A j, k \in Job :
       /\ place[j] > 0 /\ place'[j] = 0 /\ j \in processing'
       /\ k \in Live /\ k # j /\ TenantOf[k] = TenantOf[j]
       => Precedes(j, k)]_vars

(* The queue keeps the promise of a job's lifecycle.                       *)
L == INSTANCE JobLifecycle WITH
       phase <- [j \in Job |-> IF status[j] = "new" THEN "new"
                               ELSE IF j \in Waiting THEN "waiting"
                               ELSE IF j \in processing THEN "running" ELSE "over"],
       tries <- claims
LifecycleKept == L!Spec
=============================================================================
