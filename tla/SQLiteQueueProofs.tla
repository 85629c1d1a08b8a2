-------------------------- MODULE SQLiteQueueProofs --------------------------
(***************************************************************************)
(* What holds of the SQLite queue for any number of worker processes, jobs *)
(* and retries.                                                            *)
(***************************************************************************)
EXTENDS SQLiteQueue, FiniteSetTheorems, TLAPS

(* A job that no worker has claimed since it was last put in the queue has *)
(* a retry to spare; the job a worker runs is one of the jobs.             *)
ClaimsInv ==
  \A j \in Job : status[j] \in {"new", "counted", "queued"} => claims[j] <= retries[j]

WorkersInv ==
  \A w \in Worker : pc[w] \in {"running", "failing"} => job[w] \in Job

(* What a worker has read to be without retries still is: retries only     *)
(* grow.                                                                   *)
SpentInv ==
  \A w \in Worker :
    /\ pc[w] = "claiming" =>
         \A j \in dead[w] : j \notin budget[w] => retries[j] >= MaxRetries
    /\ pc[w] = "failing" /\ job[w] \notin budget[w] => retries[job[w]] >= MaxRetries

QueueInv ==
  TypeOK /\ WorkersInv /\ ClaimsInv /\ AttemptsAccounted /\ SpentInv /\ GivenUpForCause

(* The sweep at the start of a claim leaves statuses, and gives a job up   *)
(* only for one of the two causes.                                         *)
LEMMA SweptFacts ==
  ASSUME QueueInv, NEW w \in Worker, pc[w] = "claiming"
  PROVE  /\ Swept(w) \in [Job -> JobStatus]
         /\ Ready(w) \subseteq Job
         /\ \A j \in Job : Swept(w)[j] \in {"new", "counted", "queued"} =>
              j \in budget[w] \/ status[j] \in {"new", "counted", "queued"}
         /\ \A j \in Job : Swept(w)[j] = "dead_letter" =>
              \/ status[j] = "dead_letter"
              \/ ttlOver[j]
              \/ retries[j] >= MaxRetries
<1>1. \A j \in Job : Swept(w)[j] =
        IF Reclaimed(w)[j] = "queued" /\ ttlOver[j] THEN "dead_letter" ELSE Reclaimed(w)[j]
  BY DEF Swept
<1>2. \A j \in Job : Reclaimed(w)[j] =
        IF j \in budget[w] THEN "queued"
        ELSE IF j \in dead[w] THEN "dead_letter" ELSE status[j]
  BY DEF Reclaimed
<1>3. \A j \in Job : Swept(w)[j] \in JobStatus
  BY <1>1, <1>2 DEF QueueInv, TypeOK, JobStatus, Terminal
<1>4. Swept(w) \in [Job -> JobStatus]
  BY <1>3 DEF Swept
<1>5. ASSUME NEW j \in Job, Swept(w)[j] = "dead_letter"
      PROVE  status[j] = "dead_letter" \/ ttlOver[j] \/ retries[j] >= MaxRetries
  BY <1>1, <1>2, <1>5 DEF QueueInv, SpentInv
<1> QED
  BY <1>1, <1>2, <1>4, <1>5 DEF Ready

LEMMA QueueInitInv == Init => QueueInv
BY QueueAssumption
   DEF Init, QueueInv, TypeOK, WorkersInv, ClaimsInv, AttemptsAccounted, SpentInv,
       GivenUpForCause, JobStatus, Terminal, Job

(* Steps that change no row but perhaps what has been read from them.      *)
LEMMA ReadDeadKeeps ==
  ASSUME QueueInv, NEW w \in Worker, ReadDead(w) PROVE QueueInv'
BY QueueAssumption
   DEF ReadDead, QueueInv, TypeOK, WorkersInv, ClaimsInv, AttemptsAccounted, SpentInv,
       GivenUpForCause, rowVars

LEMMA ReadRetriesKeeps ==
  ASSUME QueueInv, NEW w \in Worker, ReadRetries(w) PROVE QueueInv'
BY QueueAssumption
   DEF ReadRetries, QueueInv, TypeOK, WorkersInv, ClaimsInv, AttemptsAccounted, SpentInv,
       GivenUpForCause, rowVars

LEMMA CrashKeeps ==
  ASSUME QueueInv, NEW w \in Worker, Crash(w) PROVE QueueInv'
BY QueueAssumption
   DEF Crash, Forget, QueueInv, TypeOK, WorkersInv, ClaimsInv, AttemptsAccounted, SpentInv,
       GivenUpForCause, rowVars

(* What both ends of dequeue do to the retries of the jobs put back.       *)
LEMMA PutBackFacts ==
  ASSUME QueueInv, NEW w \in Worker, PutBack(w)
  PROVE  /\ retries' \in [Job -> Nat]
         /\ \A j \in Job : retries'[j] >= retries[j]
         /\ \A j \in Job : j \in budget[w] => retries'[j] = retries[j] + 1
BY DEF PutBack, QueueInv, TypeOK

LEMMA ClaimNothingKeeps ==
  ASSUME QueueInv, NEW w \in Worker, ClaimNothing(w) PROVE QueueInv'
<1> USE DEF ClaimNothing
<1>1. TypeOK'
  BY SweptFacts, PutBackFacts DEF QueueInv, TypeOK, Forget
<1>2. WorkersInv'
  BY DEF QueueInv, TypeOK, WorkersInv
<1>3. ClaimsInv' /\ AttemptsAccounted'
  BY SweptFacts, PutBackFacts DEF QueueInv, TypeOK, ClaimsInv, AttemptsAccounted
<1>4. SpentInv'
  <2> SUFFICES ASSUME NEW v \in Worker PROVE
        /\ pc'[v] = "claiming" =>
             \A j \in dead'[v] : j \notin budget'[v] => retries'[j] >= MaxRetries
        /\ pc'[v] = "failing" /\ job'[v] \notin budget'[v] =>
             retries'[job'[v]] >= MaxRetries
    BY DEF SpentInv
  <2>1. CASE v = w
    BY <2>1 DEF QueueInv, TypeOK
  <2>2. CASE v # w
    <3>1. pc'[v] = pc[v] /\ dead'[v] = dead[v] /\ budget'[v] = budget[v] /\ job'[v] = job[v]
      BY <2>2 DEF QueueInv, TypeOK, Forget
    <3> QED
      BY <3>1, PutBackFacts, QueueAssumption DEF QueueInv, TypeOK, SpentInv, WorkersInv
  <2> QED
    BY <2>1, <2>2
<1>5. GivenUpForCause'
  BY SweptFacts, PutBackFacts, QueueAssumption DEF QueueInv, TypeOK, GivenUpForCause
<1> QED
  BY <1>1, <1>2, <1>3, <1>4, <1>5 DEF QueueInv

LEMMA ClaimKeeps ==
  ASSUME QueueInv, NEW w \in Worker, Claim(w) PROVE QueueInv'
<1> PICK i \in Ready(w) :
      /\ status' = [Swept(w) EXCEPT ![i] = "processing"]
      /\ owner' = [k \in Job |-> IF k = i THEN w
                                 ELSE IF k \in budget[w] THEN NoWorker ELSE owner[k]]
      /\ overdue' = [k \in Job |-> overdue[k] /\ k \notin budget[w] \cup {i}]
      /\ job' = [job EXCEPT ![w] = i]
      /\ claims' = [claims EXCEPT ![i] = @ + 1]
  BY DEF Claim
<1> /\ pc[w] = "claiming"
    /\ pc' = [pc EXCEPT ![w] = "running"]
    /\ PutBack(w)
    /\ Forget(w)
    /\ UNCHANGED <<ttlOver, crashes>>
  BY DEF Claim
<1>0. i \in Job /\ Swept(w)[i] = "queued"
  BY DEF Ready
<1>1. TypeOK'
  <2>1. status' \in [Job -> JobStatus]
    BY SweptFacts, <1>0 DEF JobStatus
  <2>2. owner' \in [Job -> Worker \cup {NoWorker}] /\ overdue' \in [Job -> BOOLEAN]
    BY DEF QueueInv, TypeOK
  <2>3. job' \in [Worker -> Job \cup {0}] /\ claims' \in [Job -> Nat]
    BY <1>0 DEF QueueInv, TypeOK
  <2> QED
    BY <2>1, <2>2, <2>3, PutBackFacts DEF QueueInv, TypeOK, Forget
<1>2. WorkersInv'
  BY <1>0 DEF QueueInv, TypeOK, WorkersInv
<1>3. ClaimsInv' /\ AttemptsAccounted'
  <2> SUFFICES ASSUME NEW j \in Job
               PROVE  /\ status'[j] \in {"new", "counted", "queued"} => claims'[j] <= retries'[j]
                      /\ claims'[j] <= retries'[j] + 1
    BY DEF ClaimsInv, AttemptsAccounted
  <2>1. CASE j = i
    <3>1. claims'[j] = claims[j] + 1 /\ status'[j] = "processing"
      BY <2>1, <1>0, SweptFacts DEF QueueInv, TypeOK
    <3>2. claims[j] <= retries'[j]
      BY <2>1, <1>0, SweptFacts, PutBackFacts
      DEF QueueInv, TypeOK, ClaimsInv, AttemptsAccounted
    <3> QED
      BY <3>1, <3>2, PutBackFacts DEF QueueInv, TypeOK
  <2>2. CASE j # i
    <3>1. claims'[j] = claims[j] /\ status'[j] = Swept(w)[j]
      BY <2>2, <1>0, SweptFacts DEF QueueInv, TypeOK
    <3>2. retries[j] \in Nat /\ retries'[j] \in Nat /\ claims[j] \in Nat
      BY PutBackFacts DEF QueueInv, TypeOK
    <3>3. claims[j] <= retries[j] + 1 /\ retries[j] <= retries'[j]
      BY PutBackFacts DEF QueueInv, AttemptsAccounted
    <3>4. status'[j] \in {"new", "counted", "queued"} => claims[j] <= retries'[j]
      BY <3>1, <3>2, <3>3, SweptFacts, PutBackFacts DEF QueueInv, ClaimsInv
    <3> QED
      BY <3>1, <3>2, <3>3, <3>4
  <2> QED
    BY <2>1, <2>2
<1>4. SpentInv'
  <2> SUFFICES ASSUME NEW v \in Worker PROVE
        /\ pc'[v] = "claiming" =>
             \A j \in dead'[v] : j \notin budget'[v] => retries'[j] >= MaxRetries
        /\ pc'[v] = "failing" /\ job'[v] \notin budget'[v] =>
             retries'[job'[v]] >= MaxRetries
    BY DEF SpentInv
  <2>1. CASE v = w
    BY <2>1 DEF QueueInv, TypeOK
  <2>2. CASE v # w
    <3>1. pc'[v] = pc[v] /\ dead'[v] = dead[v] /\ budget'[v] = budget[v] /\ job'[v] = job[v]
      BY <2>2 DEF QueueInv, TypeOK, Forget
    <3> QED
      BY <3>1, PutBackFacts, QueueAssumption DEF QueueInv, TypeOK, SpentInv, WorkersInv
  <2> QED
    BY <2>1, <2>2
<1>5. GivenUpForCause'
  BY <1>0, SweptFacts, PutBackFacts, QueueAssumption DEF QueueInv, TypeOK, GivenUpForCause
<1> QED
  BY <1>1, <1>2, <1>3, <1>4, <1>5 DEF QueueInv

LEMMA CompleteKeeps ==
  ASSUME QueueInv, NEW w \in Worker, Complete(w) PROVE QueueInv'
BY QueueAssumption
   DEF Complete, QueueInv, TypeOK, WorkersInv, ClaimsInv, AttemptsAccounted, SpentInv,
       GivenUpForCause, JobStatus, Terminal

LEMMA GiveUpKeeps ==
  ASSUME QueueInv, NEW w \in Worker, GiveUp(w) PROVE QueueInv'
BY QueueAssumption
   DEF GiveUp, QueueInv, TypeOK, WorkersInv, ClaimsInv, AttemptsAccounted, SpentInv,
       GivenUpForCause, JobStatus, Terminal

LEMMA RetryKeeps ==
  ASSUME QueueInv, NEW w \in Worker, Retry(w) PROVE QueueInv'
<1> USE DEF Retry
<1>0. job[w] \in Job
  BY DEF QueueInv, WorkersInv
<1>1. TypeOK'
  BY <1>0 DEF QueueInv, TypeOK, Forget, JobStatus
<1>2. WorkersInv' /\ ClaimsInv' /\ AttemptsAccounted'
  BY <1>0 DEF QueueInv, TypeOK, WorkersInv, ClaimsInv, AttemptsAccounted
<1>3. \A j \in Job : retries'[j] >= retries[j]
  BY <1>0 DEF QueueInv, TypeOK
<1>4. SpentInv'
  BY <1>0, <1>3, QueueAssumption DEF QueueInv, TypeOK, SpentInv, WorkersInv, Forget
<1>5. GivenUpForCause'
  BY <1>0, <1>3, QueueAssumption DEF QueueInv, TypeOK, GivenUpForCause
<1> QED
  BY <1>1, <1>2, <1>4, <1>5 DEF QueueInv

LEMMA OutsideKeeps ==
  ASSUME QueueInv, NEW j \in Job,
         CountJobs(j) \/ Insert(j) \/ CancelJob(j) \/ LeaseEnds(j) \/ TtlEnds(j)
  PROVE  QueueInv'
<1> USE QueueAssumption
    DEF QueueInv, TypeOK, WorkersInv, ClaimsInv, AttemptsAccounted, SpentInv,
        GivenUpForCause, JobStatus, Terminal, workerVars
<1>1. CASE CountJobs(j)
  BY <1>1 DEF CountJobs
<1>2. CASE Insert(j)
  BY <1>2 DEF Insert
<1>3. CASE CancelJob(j)
  BY <1>3 DEF CancelJob
<1>4. CASE LeaseEnds(j)
  BY <1>4 DEF LeaseEnds
<1>5. CASE TtlEnds(j)
  BY <1>5 DEF TtlEnds
<1> QED
  BY <1>1, <1>2, <1>3, <1>4, <1>5

LEMMA QueueStepInv == QueueInv /\ [Next]_vars => QueueInv'
<1> SUFFICES ASSUME QueueInv, [Next]_vars PROVE QueueInv'
  OBVIOUS
<1>1. ASSUME NEW w \in Worker, WorkerStep(w) \/ Crash(w) PROVE QueueInv'
  BY <1>1, ReadDeadKeeps, ClaimNothingKeeps, ClaimKeeps, CompleteKeeps, ReadRetriesKeeps,
     RetryKeeps, GiveUpKeeps, CrashKeeps DEF WorkerStep
<1>2. CASE UNCHANGED vars
  BY <1>2 DEF vars, rowVars, workerVars, QueueInv, TypeOK, WorkersInv, ClaimsInv,
              AttemptsAccounted, SpentInv, GivenUpForCause
<1> QED
  BY <1>1, <1>2, OutsideKeeps DEF Next

(* The rows and what the workers have read of them fit together in every   *)
(* reachable state.                                                        *)
THEOREM QueueInvariant == Spec => []QueueInv
BY QueueInitInv, QueueStepInv, PTL DEF Spec

(* The variables of the queue always have their types.                     *)
THEOREM QueueTyped == Spec => []TypeOK
<1>1. QueueInv => TypeOK
  BY DEF QueueInv
<1> QED
  BY <1>1, QueueInvariant, PTL

(* However often processes die, overrun their leases or act on stale       *)
(* reads, a job is handed out at most once more than its retries count.    *)
THEOREM AttemptsAreAccounted == Spec => []AttemptsAccounted
<1>1. QueueInv => AttemptsAccounted
  BY DEF QueueInv
<1> QED
  BY <1>1, QueueInvariant, PTL

(* No job ends in the dead letters with retries and time to live left.     *)
THEOREM JobsGivenUpForCause == Spec => []GivenUpForCause
<1>1. QueueInv => GivenUpForCause
  BY DEF QueueInv
<1> QED
  BY <1>1, QueueInvariant, PTL

-----------------------------------------------------------------------------
(* Once the retries of a job are spent, no worker reads it to have one     *)
(* left any more: those that still may put it back are the ones that read  *)
(* it before, and each does so once.                                       *)
Holders(j) == {w \in Worker : j \in budget[w]}

RetriesInv ==
  \A j \in Job : retries[j] >= MaxRetries =>
    retries[j] + Cardinality(Holders(j)) <= MaxRetries + Cardinality(Worker) - 1

LEMMA WorkersCount ==
  ASSUME NEW S \in SUBSET Worker
  PROVE  IsFiniteSet(S) /\ Cardinality(S) \in Nat /\ Cardinality(S) <= Cardinality(Worker)
BY FS_Subset, FS_CardinalityType, QueueAssumption

LEMMA SomeWorker == Cardinality(Worker) \in Nat /\ Cardinality(Worker) >= 1
BY FS_CardinalityType, FS_EmptySet, QueueAssumption

LEMMA RetriesInvInit == Init => RetriesInv
<1> SUFFICES ASSUME Init, NEW j \in Job
             PROVE  0 + Cardinality(Holders(j)) <= MaxRetries + Cardinality(Worker) - 1
  BY DEF Init, RetriesInv
<1>1. Holders(j) = {}
  BY DEF Init, Holders
<1> QED
  BY <1>1, FS_EmptySet, SomeWorker, QueueAssumption

(* A job keeps its bound when nothing is put back, when a holder puts it   *)
(* back and holds it no more, and when it still has retries left.          *)
LEMMA RetriesInvStep ==
  ASSUME TypeOK, RetriesInv,
         \A j \in Job :
           \/ retries'[j] = retries[j] /\ Holders(j)' \subseteq Holders(j)
           \/ /\ retries'[j] = retries[j] + 1
              /\ \E w \in Holders(j) : Holders(j)' \subseteq Holders(j) \ {w}
           \/ retries'[j] = retries[j] /\ retries[j] < MaxRetries
  PROVE  RetriesInv'
<1> SUFFICES ASSUME NEW j \in Job, retries'[j] >= MaxRetries
             PROVE  retries'[j] + Cardinality(Holders(j)')
                      <= MaxRetries + Cardinality(Worker) - 1
  BY DEF RetriesInv
<1>1. Holders(j) \in SUBSET Worker /\ Holders(j)' \in SUBSET Worker
  BY DEF Holders
<1>2. /\ Cardinality(Holders(j)) \in Nat /\ Cardinality(Holders(j)') \in Nat
      /\ IsFiniteSet(Holders(j)) /\ Cardinality(Holders(j)) <= Cardinality(Worker)
      /\ retries[j] \in Nat
  BY <1>1, WorkersCount DEF TypeOK
<1>3. retries[j] >= MaxRetries =>
        retries[j] + Cardinality(Holders(j)) <= MaxRetries + Cardinality(Worker) - 1
  BY DEF RetriesInv
<1>4. CASE retries'[j] = retries[j] /\ Holders(j)' \subseteq Holders(j)
  <2>1. Cardinality(Holders(j)') <= Cardinality(Holders(j))
    BY <1>2, <1>4, FS_Subset
  <2> QED
    BY <1>2, <1>3, <1>4, <2>1, SomeWorker, QueueAssumption
<1>5. ASSUME retries'[j] = retries[j] + 1,
             NEW w \in Holders(j), Holders(j)' \subseteq Holders(j) \ {w}
      PROVE  retries'[j] + Cardinality(Holders(j)') <= MaxRetries + Cardinality(Worker) - 1
  <2>1. /\ IsFiniteSet(Holders(j) \ {w})
        /\ Cardinality(Holders(j) \ {w}) = Cardinality(Holders(j)) - 1
    BY <1>2, FS_RemoveElement
  <2>2. Cardinality(Holders(j)') <= Cardinality(Holders(j)) - 1
    BY <1>5, <2>1, FS_Subset
  <2> QED
    BY <1>2, <1>3, <1>5, <2>2, SomeWorker, QueueAssumption
<1> QED
  BY <1>2, <1>4, <1>5, QueueAssumption

LEMMA RetriesInvKept == TypeOK /\ WorkersInv /\ RetriesInv /\ [Next]_vars => RetriesInv'
<1> SUFFICES ASSUME TypeOK, WorkersInv, RetriesInv, [Next]_vars PROVE RetriesInv'
  OBVIOUS
<1>1. ASSUME UNCHANGED <<retries, budget>> PROVE RetriesInv'
  BY <1>1, RetriesInvStep DEF Holders
<1>2. ASSUME NEW w \in Worker, ReadDead(w) \/ ReadRetries(w) PROVE RetriesInv'
  <2>1. /\ retries' = retries
        /\ \A v \in Worker : v # w => budget'[v] = budget[v]
        /\ \A j \in budget'[w] : retries[j] < MaxRetries
    BY <1>2 DEF ReadDead, ReadRetries, rowVars, TypeOK
  <2>2. ASSUME NEW j \in Job, ~(retries[j] < MaxRetries) PROVE Holders(j)' \subseteq Holders(j)
    BY <2>1, <2>2 DEF Holders
  <2> QED
    BY <2>1, <2>2, RetriesInvStep
<1>3. ASSUME NEW w \in Worker, ClaimNothing(w) \/ Claim(w) PROVE RetriesInv'
  <2>1. PutBack(w) /\ Forget(w)
    BY <1>3 DEF ClaimNothing, Claim
  <2>2. /\ \A v \in Worker : v # w => budget'[v] = budget[v]
        /\ budget'[w] = {}
    BY <2>1 DEF Forget, TypeOK
  <2>3. \A j \in Job : Holders(j)' \subseteq Holders(j) \ {w}
    BY <2>2 DEF Holders
  <2>4. \A j \in Job : IF w \in Holders(j) THEN retries'[j] = retries[j] + 1
                                           ELSE retries'[j] = retries[j]
    BY <2>1 DEF PutBack, Holders
  <2> QED
    BY <2>3, <2>4, RetriesInvStep
<1>4. ASSUME NEW w \in Worker, Retry(w) PROVE RetriesInv'
  <2>1. job[w] \in Job /\ job[w] \in budget[w]
    BY <1>4 DEF Retry, WorkersInv
  <2>2. /\ \A v \in Worker : v # w => budget'[v] = budget[v]
        /\ budget'[w] = {}
    BY <1>4 DEF Retry, Forget, TypeOK
  <2>3. \A j \in Job : Holders(j)' \subseteq Holders(j) \ {w}
    BY <2>2 DEF Holders
  <2>4. \A j \in Job : IF j = job[w] THEN retries'[j] = retries[j] + 1 /\ w \in Holders(j)
                                     ELSE retries'[j] = retries[j]
    BY <1>4, <2>1 DEF Retry, TypeOK, Holders
  <2> QED
    BY <2>3, <2>4, RetriesInvStep
<1>5. ASSUME NEW w \in Worker, Crash(w) PROVE RetriesInv'
  <2>1. retries' = retries /\ \A j \in Job : Holders(j)' \subseteq Holders(j)
    BY <1>5 DEF Crash, Forget, rowVars, TypeOK, Holders
  <2> QED
    BY <2>1, RetriesInvStep
<1>6. ASSUME NEW w \in Worker, Complete(w) \/ GiveUp(w) PROVE RetriesInv'
  BY <1>1, <1>6 DEF Complete, GiveUp
<1>7. ASSUME NEW j \in Job,
             CountJobs(j) \/ Insert(j) \/ CancelJob(j) \/ LeaseEnds(j) \/ TtlEnds(j)
      PROVE  RetriesInv'
  BY <1>1, <1>7 DEF CountJobs, Insert, CancelJob, LeaseEnds, TtlEnds, workerVars
<1>8. CASE UNCHANGED vars
  BY <1>1, <1>8 DEF vars, rowVars, workerVars
<1> QED
  BY <1>2, <1>3, <1>4, <1>5, <1>6, <1>7, <1>8 DEF Next, WorkerStep

LEMMA RetriesInvBounds == TypeOK /\ RetriesInv => RetriesBounded
<1> SUFFICES ASSUME TypeOK, RetriesInv, NEW j \in Job
             PROVE  retries[j] <= MaxRetries + Cardinality(Worker) - 1
  BY DEF RetriesBounded
<1>1. Holders(j) \in SUBSET Worker
  BY DEF Holders
<1>2. Cardinality(Holders(j)) \in Nat /\ retries[j] \in Nat
  BY <1>1, WorkersCount DEF TypeOK
<1> QED
  BY <1>2, SomeWorker, QueueAssumption DEF RetriesInv

(* Two processes can both use the last retry of a job, but never more than *)
(* one retry too many is used for each process after the first.            *)
THEOREM RetriesAreBounded == Spec => []RetriesBounded
<1>1. QueueInv => TypeOK /\ WorkersInv
  BY DEF QueueInv
<1> QED
  BY <1>1, QueueInitInv, QueueStepInv, RetriesInvInit, RetriesInvKept, RetriesInvBounds, PTL
     DEF Spec

(* A job is claimed at most max_retries times and once for each process.   *)
AttemptsBounded == \A j \in Job : claims[j] <= MaxRetries + Cardinality(Worker)

(* No job is handed to a worker without end: max_retries says how often a  *)
(* job is tried again, and each process can add one attempt to that.       *)
THEOREM AttemptsAreBounded == Spec => []AttemptsBounded
<1>1. QueueInv /\ RetriesBounded => AttemptsBounded
  <2> SUFFICES ASSUME QueueInv, RetriesBounded, NEW j \in Job
               PROVE  claims[j] <= MaxRetries + Cardinality(Worker)
    BY DEF AttemptsBounded
  <2>1. /\ claims[j] <= retries[j] + 1 /\ claims[j] \in Nat /\ retries[j] \in Nat
        /\ retries[j] <= MaxRetries + Cardinality(Worker) - 1
    BY DEF QueueInv, TypeOK, AttemptsAccounted, RetriesBounded
  <2> QED
    BY <2>1, WorkersCount, QueueAssumption
<1> QED
  BY <1>1, QueueInvariant, RetriesAreBounded, PTL
=============================================================================
