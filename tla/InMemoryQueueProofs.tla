------------------------- MODULE InMemoryQueueProofs -------------------------
(***************************************************************************)
(* What holds of the in-memory queue for any number of workers, jobs and   *)
(* tenants and any limits.                                                 *)
(***************************************************************************)
EXTENDS InMemoryQueue, FiniteSetTheorems, WellFoundedInduction, TLAPS

(* A finite set of numbers that is not empty has a greatest one.           *)
LEMMA MaxFacts ==
  ASSUME NEW S \in SUBSET Nat, IsFiniteSet(S), S # {}
  PROVE  Max(S) \in S /\ \A n \in S : n <= Max(S)
<1> DEFINE Top(C, m) == m \in C /\ \A n \in C : n <= m
           Bad == {C \in SUBSET S : C # {} /\ \A m \in C : ~Top(C, m)}
<1>1. Bad = {}
  <2> SUFFICES ASSUME Bad # {} PROVE FALSE
    OBVIOUS
  <2>1. Bad \subseteq FiniteSubsetsOf(S)
    BY FS_Subset DEF FiniteSubsetsOf
  <2>2. PICK C \in Bad : \A M \in Bad : ~(<<M, C>> \in StrictSubsetOrdering(S))
    BY <2>1, FS_StrictSubsetOrderingWellFounded, WFMin
  <2>3. PICK x \in C : TRUE
    OBVIOUS
  <2>4. C \ {x} \notin Bad
    BY <2>2, <2>3 DEF StrictSubsetOrdering
  <2>5. CASE C = {x}
    BY <2>5
  <2>6. CASE C # {x}
    <3>1. PICK m \in C \ {x} : Top(C \ {x}, m)
      BY <2>4, <2>6
    <3>2. m \in Nat /\ x \in Nat
      BY <3>1
    <3>3. Top(C, m) \/ Top(C, x)
      BY <3>1, <3>2
    <3> QED
      BY <3>1, <3>3
  <2> QED
    BY <2>5, <2>6
<1>2. PICK m \in S : \A n \in S : n <= m
  BY <1>1
<1> QED
  BY <1>2 DEF Max

LEMMA JobFacts == IsFiniteSet(Job)
BY FS_Interval, QueueAssumption DEF Job

LEMMA LastPlaceFacts ==
  ASSUME TypeOK, NEW j \in Job
  PROVE  LastPlace(j) \in Nat /\ LastPlace(j) > 0
<1> DEFINE f == [k \in Lane(j) |-> place[k]]
           S == {place[k] : k \in Lane(j)}
<1>1. Lane(j) \in SUBSET Job
  BY DEF Lane, Waiting
<1>2. f \in Surjection(Lane(j), S)
  BY DEF Surjection
<1>3. IsFiniteSet(S)
  BY <1>1, <1>2, JobFacts, FS_Subset, FS_Surjection
<1>4. S \in SUBSET Nat
  BY <1>1 DEF TypeOK
<1> HIDE DEF S
<1>5. {0} \cup S \in SUBSET Nat /\ IsFiniteSet({0} \cup S) /\ {0} \cup S # {}
  <2>1. IsFiniteSet(S \cup {0})
    BY <1>3, FS_AddElement
  <2>2. S \cup {0} = {0} \cup S
    OBVIOUS
  <2> QED
    BY <1>4, <2>1, <2>2
<1>6. Max({0} \cup S) \in Nat
  BY <1>5, MaxFacts
<1>7. LastPlace(j) = 1 + Max({0} \cup S)
  BY DEF LastPlace, S
<1> QED
  BY <1>6, <1>7
-----------------------------------------------------------------------------
(* What ties the variables of one job together: besides the parts of       *)
(* NothingMislaid and OneRunner, that a job nobody has claimed since it    *)
(* entered a lane has a retry to spare, and that no worker holds it then.  *)
PlacesInv(j) ==
  /\ place[j] > 0 => status[j] = "queued"
  /\ j \in processing <=> status[j] = "processing"
  /\ j \in completed => status[j] = "completed"
  /\ j \in dead <=> status[j] \in {"dead_letter", "cancelled"}
  /\ status[j] = "queued" /\ ~ttlOver[j] => place[j] > 0
  /\ status[j] = "completed" /\ ~ttlOver[j] => j \in completed

ClaimsInv(j) ==
  /\ status[j] = "new" => claims[j] = 0
  /\ status[j] = "queued" => claims[j] <= retries[j]
  /\ claims[j] <= retries[j] + 1

HoldersInv(j) ==
  /\ \A w \in Worker : j \in holding[w] => status[j] \notin {"new", "queued"}
  /\ \A v, w \in Worker : j \in holding[v] /\ j \in holding[w] => v = w

JobInv(j) == PlacesInv(j) /\ ClaimsInv(j) /\ HoldersInv(j)

QueueInv == TypeOK /\ \A j \in Job : JobInv(j)

(* What a step may do to a job it is not about: a purge of expired jobs.   *)
Spared(k) ==
  /\ status'[k] = status[k] /\ retries'[k] = retries[k]
  /\ ttlOver'[k] = ttlOver[k] /\ claims'[k] = claims[k]
  /\ place'[k] = place[k] \/ (place'[k] = 0 /\ ttlOver[k])
  /\ k \in processing' <=> k \in processing
  /\ k \in dead' <=> k \in dead
  /\ k \in completed' => k \in completed
  /\ k \in completed /\ ~ttlOver[k] => k \in completed'
  /\ \A w \in Worker : k \in holding'[w] => k \in holding[w]

LEMMA SparedKeeps ==
  ASSUME NEW k \in Job, JobInv(k), Spared(k), place'[k] \in Nat
  PROVE  JobInv(k)'
<1>1. PlacesInv(k)'
  BY DEF JobInv, PlacesInv, Spared
<1>2. ClaimsInv(k)'
  BY DEF JobInv, ClaimsInv, Spared
<1>3. HoldersInv(k)'
  BY DEF JobInv, HoldersInv, Spared
<1> QED
  BY <1>1, <1>2, <1>3 DEF JobInv

LEMMA QueueInitInv == Init => QueueInv
BY QueueAssumption
   DEF Init, QueueInv, TypeOK, JobInv, PlacesInv, ClaimsInv, HoldersInv, Status, Over

LEMMA SubmitKeeps ==
  ASSUME QueueInv, NEW j \in Job, Submit(j)
  PROVE  QueueInv' /\ \A k \in Job : k # j => Spared(k)
<1>1. LastPlace(j) \in Nat /\ LastPlace(j) > 0
  BY LastPlaceFacts DEF QueueInv
<1>2. TypeOK'
  BY <1>1 DEF QueueInv, TypeOK, Submit, Status, workerVars
<1>3. JobInv(j)'
  BY <1>1 DEF QueueInv, TypeOK, Submit, JobInv, PlacesInv, ClaimsInv, HoldersInv, workerVars
<1>4. ASSUME NEW k \in Job, k # j PROVE Spared(k) /\ JobInv(k)'
  <2>1. Spared(k)
    BY <1>4 DEF Spared, QueueInv, TypeOK, Submit, workerVars
  <2> QED
    BY <1>2, <2>1, SparedKeeps DEF QueueInv, TypeOK
<1> QED
  BY <1>2, <1>3, <1>4 DEF QueueInv

LEMMA TakeKeeps ==
  ASSUME QueueInv, NEW w \in Worker, Take(w)
  PROVE  QueueInv' /\ \E j \in Heads : /\ place'[j] = 0 /\ status'[j] = "processing"
                                     /\ claims'[j] = claims[j] + 1
                                     /\ \A k \in Job : k # j => Spared(k)
<1> PICK j \in Heads : \E visited \in SUBSET (Tenant \ {TenantOf[k] : k \in Live}) :
       /\ place' = [k \in Job |-> IF k \in Purged(visited, j) \cup {j} THEN 0 ELSE place[k]]
       /\ status' = [status EXCEPT ![j] = "processing"]
       /\ processing' = processing \cup {j}
       /\ claims' = [claims EXCEPT ![j] = @ + 1]
       /\ holding' = [holding EXCEPT ![w] = @ \cup {j}]
       /\ taking' = [taking EXCEPT ![w] = Cardinality(holding'[w]) < MaxJobs]
  BY DEF Take
<1> PICK gone \in SUBSET {k \in Job : ttlOver[k]} :
       place' = [k \in Job |-> IF k \in gone \cup {j} THEN 0 ELSE place[k]]
  BY DEF Purged, Waiting
<1>0. UNCHANGED <<retries, ttlOver, completed, dead>>
  BY DEF Take
<1>1. j \in Job /\ place[j] > 0 /\ status[j] = "queued"
  BY DEF Heads, Live, Waiting, QueueInv, JobInv, PlacesInv
<1>2. TypeOK'
  BY <1>0, <1>1 DEF QueueInv, TypeOK, Status
<1>3. JobInv(j)'
  <2>1. PlacesInv(j)' /\ ClaimsInv(j)'
    BY <1>0, <1>1 DEF QueueInv, TypeOK, JobInv, PlacesInv, ClaimsInv
  <2>2. HoldersInv(j)'
    BY <1>0, <1>1 DEF QueueInv, TypeOK, JobInv, HoldersInv
  <2> QED
    BY <2>1, <2>2 DEF JobInv
<1>4. ASSUME NEW k \in Job, k # j PROVE Spared(k) /\ JobInv(k)'
  <2>1. Spared(k)
    BY <1>0, <1>4 DEF Spared, QueueInv, TypeOK
  <2> QED
    BY <1>2, <2>1, SparedKeeps DEF QueueInv, TypeOK
<1>5. place'[j] = 0 /\ status'[j] = "processing" /\ claims'[j] = claims[j] + 1
  BY <1>1 DEF QueueInv, TypeOK
<1>6. QueueInv'
  BY <1>2, <1>3, <1>4 DEF QueueInv
<1> QED
  BY <1>4, <1>5, <1>6

LEMMA TakeNothingKeeps ==
  ASSUME QueueInv, NEW w \in Worker, TakeNothing(w)
  PROVE  QueueInv' /\ \A k \in Job : Spared(k)
<1>1. TypeOK'
  BY DEF QueueInv, TypeOK, TakeNothing
<1>2. ASSUME NEW k \in Job PROVE Spared(k) /\ JobInv(k)'
  <2>1. Spared(k)
    BY DEF Spared, QueueInv, TypeOK, TakeNothing
  <2> QED
    BY <1>1, <2>1, SparedKeeps DEF QueueInv, TypeOK
<1> QED
  BY <1>1, <1>2 DEF QueueInv

(* The steps that end an attempt let go of the job they are about.         *)
LEMMA LetGoFacts ==
  ASSUME QueueInv, NEW w \in Worker, NEW j \in Job, LetGo(w, j)
  PROVE  /\ holding' \in [Worker -> SUBSET Job] /\ taking' \in [Worker -> BOOLEAN]
         /\ claims' = claims
         /\ \A v \in Worker : holding'[v] \subseteq holding[v]
         /\ \A v \in Worker : j \notin holding'[v]
BY DEF LetGo, QueueInv, TypeOK, JobInv, HoldersInv

LEMMA CompleteKeeps ==
  ASSUME QueueInv, NEW w \in Worker, NEW j \in Job, Complete(w, j)
  PROVE  QueueInv' /\ \A k \in Job : k # j => Spared(k)
<1>0. LetGo(w, j)
  BY DEF Complete
<1>1. TypeOK'
  BY <1>0, LetGoFacts DEF QueueInv, TypeOK, Complete, Status, Over
<1>2. JobInv(j)'
  BY <1>0, LetGoFacts DEF QueueInv, TypeOK, Complete, JobInv, PlacesInv, ClaimsInv, HoldersInv
<1>3. ASSUME NEW k \in Job, k # j PROVE Spared(k) /\ JobInv(k)'
  <2>1. Spared(k)
    BY <1>0, <1>3, LetGoFacts DEF Spared, QueueInv, TypeOK, Complete
  <2> QED
    BY <1>1, <2>1, SparedKeeps DEF QueueInv, TypeOK
<1> QED
  BY <1>1, <1>2, <1>3 DEF QueueInv

LEMMA EndUnclaimedKeeps ==
  ASSUME QueueInv, NEW w \in Worker, NEW j \in Job, EndUnclaimed(w, j)
  PROVE  QueueInv' /\ \A k \in Job : Spared(k)
<1>0. LetGo(w, j)
  BY DEF EndUnclaimed
<1>1. TypeOK'
  BY <1>0, LetGoFacts DEF QueueInv, TypeOK, EndUnclaimed, jobVars
<1>2. ASSUME NEW k \in Job PROVE Spared(k) /\ JobInv(k)'
  <2>1. Spared(k)
    BY <1>0, LetGoFacts DEF Spared, QueueInv, TypeOK, EndUnclaimed, jobVars
  <2> QED
    BY <1>1, <2>1, SparedKeeps DEF QueueInv, TypeOK
<1> QED
  BY <1>1, <1>2 DEF QueueInv

LEMMA RetryKeeps ==
  ASSUME QueueInv, NEW w \in Worker, NEW j \in Job, Retry(w, j)
  PROVE  QueueInv' /\ \A k \in Job : k # j => Spared(k)
<1>0. LetGo(w, j) /\ LastPlace(j) \in Nat /\ LastPlace(j) > 0
  BY LastPlaceFacts DEF Retry, QueueInv
<1>1. TypeOK'
  BY <1>0, LetGoFacts, QueueAssumption DEF QueueInv, TypeOK, Retry, Status
<1>2. JobInv(j)'
  <2>1. PlacesInv(j)'
    BY <1>0 DEF QueueInv, TypeOK, Retry, JobInv, PlacesInv
  <2>2. ClaimsInv(j)' /\ HoldersInv(j)'
    BY <1>0, LetGoFacts DEF QueueInv, TypeOK, Retry, JobInv, ClaimsInv, HoldersInv
  <2> QED
    BY <2>1, <2>2 DEF JobInv
<1>3. ASSUME NEW k \in Job, k # j PROVE Spared(k) /\ JobInv(k)'
  <2>1. Spared(k)
    BY <1>0, <1>3, LetGoFacts DEF Spared, QueueInv, TypeOK, Retry
  <2> QED
    BY <1>1, <2>1, SparedKeeps DEF QueueInv, TypeOK
<1> QED
  BY <1>1, <1>2, <1>3 DEF QueueInv

LEMMA GiveUpKeeps ==
  ASSUME QueueInv, NEW w \in Worker, NEW j \in Job, GiveUp(w, j)
  PROVE  QueueInv' /\ \A k \in Job : k # j => Spared(k)
<1>0. LetGo(w, j)
  BY DEF GiveUp
<1>a. /\ retries' \in [Job -> 0 .. MaxRetries] /\ ttlOver' \in [Job -> BOOLEAN]
      /\ retries'[j] >= retries[j]
      /\ \A k \in Job : k # j => retries'[k] = retries[k] /\ ttlOver'[k] = ttlOver[k]
  <2>1. /\ retries \in [Job -> 0 .. MaxRetries] /\ ttlOver \in [Job -> BOOLEAN]
        /\ retries[j] \in Nat /\ MaxRetries \in Nat
    BY QueueAssumption DEF QueueInv, TypeOK
  <2>2. CASE retries[j] < MaxRetries
    <3>1. /\ retries' = [retries EXCEPT ![j] = retries[j] + 1]
          /\ ttlOver' = [ttlOver EXCEPT ![j] = FALSE]
      BY <2>2 DEF GiveUp
    <3>2. retries[j] + 1 \in 0 .. MaxRetries
      BY <2>1, <2>2
    <3> QED
      BY <2>1, <3>1, <3>2
  <2>3. CASE ~(retries[j] < MaxRetries)
    BY <2>1, <2>3 DEF GiveUp
  <2> QED
    BY <2>2, <2>3
<1>1. TypeOK'
  BY <1>0, <1>a, LetGoFacts DEF QueueInv, TypeOK, GiveUp, Status, Over
<1>2. JobInv(j)'
  <2>1. PlacesInv(j)'
    BY <1>0 DEF QueueInv, TypeOK, GiveUp, JobInv, PlacesInv
  <2>2. claims'[j] <= retries'[j] + 1
    BY <1>0, <1>a, LetGoFacts, QueueAssumption DEF QueueInv, TypeOK, JobInv, ClaimsInv
  <2>3. status'[j] = "dead_letter"
    BY DEF GiveUp, QueueInv, TypeOK
  <2>4. ClaimsInv(j)' /\ HoldersInv(j)'
    BY <1>0, <2>2, <2>3, LetGoFacts DEF ClaimsInv, HoldersInv
  <2> QED
    BY <2>1, <2>4 DEF JobInv
<1>3. ASSUME NEW k \in Job, k # j PROVE Spared(k) /\ JobInv(k)'
  <2>1. Spared(k)
    BY <1>0, <1>a, <1>3, LetGoFacts DEF Spared, QueueInv, TypeOK, GiveUp
  <2> QED
    BY <1>1, <2>1, SparedKeeps DEF QueueInv, TypeOK
<1> QED
  BY <1>1, <1>2, <1>3 DEF QueueInv

LEMMA CancelKeeps ==
  ASSUME QueueInv, NEW j \in Job, Cancel(j)
  PROVE  QueueInv' /\ \A k \in Job : k # j => Spared(k)
<1>1. TypeOK'
  BY DEF QueueInv, TypeOK, Cancel, Status, Over, workerVars
<1>2. JobInv(j)'
  BY DEF QueueInv, TypeOK, Cancel, JobInv, PlacesInv, ClaimsInv, HoldersInv, workerVars
<1>3. ASSUME NEW k \in Job, k # j PROVE Spared(k) /\ JobInv(k)'
  <2>1. Spared(k)
    BY <1>3 DEF Spared, QueueInv, TypeOK, Cancel, workerVars
  <2> QED
    BY <1>1, <2>1, SparedKeeps DEF QueueInv, TypeOK
<1> QED
  BY <1>1, <1>2, <1>3 DEF QueueInv

LEMMA TtlEndsKeeps ==
  ASSUME QueueInv, NEW j \in Job, TtlEnds(j)
  PROVE  QueueInv'
<1>1. TypeOK'
  BY DEF QueueInv, TypeOK, TtlEnds, workerVars
<1>2. ASSUME NEW k \in Job PROVE JobInv(k)'
  BY DEF QueueInv, TypeOK, TtlEnds, JobInv, PlacesInv, ClaimsInv, HoldersInv, workerVars
<1> QED
  BY <1>1, <1>2 DEF QueueInv

LEMMA QueueStepInv == QueueInv /\ [Next]_vars => QueueInv'
<1> SUFFICES ASSUME QueueInv, [Next]_vars PROVE QueueInv'
  OBVIOUS
<1>1. CASE UNCHANGED vars
  BY <1>1 DEF vars, jobVars, workerVars, QueueInv, TypeOK, JobInv, PlacesInv, ClaimsInv, HoldersInv
<1>2. ASSUME NEW j \in Job, Submit(j) \/ Cancel(j) \/ TtlEnds(j) PROVE QueueInv'
  BY <1>2, SubmitKeeps, CancelKeeps, TtlEndsKeeps
<1>3. ASSUME NEW w \in Worker, WorkerStep(w) PROVE QueueInv'
  BY <1>3, TakeKeeps, TakeNothingKeeps, CompleteKeeps, EndUnclaimedKeeps, RetryKeeps, GiveUpKeeps
     DEF WorkerStep
<1> QED
  BY <1>1, <1>2, <1>3 DEF Next

(* Every reachable state is typed and ties each job's places together.     *)
THEOREM MemoryQueueInvariant == Spec => []QueueInv
BY QueueInitInv, QueueStepInv, PTL DEF Spec

(* The type invariant, which bounds the retries of every job.              *)
THEOREM MemoryQueueTyped == Spec => []TypeOK
<1>1. QueueInv => TypeOK
  BY DEF QueueInv
<1> QED
  BY <1>1, MemoryQueueInvariant, PTL

(* No job is mislaid, whatever workers, cancellations and refusals do.     *)
THEOREM MemoryQueueKeepsJobs == Spec => []NothingMislaid
<1>1. QueueInv => NothingMislaid
  BY DEF QueueInv, TypeOK, JobInv, PlacesInv, NothingMislaid, Waiting
<1> QED
  BY <1>1, MemoryQueueInvariant, PTL

(* One worker at most runs a job, and no attempt is free.                  *)
THEOREM MemoryQueueOneRunner == Spec => []OneRunner
<1>1. QueueInv => OneRunner
  BY DEF QueueInv, JobInv, ClaimsInv, HoldersInv, OneRunner
<1> QED
  BY <1>1, MemoryQueueInvariant, PTL
-----------------------------------------------------------------------------
ShareOf(t) == {j \in Waiting : TenantOf[j] = t}

LEMMA WaitingFinite ==
  ASSUME NEW S \in SUBSET Waiting
  PROVE  IsFiniteSet(S) /\ Cardinality(S) \in Nat
BY JobFacts, FS_Subset, FS_CardinalityType DEF Waiting

(* Lanes only get longer by one job for which the backlog had room.        *)
LEMMA ShareKept ==
  ASSUME QueueInv, QueueInv', ShareHeld, NEW j \in Job,
         \A k \in Job : k # j => place'[k] \in {0, place[k]},
         place'[j] \in {0, place[j]} \/ HasRoom(TenantOf[j])
  PROVE  ShareHeld'
<1> SUFFICES ASSUME NEW t \in Tenant PROVE Cardinality(ShareOf(t)') <= MaxSize
  BY DEF ShareHeld, ShareOf
<1>1. ShareOf(t) \in SUBSET Waiting /\ Cardinality(ShareOf(t)) <= MaxSize
  BY DEF ShareHeld, ShareOf
<1>2. IsFiniteSet(ShareOf(t)) /\ Cardinality(ShareOf(t)) \in Nat /\ MaxSize \in Nat
  BY <1>1, WaitingFinite, QueueAssumption
<1>3. CASE ShareOf(t)' \subseteq ShareOf(t)
  <2>1. Cardinality(ShareOf(t)') <= Cardinality(ShareOf(t)) /\ Cardinality(ShareOf(t)') \in Nat
    BY <1>2, <1>3, FS_Subset, FS_CardinalityType
  <2> QED
    BY <1>1, <1>2, <2>1
<1>4. CASE ~(ShareOf(t)' \subseteq ShareOf(t))
  <2>1. /\ ShareOf(t)' \subseteq ShareOf(t) \cup {j} /\ TenantOf[j] = t
        /\ HasRoom(t)
    BY <1>4 DEF ShareOf, Waiting, QueueInv, TypeOK
  <2>2. ShareOf(t) \subseteq Backlog(t) /\ Backlog(t) \in SUBSET Waiting
    BY DEF ShareOf, Backlog
  <2>3. Cardinality(ShareOf(t)) <= Cardinality(Backlog(t)) /\ Cardinality(Backlog(t)) \in Nat
    BY <2>2, WaitingFinite, FS_Subset
  <2>4. Cardinality(ShareOf(t)) + 1 <= MaxSize
    BY <1>2, <2>1, <2>3 DEF HasRoom
  <2>5. /\ IsFiniteSet(ShareOf(t) \cup {j})
        /\ Cardinality(ShareOf(t) \cup {j}) <= Cardinality(ShareOf(t)) + 1
        /\ Cardinality(ShareOf(t) \cup {j}) \in Nat
    <3>1. /\ IsFiniteSet(ShareOf(t) \cup {j})
          /\ Cardinality(ShareOf(t) \cup {j}) = IF j \in ShareOf(t) THEN Cardinality(ShareOf(t))
                                                 ELSE Cardinality(ShareOf(t)) + 1
      BY <1>2, FS_AddElement
    <3> QED
      BY <1>2, <3>1
  <2>6. /\ Cardinality(ShareOf(t)') <= Cardinality(ShareOf(t) \cup {j})
        /\ Cardinality(ShareOf(t)') \in Nat
    BY <2>1, <2>5, FS_Subset, FS_CardinalityType
  <2> QED
    BY <1>2, <2>4, <2>5, <2>6
<1> QED
  BY <1>3, <1>4

LEMMA ShareInit == Init => ShareHeld
<1> SUFFICES ASSUME Init, NEW t \in Tenant PROVE Cardinality(ShareOf(t)) <= MaxSize
  BY DEF ShareHeld, ShareOf
<1>1. ShareOf(t) = {}
  BY DEF Init, ShareOf, Waiting
<1> QED
  BY <1>1, FS_EmptySet, QueueAssumption

LEMMA ShareStep == QueueInv /\ QueueInv' /\ ShareHeld /\ [Next]_vars => ShareHeld'
<1> SUFFICES ASSUME QueueInv, QueueInv', ShareHeld, [Next]_vars PROVE ShareHeld'
  OBVIOUS
<1>1. CASE UNCHANGED place
  BY <1>1 DEF ShareHeld, Waiting
<1>2. ASSUME NEW j \in Job, Submit(j) \/ Cancel(j) \/ \E w \in Worker : Retry(w, j)
      PROVE  ShareHeld'
  BY <1>2, ShareKept DEF Submit, Cancel, Retry, QueueInv, TypeOK
<1>3. ASSUME NEW w \in Worker, Take(w) \/ TakeNothing(w) PROVE ShareHeld'
  <2>1. \A k \in Job : place'[k] \in {0, place[k]}
    BY <1>3 DEF Take, TakeNothing, QueueInv, TypeOK
  <2>2. CASE Job = {}
    <3>1. Waiting' = Waiting
      BY <2>2 DEF Waiting
    <3> QED
      BY <3>1 DEF ShareHeld
  <2>3. ASSUME NEW j \in Job PROVE ShareHeld'
    BY <2>1, ShareKept
  <2> QED
    BY <2>2, <2>3
<1>4. ASSUME NEW w \in Worker, NEW j \in Job, Complete(w, j) \/ EndUnclaimed(w, j) \/ GiveUp(w, j)
      PROVE  ShareHeld'
  BY <1>1, <1>4 DEF Complete, EndUnclaimed, GiveUp, jobVars
<1>5. ASSUME NEW j \in Job, TtlEnds(j) PROVE ShareHeld'
  BY <1>1, <1>5 DEF TtlEnds
<1>6. CASE UNCHANGED vars
  BY <1>1, <1>6 DEF vars, jobVars
<1>7. ASSUME NEW w \in Worker, WorkerStep(w) PROVE ShareHeld'
  BY <1>2, <1>3, <1>4, <1>7 DEF WorkerStep
<1> QED
  BY <1>2, <1>5, <1>6, <1>7 DEF Next

(* A job without a tenant that enters finds room in the whole queue.       *)
LEMMA DefaultEnters ==
  ASSUME QueueInv, [Next]_vars, NEW j \in Job, TenantOf[j] = Default, place[j] = 0, place'[j] > 0
  PROVE  Cardinality(Waiting') <= MaxSize
<1>1. ASSUME NEW k \in Job, Submit(k) \/ \E w \in Worker : Retry(w, k)
      PROVE  Cardinality(Waiting') <= MaxSize
  <2>1. k = j /\ Waiting' = Waiting \cup {j} /\ j \notin Waiting /\ HasRoom(Default)
    BY <1>1 DEF Submit, Retry, Waiting, QueueInv, TypeOK
  <2>2. IsFiniteSet(Waiting) /\ Cardinality(Waiting) \in Nat /\ Cardinality(Waiting) < MaxSize
    BY <2>1, WaitingFinite DEF HasRoom, Backlog
  <2>3. Cardinality(Waiting') = Cardinality(Waiting) + 1
    BY <2>1, <2>2, FS_AddElement
  <2> QED
    BY <2>2, <2>3, QueueAssumption
<1>2. ASSUME NEW w \in Worker, Take(w) \/ TakeNothing(w) PROVE FALSE
  BY <1>2 DEF Take, TakeNothing, QueueInv, TypeOK
<1>3. ASSUME UNCHANGED place \/ \E k \in Job : Cancel(k) PROVE FALSE
  BY <1>3 DEF Cancel, QueueInv, TypeOK
<1>4. ASSUME NEW w \in Worker, NEW k \in Job, Complete(w, k) \/ EndUnclaimed(w, k) \/ GiveUp(w, k)
      PROVE  FALSE
  BY <1>3, <1>4 DEF Complete, EndUnclaimed, GiveUp, jobVars
<1>5. ASSUME UNCHANGED vars \/ \E k \in Job : TtlEnds(k) PROVE FALSE
  BY <1>3, <1>5 DEF TtlEnds, vars, jobVars
<1> QED
  BY <1>1, <1>2, <1>3, <1>4, <1>5 DEF Next, WorkerStep

(* No tenant gets more than its share of the queue, and a job without a    *)
(* tenant enters only while the whole queue has room for it.               *)
THEOREM MemoryQueueShares == Spec => ShareRespected
<1>1. Spec => []ShareHeld
  BY ShareInit, ShareStep, MemoryQueueInvariant, PTL DEF Spec
<1>2. QueueInv /\ [Next]_vars
      => [\A j \in Job : TenantOf[j] = Default /\ place[j] = 0 /\ place'[j] > 0
                          => Cardinality(Waiting') <= MaxSize]_vars
  BY DefaultEnters
<1> QED
  BY <1>1, <1>2, MemoryQueueInvariant, PTL DEF Spec, ShareRespected
-----------------------------------------------------------------------------
(* Only Take moves a job from its lane to a worker.                        *)
LEMMA TakenFromLane ==
  ASSUME QueueInv, [Next]_vars, NEW j \in Job, place[j] > 0, place'[j] = 0, j \in processing'
  PROVE  j \in Heads
<1>1. j \notin processing
  BY DEF QueueInv, JobInv, PlacesInv
<1>2. ASSUME NEW w \in Worker, Take(w) PROVE j \in Heads
  BY <1>1, <1>2 DEF Take
<1>3. ASSUME NEW w \in Worker, WorkerStep(w), ~Take(w) PROVE j \notin processing'
  BY <1>1, <1>3 DEF WorkerStep, TakeNothing, Complete, EndUnclaimed, Retry, GiveUp, jobVars
<1>4. ASSUME NEW k \in Job, Submit(k) \/ Cancel(k) \/ TtlEnds(k) PROVE j \notin processing'
  BY <1>1, <1>4 DEF Submit, Cancel, TtlEnds
<1>5. CASE UNCHANGED vars
  BY <1>1, <1>5 DEF vars, jobVars
<1> QED
  BY <1>2, <1>3, <1>4, <1>5 DEF Next

(* Inside a tenant, jobs are taken by priority and then in their order.    *)
THEOREM MemoryQueueOrder == Spec => TenantOrderKept
<1>1. QueueInv /\ [Next]_vars
      => [\A j, k \in Job :
            /\ place[j] > 0 /\ place'[j] = 0 /\ j \in processing'
            /\ k \in Live /\ k # j /\ TenantOf[k] = TenantOf[j]
            => Precedes(j, k)]_vars
  BY TakenFromLane DEF Heads
<1> QED
  BY <1>1, MemoryQueueInvariant, PTL DEF Spec, TenantOrderKept
-----------------------------------------------------------------------------
PhaseOf(j) == IF status[j] = "new" THEN "new"
              ELSE IF j \in Waiting THEN "waiting"
              ELSE IF j \in processing THEN "running" ELSE "over"

(* What the abstract queue does with one job.                              *)
LEMMA MoveFacts ==
  ASSUME NEW j \in Job,
         \/ PhaseOf(j)' = PhaseOf(j) /\ claims'[j] = claims[j]
         \/ PhaseOf(j) = "new" /\ PhaseOf(j)' = "waiting" /\ claims'[j] = claims[j]
         \/ /\ PhaseOf(j) = "waiting" /\ PhaseOf(j)' = "running"
            /\ claims[j] <= MaxRetries /\ claims'[j] = claims[j] + 1
         \/ /\ PhaseOf(j) = "running" /\ PhaseOf(j)' = "waiting"
            /\ claims[j] <= MaxRetries /\ claims'[j] = claims[j]
         \/ /\ PhaseOf(j) \in {"waiting", "running"} /\ PhaseOf(j)' = "over"
            /\ claims'[j] = claims[j]
  PROVE  L!Move(j)
BY DEF PhaseOf, L!Move, L!Accepted, L!Started, L!PutBack, L!Ended, L!Stays

(* A job a step is not about stays, or ends by being purged.               *)
LEMMA SparedMoves ==
  ASSUME QueueInv, QueueInv', NEW k \in Job, Spared(k)
  PROVE  L!Move(k)
<1>1. place[k] \in Nat /\ place'[k] \in Nat
  BY DEF QueueInv, TypeOK
<1>2. CASE place'[k] = place[k]
  <2>1. PhaseOf(k)' = PhaseOf(k)
    BY <1>2 DEF Spared, PhaseOf, Waiting
  <2> QED
    BY <2>1, MoveFacts DEF Spared
<1>3. CASE place'[k] # place[k]
  <2>1. place[k] > 0 /\ place'[k] = 0
    BY <1>1, <1>3 DEF Spared
  <2>2. status[k] = "queued" /\ status'[k] = "queued"
    BY <2>1 DEF QueueInv, JobInv, PlacesInv, Spared
  <2>3. PhaseOf(k) = "waiting" /\ PhaseOf(k)' = "over"
    BY <2>1, <2>2 DEF PhaseOf, Waiting, QueueInv, JobInv, PlacesInv
  <2> QED
    BY <2>3, MoveFacts DEF Spared
<1> QED
  BY <1>2, <1>3

LEMMA LifecycleStep ==
  ASSUME QueueInv, QueueInv', [Next]_vars, NEW k \in Job
  PROVE  L!Move(k)
<1> USE MoveFacts
<1>0. claims[k] \in Nat /\ retries[k] \in 0 .. MaxRetries /\ MaxRetries \in Nat
  BY QueueAssumption DEF QueueInv, TypeOK
<1>1. ASSUME NEW j \in Job, Submit(j) PROVE L!Move(k)
  <2>1. CASE k = j
    <3>1. status[k] = "new" /\ place'[k] > 0 /\ claims' = claims
      BY <1>1, <2>1, LastPlaceFacts DEF Submit, QueueInv, TypeOK
    <3>2. PhaseOf(k) = "new" /\ PhaseOf(k)' = "waiting"
      BY <3>1 DEF PhaseOf, Waiting, QueueInv, JobInv, PlacesInv
    <3> QED
      BY <3>1, <3>2
  <2> QED
    BY <1>1, <2>1, SubmitKeeps, SparedMoves
<1>2. ASSUME NEW j \in Job, Cancel(j) PROVE L!Move(k)
  <2>1. CASE k = j
    <3>1. /\ status'[k] = "cancelled" /\ place'[k] = 0 /\ claims' = claims
          /\ status[k] \in {"queued", "processing", "completed"}
      BY <1>2, <2>1 DEF Cancel, Waiting, QueueInv, TypeOK, JobInv, PlacesInv
    <3>2. PhaseOf(k)' = "over" /\ PhaseOf(k) \in {"waiting", "running", "over"}
      BY <3>1 DEF PhaseOf, Waiting, QueueInv, JobInv, PlacesInv
    <3> QED
      BY <3>1, <3>2
  <2> QED
    BY <1>2, <2>1, CancelKeeps, SparedMoves
<1>3. ASSUME NEW j \in Job, TtlEnds(j) PROVE L!Move(k)
  <2>1. PhaseOf(k)' = PhaseOf(k) /\ claims' = claims
    BY <1>3 DEF TtlEnds, PhaseOf, Waiting
  <2> QED
    BY <2>1
<1>4. ASSUME NEW w \in Worker, Take(w) PROVE L!Move(k)
  <2>1. PICK j \in Heads : /\ place'[j] = 0 /\ status'[j] = "processing"
                           /\ claims'[j] = claims[j] + 1
                           /\ \A i \in Job : i # j => Spared(i)
    BY <1>4, TakeKeeps
  <2>2. CASE k = j
    <3>1. place[k] > 0 /\ status[k] = "queued" /\ claims[k] <= retries[k]
      BY <2>2 DEF Heads, Live, Waiting, QueueInv, JobInv, PlacesInv, ClaimsInv
    <3>2. PhaseOf(k) = "waiting" /\ PhaseOf(k)' = "running"
      BY <2>1, <2>2, <3>1 DEF PhaseOf, Waiting, QueueInv, JobInv, PlacesInv
    <3> QED
      BY <1>0, <2>1, <2>2, <3>1, <3>2
  <2> QED
    BY <2>1, <2>2, SparedMoves
<1>5. ASSUME NEW w \in Worker, NEW j \in Job, Retry(w, j) PROVE L!Move(k)
  <2>1. CASE k = j
    <3>1. /\ status[k] = "processing" /\ status'[k] = "queued" /\ place'[k] > 0
          /\ claims' = claims /\ retries[k] < MaxRetries
      BY <1>5, <2>1, LastPlaceFacts DEF Retry, LetGo, QueueInv, TypeOK, JobInv, PlacesInv
    <3>2. PhaseOf(k) = "running" /\ PhaseOf(k)' = "waiting" /\ claims[k] <= MaxRetries
      BY <1>0, <3>1 DEF PhaseOf, Waiting, QueueInv, JobInv, PlacesInv, ClaimsInv
    <3> QED
      BY <3>1, <3>2
  <2> QED
    BY <1>5, <2>1, RetryKeeps, SparedMoves
<1>6. ASSUME NEW w \in Worker, NEW j \in Job, Complete(w, j) \/ GiveUp(w, j) PROVE L!Move(k)
  <2>1. CASE k = j
    <3>1. /\ status[k] = "processing" /\ status'[k] \in {"completed", "dead_letter"}
          /\ claims' = claims
      BY <1>6, <2>1 DEF Complete, GiveUp, LetGo, QueueInv, TypeOK, JobInv, PlacesInv
    <3>2. PhaseOf(k) = "running" /\ PhaseOf(k)' = "over"
      BY <3>1 DEF PhaseOf, Waiting, QueueInv, JobInv, PlacesInv
    <3> QED
      BY <3>1, <3>2
  <2> QED
    BY <1>6, <2>1, CompleteKeeps, GiveUpKeeps, SparedMoves
<1>7. ASSUME NEW w \in Worker, TakeNothing(w) \/ \E j \in Job : EndUnclaimed(w, j)
      PROVE  L!Move(k)
  BY <1>7, TakeNothingKeeps, EndUnclaimedKeeps, SparedMoves
<1>8. CASE UNCHANGED vars
  <2>1. PhaseOf(k)' = PhaseOf(k) /\ claims' = claims
    BY <1>8 DEF vars, jobVars, PhaseOf, Waiting
  <2> QED
    BY <2>1
<1> QED
  BY <1>1, <1>2, <1>3, <1>4, <1>5, <1>6, <1>7, <1>8 DEF Next, WorkerStep

(* The queue implements the lifecycle its clients rely on: no job is       *)
(* started twice on one attempt, beyond its budget, or after its end.      *)
THEOREM MemoryQueueKeepsLifecycle == Spec => LifecycleKept
<1>1. Init => L!Init
  BY DEF Init, L!Init
<1>2. QueueInv /\ QueueInv' /\ [Next]_vars => [L!Next]_(L!jobVars)
  <2> SUFFICES ASSUME QueueInv, QueueInv', [Next]_vars PROVE L!Next
    OBVIOUS
  <2>1. \A j \in Job : L!Move(j)
    BY LifecycleStep
  <2>2. \A j \in Job : PhaseOf(j)' \in L!Phase
    BY DEF PhaseOf, L!Phase
  <2>3. claims' \in [Job -> Nat]
    BY DEF QueueInv, TypeOK
  <2> QED
    BY <2>1, <2>2, <2>3 DEF L!Next, PhaseOf
<1> QED
  BY <1>1, <1>2, MemoryQueueInvariant, PTL DEF Spec, LifecycleKept, L!Spec
=============================================================================
