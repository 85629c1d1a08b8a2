--------------------------- MODULE RedisQueueProofs ---------------------------
(***************************************************************************)
(* What holds of the Redis queue for any number of worker processes, jobs, *)
(* retries and deaths, although no method of it is a transaction.          *)
(***************************************************************************)
EXTENDS RedisQueue, TLAPS

(* A job is buried with its retries spent, or refused by a full queue.     *)
BuryInv ==
  \A p \in Proc : pc[p] \in {"bury failed", "bury stalled"} =>
                    copy[p] >= MaxRetries \/ job[p] \in refused

(* A job that was never submitted is known to nobody but the submitter.    *)
Unknown(j) == status[j] = "none" /\ ~ttlOver[j]

NewInv ==
  /\ \A j \in Job : Unknown(j) =>
       /\ j \notin queue \cup claimed
       /\ \A p \in Proc : /\ j \notin stalled[p]
                          /\ job[p] = j => pc[p] \in {"submit", "submit store"}
  /\ \A p \in Proc : pc[p] \in {"submit", "submit store"} => Unknown(job[p])

(* Only jobs whose claim was overdue are reclaimed, and of any other job   *)
(* there is one token: its place in the queue, or the process at one of    *)
(* these points.                                                           *)
Reclaiming == {"reclaimed", "reclaim", "reclaim store", "reclaim push", "bury stalled"}

Owning == {"submit", "submit store", "submit push", "requeue", "requeue store",
           "requeue push", "mark", "claim", "run", "failing"}

Owns(p, j) == job[p] = j /\ pc[p] \in Owning

LapseInv ==
  /\ overdue \subseteq lapsed
  /\ \A p \in Proc : /\ stalled[p] \subseteq lapsed
                     /\ pc[p] \in Reclaiming => job[p] \in lapsed

TokenInv ==
  \A j \in Job \ lapsed :
    /\ \A p, q \in Proc : Owns(p, j) /\ Owns(q, j) => p = q
    /\ j \in queue => \A p \in Proc : ~Owns(p, j)

(* A job that is marked as processed is claimed, or a process will still   *)
(* write its record: that it waits as well is not enough.                  *)
Deciding(p, j) == Moving(p, j) /\ pc[p] \notin Pushing

Attended(j) == j \in claimed \/ \E p \in Proc : Deciding(p, j)

AttendedInv == \A j \in Unfinished \ Lost : status[j] = "processing" => Attended(j)


RecordsTyped ==
  /\ status \in [Job -> Status] /\ ttlOver \in [Job -> BOOLEAN]
  /\ retries \in [Job -> 0 .. MaxRetries]
  /\ queue \subseteq Job /\ claimed \subseteq Job /\ overdue \subseteq claimed
  /\ stalled \in [Proc -> SUBSET Job]
  /\ orphaned \subseteq Job /\ dropped \subseteq Job /\ refused \subseteq Job
  /\ lapsed \subseteq Job /\ crashes \in 0 .. MaxCrashes

(* What may be said of the place of one process.                           *)
Permitted(p, l, j, n) ==
  /\ l \in ClientPoint \cup WorkerPoint
  /\ p = Client => l \in ClientPoint
  /\ p # Client => l \in WorkerPoint
  /\ j \in {0} \cup Job /\ n \in 0 .. MaxRetries
  /\ j \in Job \/ l \in {"idle", "reclaiming"}

PlacesTyped ==
  /\ pc \in [Proc -> ClientPoint \cup WorkerPoint]
  /\ job \in [Proc -> {0} \cup Job] /\ copy \in [Proc -> 0 .. MaxRetries]
  /\ \A p \in Proc : Permitted(p, pc[p], job[p], copy[p])

RedisInv ==
  /\ TypeOK /\ BuryInv /\ GivenUpForCause /\ NewInv
  /\ LapseInv /\ TokenInv /\ AttendedInv /\ LostForCause

-----------------------------------------------------------------------------
(* Facts about the constants, the places of processes and the records.     *)
LEMMA ConstantFacts ==
  /\ Client \in Proc /\ Worker \subseteq Proc /\ Client \notin Worker
  /\ \A p \in Proc : p # Client => p \in Worker
  /\ 0 \notin Job
  /\ 0 \in 0 .. MaxRetries
  /\ \A n \in 0 .. MaxRetries : /\ n < MaxRetries => n + 1 \in 0 .. MaxRetries
                                /\ ~(n < MaxRetries) => n >= MaxRetries
                                /\ ~(n >= MaxRetries) => n < MaxRetries
  /\ \A n \in 0 .. MaxCrashes : n < MaxCrashes => n + 1 \in 0 .. MaxCrashes
BY QueueAssumption DEF Proc, Job

LEMMA TypeParts == TypeOK <=> RecordsTyped /\ PlacesTyped
BY ConstantFacts DEF TypeOK, RecordsTyped, PlacesTyped, Permitted

LEMMA TypePartsNext == TypeOK' <=> RecordsTyped' /\ PlacesTyped'
BY ConstantFacts DEF TypeOK, RecordsTyped, PlacesTyped, Permitted

LEMMA EntryFacts ==
  ASSUME NEW p \in Proc
  PROVE  /\ pc[p] \in {"submit", "submit store", "submit push"} => Entry(p) = "submit"
         /\ pc[p] \in {"requeue", "requeue store", "requeue push"} => Entry(p) = "requeue"
         /\ pc[p] \in {"reclaim", "reclaim store", "reclaim push"} => Entry(p) = "reclaim"
BY Zenon DEF Entry

(* No process but p moves.                                                 *)
Others(p) ==
  \A q \in Proc : q # p => pc'[q] = pc[q] /\ job'[q] = job[q] /\ copy'[q] = copy[q]

Reached(p, l, j, n) ==
  pc'[p] = l /\ job'[p] = j /\ copy'[p] = n /\ Others(p) /\ PlacesTyped'

LEMMA TakeFacts ==
  ASSUME PlacesTyped, NEW p \in Proc, NEW l, NEW j, NEW n, Permitted(p, l, j, n),
         Take(p, l, j, n)
  PROVE  Reached(p, l, j, n)
BY DEF PlacesTyped, Permitted, Take, Goto, Reached, Others

LEMMA GotoFacts ==
  ASSUME PlacesTyped, NEW p \in Proc, NEW l, Permitted(p, l, job[p], copy[p]),
         Goto(p, l), job' = job, copy' = copy
  PROVE  Reached(p, l, job[p], copy[p])
BY DEF PlacesTyped, Permitted, Goto, Reached, Others

LEMMA StayFacts ==
  ASSUME PlacesTyped, NEW p \in Proc, pc' = pc, job' = job, copy' = copy
  PROVE  Reached(p, pc[p], job[p], copy[p])
BY DEF PlacesTyped, Permitted, Reached, Others

(* The record of job j is written, no other one.                           *)
Written(j, st, n) ==
  /\ status'[j] = st /\ retries'[j] = n
  /\ \A k \in Job : k # j => status'[k] = status[k] /\ retries'[k] = retries[k]
  /\ status' \in [Job -> Status] /\ retries' \in [Job -> 0 .. MaxRetries]

LEMMA WriteFacts ==
  ASSUME RecordsTyped, NEW j \in Job, NEW st \in Status, NEW n \in 0 .. MaxRetries,
         Write(j, st, n)
  PROVE  Written(j, st, n)
BY DEF RecordsTyped, Write, Written

-----------------------------------------------------------------------------
(* What a step of one process p must do to keep each part of the           *)
(* invariant, for the jobs it touches.                                     *)
KeepsNew(p) ==
  \A j \in Job :
    /\ Unknown(j)' => Unknown(j)
    /\ Unknown(j) => Unknown(j)' \/ (p = Client /\ pc[p] = "submit store")
    /\ Unknown(j)' /\ j \in queue' \cup claimed' => j \in queue \cup claimed
    /\ \A q \in Proc : Unknown(j)' /\ j \in stalled'[q] => j \in stalled[q] \cup claimed
    /\ Unknown(j)' /\ job'[p] = j => pc'[p] \in {"submit", "submit store"}
    /\ pc'[p] \in {"submit", "submit store"} /\ job'[p] = j => Unknown(j)'

LEMMA NewStep ==
  ASSUME TypeOK, TypeOK', NewInv, NEW p \in Proc, Others(p), KeepsNew(p)
  PROVE  NewInv'
<1>1. ASSUME NEW j \in Job, Unknown(j)'
      PROVE  /\ j \notin (queue \cup claimed)'
             /\ \A q \in Proc : /\ j \notin stalled'[q]
                                /\ job'[q] = j => pc'[q] \in {"submit", "submit store"}
  <2>1. Unknown(j) /\ j \notin queue \cup claimed
    BY <1>1 DEF KeepsNew, NewInv
  <2>2. ASSUME NEW q \in Proc, job'[q] = j
        PROVE  pc'[q] \in {"submit", "submit store"}
    BY <1>1, <2>1, <2>2 DEF KeepsNew, NewInv, Others
  <2> QED
    BY <1>1, <2>1, <2>2 DEF KeepsNew, NewInv
<1>2. ASSUME NEW q \in Proc, pc'[q] \in {"submit", "submit store"}
      PROVE  Unknown(job[q])'
  <2>1. job'[q] \in Job
    BY <1>2 DEF TypeOK
  <2>2. CASE q = p
    BY <1>2, <2>1, <2>2 DEF KeepsNew, Unknown
  <2>3. CASE q # p
    <3>1. q = Client
      BY <1>2, ConstantFacts DEF TypeOK, WorkerPoint
    <3>2. pc[q] \in {"submit", "submit store"} /\ job[q] = job'[q]
      BY <1>2, <2>3 DEF Others
    <3> QED
      BY <2>1, <2>3, <3>1, <3>2 DEF NewInv, KeepsNew, Unknown
  <2> QED
    BY <2>2, <2>3
<1> QED
  BY <1>1, <1>2 DEF NewInv, Unknown

(* What the submitter alone knows cannot be at any other process.          *)
Known(p) ==
  /\ \A k \in Job : k \in queue \cup claimed \cup stalled[p] => ~Unknown(k)
  /\ job[p] \in Job => (pc[p] \in {"submit", "submit store"} <=> Unknown(job[p]))
  /\ pc[p] \in Reclaiming => job[p] \in lapsed
  /\ overdue \subseteq lapsed

LEMMA KnownFacts ==
  ASSUME NewInv, LapseInv, NEW p \in Proc
  PROVE  Known(p)
BY DEF NewInv, LapseInv, Known

KeepsToken(p) ==
  /\ lapsed \subseteq lapsed'
  /\ \A j \in Job \ lapsed' :
       /\ j \in queue' => j \in queue \/ (Owns(p, j) /\ ~Owns(p, j)')
       /\ Owns(p, j)' => \/ Owns(p, j) /\ (j \in queue' => j \in queue)
                         \/ j \in queue /\ j \notin queue'
                         \/ j \notin queue' /\ \A q \in Proc : ~Owns(q, j)

LEMMA TokenStep ==
  ASSUME TypeOK, TypeOK', TokenInv, NEW p \in Proc, Others(p), KeepsToken(p)
  PROVE  TokenInv'
<1> SUFFICES ASSUME NEW j \in Job, j \notin lapsed'
             PROVE  /\ \A q \in Proc : Owns(p, j)' /\ Owns(q, j)' => p = q
                    /\ \A q, r \in Proc : q # p /\ r # p /\ Owns(q, j)' /\ Owns(r, j)' => q = r
                    /\ j \in queue' => \A q \in Proc : ~Owns(q, j)'
  BY DEF TokenInv
<1>1. \A q \in Proc : q # p => (Owns(q, j)' <=> Owns(q, j))
  BY DEF Others, Owns
<1>2. j \notin lapsed
  BY DEF KeepsToken
<1> QED
  BY <1>1, <1>2 DEF TokenInv, KeepsToken

KeepsAttended(p) ==
  \A j \in Job : j \in Unfinished' \ Lost' /\ status'[j] = "processing" =>
    \/ Deciding(p, j)'
    \/ /\ j \in Unfinished \ Lost /\ status[j] = "processing"
       /\ j \in claimed => j \in claimed'
       /\ Deciding(p, j) => j \in claimed'

LEMMA AttendedStep ==
  ASSUME TypeOK, TypeOK', AttendedInv, NEW p \in Proc, Others(p), KeepsAttended(p)
  PROVE  AttendedInv'
<1> SUFFICES ASSUME NEW j \in Job, j \in Unfinished' \ Lost', status'[j] = "processing"
             PROVE  j \in claimed' \/ \E q \in Proc : Deciding(q, j)'
  BY DEF AttendedInv, Attended, Unfinished
<1>1. CASE Deciding(p, j)'
  BY <1>1
<1>2. CASE ~Deciding(p, j)'
  <2>1. Attended(j)
    BY <1>2 DEF KeepsAttended, AttendedInv
  <2>2. CASE j \in claimed
    BY <1>2, <2>2 DEF KeepsAttended
  <2>3. CASE j \notin claimed
    <3>1. PICK q \in Proc : Deciding(q, j)
      BY <2>1, <2>3 DEF Attended
    <3>2. CASE q = p
      BY <1>2, <3>1, <3>2 DEF KeepsAttended
    <3>3. CASE q # p
      BY <3>1, <3>3 DEF Others, Deciding, Moving
    <3> QED
      BY <3>2, <3>3
  <2> QED
    BY <2>2, <2>3
<1> QED
  BY <1>1, <1>2

KeepsFound(p) ==
  \A j \in Job : j \in Unfinished' \ Lost' /\ status'[j] = "queued" =>
    \/ Moving(p, j)'
    \/ j \in queue' \cup claimed'
    \/ /\ j \in Unfinished \ Lost /\ ~Moving(p, j)
       /\ j \notin queue \cup claimed

LEMMA FoundStep ==
  ASSUME TypeOK, TypeOK', LostForCause, AttendedInv', NEW p \in Proc, Others(p), KeepsFound(p)
  PROVE  LostForCause'
<1> SUFFICES ASSUME NEW j \in Job, j \in Unfinished' \ Lost'
             PROVE  j \in queue' \cup claimed' \/ \E q \in Proc : Moving(q, j)'
  BY DEF LostForCause, Reachable, Unfinished
<1>1. CASE status'[j] = "processing"
  BY <1>1 DEF AttendedInv, Attended, Deciding
<1>2. CASE status'[j] = "queued"
  <2>1. CASE Moving(p, j)' \/ j \in queue' \cup claimed'
    BY <2>1
  <2>2. CASE ~(Moving(p, j)' \/ j \in queue' \cup claimed')
    <3>1. Reachable(j) /\ ~Moving(p, j) /\ j \notin queue \cup claimed
      BY <1>2, <2>2 DEF KeepsFound, LostForCause
    <3>2. PICK q \in Proc : Moving(q, j)
      BY <3>1 DEF Reachable
    <3>3. q # p
      BY <3>1, <3>2
    <3> QED
      BY <3>2, <3>3 DEF Others, Moving
  <2> QED
    BY <2>1, <2>2
<1> QED
  BY <1>1, <1>2 DEF Unfinished

(* The parts together: what is left to show of each step.                  *)
LEMMA StepKeeps ==
  ASSUME RedisInv, TypeOK', BuryInv', GivenUpForCause', LapseInv', NEW p \in Proc, Others(p),
         KeepsNew(p), KeepsToken(p), KeepsAttended(p), KeepsFound(p)
  PROVE  RedisInv'
<1>1. TypeOK /\ NewInv /\ TokenInv /\ AttendedInv /\ LostForCause
  BY DEF RedisInv
<1>2. NewInv'
  BY <1>1, NewStep
<1>3. TokenInv'
  BY <1>1, TokenStep
<1>4. AttendedInv'
  BY <1>1, AttendedStep
<1>5. LostForCause'
  BY <1>1, <1>4, FoundStep
<1> QED
  BY <1>2, <1>3, <1>4, <1>5 DEF RedisInv


(* A new job enters: nobody else knows it yet.                             *)
LEMMA SubmitKeeps ==
  ASSUME RedisInv, NEW j \in Job, Submit(j)
  PROVE  RedisInv'
<1>1. RecordsTyped /\ PlacesTyped /\ Client \in Proc
  BY TypeParts, ConstantFacts DEF RedisInv
<1>2. Known(Client)
  BY <1>1, KnownFacts DEF RedisInv
<1>3. pc[Client] = "idle" /\ Reached(Client, "submit", j, 0)
  <2>1. /\ pc[Client] = "idle" => Permitted(Client, "submit", j, 0)
    BY <1>1, <1>2, ConstantFacts
       DEF PlacesTyped, RecordsTyped, Permitted, ClientPoint, WorkerPoint, Unknown, Submit
  <2>2. pc[Client] = "idle" /\ Take(Client, "submit", j, 0)
    BY ConstantFacts, <1>1, <1>2
       DEF Submit, LetGo, Entering, Storing, Pushing, procVars, RecordsTyped, PlacesTyped,
           Permitted
  <2> QED
    BY <1>1, <2>1, <2>2, TakeFacts
<1>4. /\ Unknown(j) /\ j \notin queue
      /\ UNCHANGED <<redisVars, stalled, history>>
  BY <1>1, <1>3, ConstantFacts
     DEF Submit, LapseInv, RedisInv, RecordsTyped, PlacesTyped, Permitted, Status, Unknown,
         Safe, Entering, Storing, procVars, Unclaim, recordVars, redisVars,
         history, losses, Lost
<1>5. TypeOK'
  <2>1. RecordsTyped'
    BY <1>1, <1>2, <1>3, <1>4, ConstantFacts
       DEF RecordsTyped, PlacesTyped, Permitted, Reached, Written, Unclaim, recordVars,
           redisVars, history, losses, Lost
  <2> QED
    BY <2>1, <1>3, TypePartsNext DEF Reached
<1>6. BuryInv' /\ GivenUpForCause' /\ LapseInv'
  BY <1>1, <1>3, <1>4
     DEF RedisInv, RecordsTyped, PlacesTyped, Permitted, BuryInv, GivenUpForCause, LapseInv,
         Reclaiming, Reached, Others, Written, Unclaim, recordVars, redisVars, history, losses, Lost
<1>7. KeepsNew(Client)
  BY <1>1, <1>2, <1>3, <1>4, ConstantFacts
     DEF RecordsTyped, PlacesTyped, Permitted, KeepsNew, Known, Unknown, Reached, Written,
         Unclaim, recordVars, redisVars, history, losses, Lost
<1>8. \A q \in Proc : ~Owns(q, j)
  BY <1>1, <1>3, <1>4, ConstantFacts
     DEF RedisInv, NewInv, PlacesTyped, Permitted, WorkerPoint, Owns
<1>9. KeepsToken(Client)
  BY <1>1, <1>8, <1>2, <1>3, <1>4, ConstantFacts
     DEF RecordsTyped, PlacesTyped, Permitted, KeepsToken, Known, Owns, Owning, Reclaiming,
         Reached, Unclaim, recordVars, redisVars, history, losses, Lost
<1>10. KeepsAttended(Client) /\ KeepsFound(Client)
  BY <1>1, <1>2, <1>3, <1>4, ConstantFacts
     DEF RecordsTyped, PlacesTyped, Permitted, KeepsAttended, KeepsFound, Deciding, Moving,
         Safe, Pushing, Unfinished, Reached, Written, Known, Unknown, Over, Unclaim,
         recordVars, redisVars, history, losses, Lost
<1> QED
  BY <1>1, <1>3, <1>5, <1>6, <1>7, <1>9, <1>10, StepKeeps DEF Reached

(* The queue has room.                                                     *)
LEMMA CountKeeps ==
  ASSUME RedisInv, NEW p \in Proc, Count(p)
  PROVE  RedisInv'
<1>1. RecordsTyped /\ PlacesTyped /\ p \in Proc
  BY TypeParts, ConstantFacts DEF RedisInv
<1>2. Known(p)
  BY <1>1, KnownFacts DEF RedisInv
<1>3. \/ pc[p] = "submit" /\ Reached(p, "submit store", job[p], copy[p])
      \/ pc[p] = "requeue" /\ Reached(p, "requeue store", job[p], copy[p])
      \/ pc[p] = "reclaim" /\ Reached(p, "reclaim store", job[p], copy[p])
  <2>1. /\ pc[p] = "submit" => Permitted(p, "submit store", job[p], copy[p])
        /\ pc[p] = "requeue" => Permitted(p, "requeue store", job[p], copy[p])
        /\ pc[p] = "reclaim" => Permitted(p, "reclaim store", job[p], copy[p])
    BY <1>1, <1>2, ConstantFacts
       DEF PlacesTyped, RecordsTyped, Permitted, ClientPoint, WorkerPoint, Unknown
  <2>2. \/ pc[p] = "submit" /\ Goto(p, "submit store") /\ UNCHANGED job /\ UNCHANGED copy
        \/ pc[p] = "requeue" /\ Goto(p, "requeue store") /\ UNCHANGED job /\ UNCHANGED copy
        \/ pc[p] = "reclaim" /\ Goto(p, "reclaim store") /\ UNCHANGED job /\ UNCHANGED copy
    BY ConstantFacts, <1>1, <1>2, EntryFacts
       DEF Count, LetGo, Goto, Entering, Storing, Pushing, procVars, RecordsTyped,
           PlacesTyped, Permitted
  <2> QED
    BY <1>1, <2>1, <2>2, GotoFacts
<1>4. /\ (pc[p] = "requeue" /\ Unclaim(job[p])) \/ UNCHANGED <<claimed, overdue>>
      /\ UNCHANGED <<recordVars, queue, stalled, history>>
  BY <1>1, <1>3, ConstantFacts, EntryFacts
     DEF Count, LapseInv, RedisInv, RecordsTyped, PlacesTyped, Permitted, Status, Unknown,
         Safe, Entering, Storing, procVars, Unclaim, recordVars, redisVars,
         history, losses, Lost
<1>5. TypeOK'
  <2>1. RecordsTyped'
    BY <1>1, <1>2, <1>3, <1>4, ConstantFacts
       DEF RecordsTyped, PlacesTyped, Permitted, Reached, Written, Unclaim, recordVars,
           redisVars, history, losses, Lost
  <2> QED
    BY <2>1, <1>3, TypePartsNext DEF Reached
<1>6. BuryInv' /\ GivenUpForCause' /\ LapseInv'
  BY <1>1, <1>3, <1>4
     DEF RedisInv, RecordsTyped, PlacesTyped, Permitted, BuryInv, GivenUpForCause, LapseInv,
         Reclaiming, Reached, Others, Written, Unclaim, recordVars, redisVars, history, losses, Lost
<1>7. KeepsNew(p)
  BY <1>1, <1>2, <1>3, <1>4, ConstantFacts
     DEF RecordsTyped, PlacesTyped, Permitted, KeepsNew, Known, Unknown, Reached, Written,
         Unclaim, recordVars, redisVars, history, losses, Lost
<1>8. KeepsToken(p)
  BY <1>1, <1>2, <1>3, <1>4, ConstantFacts
     DEF RecordsTyped, PlacesTyped, Permitted, KeepsToken, Known, Owns, Owning, Reclaiming,
         Reached, Unclaim, recordVars, redisVars, history, losses, Lost
<1>9. KeepsAttended(p) /\ KeepsFound(p)
  BY <1>1, <1>2, <1>3, <1>4, ConstantFacts
     DEF RecordsTyped, PlacesTyped, Permitted, KeepsAttended, KeepsFound, Deciding, Moving,
         Safe, Pushing, Unfinished, Reached, Written, Known, Unknown, Over, Unclaim,
         recordVars, redisVars, history, losses, Lost
<1> QED
  BY <1>1, <1>3, <1>5, <1>6, <1>7, <1>8, <1>9, StepKeeps DEF Reached

(* The queue is full.                                                      *)
LEMMA RefuseKeeps ==
  ASSUME RedisInv, NEW p \in Proc, Refuse(p)
  PROVE  RedisInv'
<1>1. RecordsTyped /\ PlacesTyped /\ p \in Proc
  BY TypeParts, ConstantFacts DEF RedisInv
<1>2. Known(p)
  BY <1>1, KnownFacts DEF RedisInv
<1>3. \/ /\ pc[p] = "submit" /\ Reached(p, "idle", 0, 0)
         /\ UNCHANGED <<claimed, overdue, dropped, refused>>
      \/ /\ pc[p] = "requeue" /\ Reached(p, "bury failed", job[p], copy[p])
         /\ Unclaim(job[p]) /\ refused' = refused \cup {job[p]} /\ UNCHANGED dropped
      \/ /\ pc[p] = "reclaim" /\ Reached(p, "reclaiming", 0, 0)
         /\ UNCHANGED <<claimed, overdue, refused>> /\ dropped' = dropped \cup {job[p]}
  <2>1. /\ pc[p] = "submit" => Permitted(p, "idle", 0, 0)
        /\ pc[p] = "requeue" => Permitted(p, "bury failed", job[p], copy[p])
        /\ pc[p] = "reclaim" => Permitted(p, "reclaiming", 0, 0)
    BY <1>1, <1>2, ConstantFacts
       DEF PlacesTyped, RecordsTyped, Permitted, ClientPoint, WorkerPoint, Unknown
  <2>2. \/ /\ pc[p] = "submit" /\ Take(p, "idle", 0, 0)
           /\ UNCHANGED <<claimed, overdue, dropped, refused>>
        \/ /\ pc[p] = "requeue" /\ Goto(p, "bury failed") /\ UNCHANGED job /\ UNCHANGED copy
           /\ Unclaim(job[p]) /\ refused' = refused \cup {job[p]} /\ UNCHANGED dropped
        \/ /\ pc[p] = "reclaim" /\ Take(p, "reclaiming", 0, 0)
           /\ UNCHANGED <<claimed, overdue, refused>> /\ dropped' = dropped \cup {job[p]}
    BY ConstantFacts, <1>1, <1>2, EntryFacts
       DEF Refuse, LetGo, Entering, Storing, Pushing, procVars, RecordsTyped, PlacesTyped,
           Permitted
  <2> QED
    BY <1>1, <2>1, <2>2, TakeFacts, GotoFacts
<1>4. /\ UNCHANGED <<recordVars, queue, stalled, orphaned, lapsed, crashes>>
  BY <1>1, <1>3, ConstantFacts, EntryFacts
     DEF Refuse, LapseInv, RedisInv, RecordsTyped, PlacesTyped, Permitted, Status, Unknown,
         Safe, Entering, Storing, procVars, Unclaim, recordVars, redisVars,
         history, losses, Lost
<1>5. TypeOK'
  <2>1. RecordsTyped'
    BY <1>1, <1>2, <1>3, <1>4, ConstantFacts
       DEF RecordsTyped, PlacesTyped, Permitted, Reached, Written, Unclaim, recordVars,
           redisVars, history, losses, Lost
  <2> QED
    BY <2>1, <1>3, TypePartsNext DEF Reached
<1>6. BuryInv' /\ GivenUpForCause' /\ LapseInv'
  BY <1>1, <1>3, <1>4
     DEF RedisInv, RecordsTyped, PlacesTyped, Permitted, BuryInv, GivenUpForCause, LapseInv,
         Reclaiming, Reached, Others, Written, Unclaim, recordVars, redisVars, history, losses, Lost
<1>7. KeepsNew(p)
  BY <1>1, <1>2, <1>3, <1>4, ConstantFacts
     DEF RecordsTyped, PlacesTyped, Permitted, KeepsNew, Known, Unknown, Reached, Written,
         Unclaim, recordVars, redisVars, history, losses, Lost
<1>8. KeepsToken(p)
  BY <1>1, <1>2, <1>3, <1>4, ConstantFacts
     DEF RecordsTyped, PlacesTyped, Permitted, KeepsToken, Known, Owns, Owning, Reclaiming,
         Reached, Unclaim, recordVars, redisVars, history, losses, Lost
<1>9. KeepsAttended(p) /\ KeepsFound(p)
  BY <1>1, <1>2, <1>3, <1>4, ConstantFacts
     DEF RecordsTyped, PlacesTyped, Permitted, KeepsAttended, KeepsFound, Deciding, Moving,
         Safe, Pushing, Unfinished, Reached, Written, Known, Unknown, Over, Unclaim,
         recordVars, redisVars, history, losses, Lost
<1> QED
  BY <1>1, <1>3, <1>5, <1>6, <1>7, <1>8, <1>9, StepKeeps DEF Reached

(* The record, from the copy of the process.                               *)
LEMMA StoreKeeps ==
  ASSUME RedisInv, NEW p \in Proc, Store(p)
  PROVE  RedisInv'
<1>1. RecordsTyped /\ PlacesTyped /\ p \in Proc
  BY TypeParts, ConstantFacts DEF RedisInv
<1>2. Known(p)
  BY <1>1, KnownFacts DEF RedisInv
<1>3. \/ pc[p] = "submit store" /\ Reached(p, "submit push", job[p], copy[p])
      \/ pc[p] = "requeue store" /\ Reached(p, "requeue push", job[p], copy[p])
      \/ pc[p] = "reclaim store" /\ Reached(p, "reclaim push", job[p], copy[p])
  <2>1. /\ pc[p] = "submit store" => Permitted(p, "submit push", job[p], copy[p])
        /\ pc[p] = "requeue store" => Permitted(p, "requeue push", job[p], copy[p])
        /\ pc[p] = "reclaim store" => Permitted(p, "reclaim push", job[p], copy[p])
    BY <1>1, <1>2, ConstantFacts
       DEF PlacesTyped, RecordsTyped, Permitted, ClientPoint, WorkerPoint, Unknown
  <2>2. \/ pc[p] = "submit store" /\ Goto(p, "submit push") /\ UNCHANGED job /\ UNCHANGED copy
        \/ pc[p] = "requeue store" /\ Goto(p, "requeue push") /\ UNCHANGED job /\ UNCHANGED copy
        \/ pc[p] = "reclaim store" /\ Goto(p, "reclaim push") /\ UNCHANGED job /\ UNCHANGED copy
    BY ConstantFacts, <1>1, <1>2, EntryFacts
       DEF Store, LetGo, Goto, Entering, Storing, Pushing, procVars, RecordsTyped,
           PlacesTyped, Permitted
  <2> QED
    BY <1>1, <2>1, <2>2, GotoFacts
<1>4. Written(job[p], "queued", copy[p])
  <2>1. job[p] \in Job /\ copy[p] \in 0 .. MaxRetries
    BY <1>1 DEF Store, PlacesTyped, Permitted, Storing
  <2> QED
    BY <1>1, <2>1, WriteFacts DEF Store, Status, Over
<1>5. /\ ttlOver' \in [Job -> BOOLEAN]
      /\ ~ttlOver'[job[p]] /\ \A k \in Job : k # job[p] => ttlOver'[k] = ttlOver[k]
      /\ UNCHANGED <<queue, claimed, overdue, stalled, history>>
  BY <1>1, <1>3, ConstantFacts, EntryFacts
     DEF Store, LapseInv, RedisInv, RecordsTyped, PlacesTyped, Permitted, Status, Unknown,
         Safe, Entering, Storing, procVars, Unclaim, recordVars, redisVars,
         history, losses, Lost
<1>6. TypeOK'
  <2>1. RecordsTyped'
    BY <1>1, <1>2, <1>3, <1>4, <1>5, ConstantFacts
       DEF RecordsTyped, PlacesTyped, Permitted, Reached, Written, Unclaim, recordVars,
           redisVars, history, losses, Lost
  <2> QED
    BY <2>1, <1>3, TypePartsNext DEF Reached
<1>7. BuryInv' /\ GivenUpForCause' /\ LapseInv'
  BY <1>1, <1>3, <1>4, <1>5
     DEF RedisInv, RecordsTyped, PlacesTyped, Permitted, BuryInv, GivenUpForCause, LapseInv,
         Reclaiming, Reached, Others, Written, Unclaim, recordVars, redisVars, history, losses, Lost
<1>8. KeepsNew(p)
  BY <1>1, <1>2, <1>3, <1>4, <1>5, ConstantFacts
     DEF RecordsTyped, PlacesTyped, Permitted, KeepsNew, Known, Unknown, Reached, Written,
         Unclaim, recordVars, redisVars, history, losses, Lost, WorkerPoint
<1>9. KeepsToken(p)
  BY <1>1, <1>2, <1>3, <1>5, ConstantFacts
     DEF RecordsTyped, PlacesTyped, Permitted, KeepsToken, Known, Owns, Owning, Reclaiming,
         Reached, Unclaim, recordVars, redisVars, history, losses, Lost
<1>10. KeepsAttended(p) /\ KeepsFound(p)
  BY <1>1, <1>2, <1>3, <1>4, <1>5, ConstantFacts
     DEF RecordsTyped, PlacesTyped, Permitted, KeepsAttended, KeepsFound, Deciding, Moving,
         Safe, Pushing, Unfinished, Reached, Written, Known, Unknown, Over, Unclaim,
         recordVars, redisVars, history, losses, Lost
<1> QED
  BY <1>1, <1>3, <1>6, <1>7, <1>8, <1>9, <1>10, StepKeeps DEF Reached

(* The sorted set, where workers find it.                                  *)
LEMMA PushKeeps ==
  ASSUME RedisInv, NEW p \in Proc, Push(p)
  PROVE  RedisInv'
<1>1. RecordsTyped /\ PlacesTyped /\ p \in Proc
  BY TypeParts, ConstantFacts DEF RedisInv
<1>2. Known(p)
  BY <1>1, KnownFacts DEF RedisInv
<1>3. \/ pc[p] \in {"submit push", "requeue push"} /\ Reached(p, "idle", 0, 0)
      \/ pc[p] = "reclaim push" /\ Reached(p, "reclaiming", 0, 0)
  <2>1. /\ pc[p] \in {"submit push", "requeue push"} => Permitted(p, "idle", 0, 0)
        /\ pc[p] = "reclaim push" => Permitted(p, "reclaiming", 0, 0)
    BY <1>1, <1>2, ConstantFacts
       DEF PlacesTyped, RecordsTyped, Permitted, ClientPoint, WorkerPoint, Unknown
  <2>2. \/ pc[p] \in {"submit push", "requeue push"} /\ Take(p, "idle", 0, 0)
        \/ pc[p] = "reclaim push" /\ Take(p, "reclaiming", 0, 0)
    BY ConstantFacts, <1>1, <1>2, EntryFacts
       DEF Push, LetGo, Entering, Storing, Pushing, procVars, RecordsTyped, PlacesTyped,
           Permitted
  <2> QED
    BY <1>1, <2>1, <2>2, TakeFacts
<1>4. /\ queue' = queue \cup {job[p]}
      /\ UNCHANGED <<recordVars, claimed, overdue, stalled, history>>
  BY <1>1, <1>3, ConstantFacts, EntryFacts
     DEF Push, LapseInv, RedisInv, RecordsTyped, PlacesTyped, Permitted, Status, Unknown,
         Safe, Entering, Storing, procVars, Unclaim, recordVars, redisVars,
         history, losses, Lost
<1>5. TypeOK'
  <2>1. RecordsTyped'
    BY <1>1, <1>2, <1>3, <1>4, ConstantFacts
       DEF RecordsTyped, PlacesTyped, Permitted, Reached, Written, Unclaim, recordVars,
           redisVars, history, losses, Lost
  <2> QED
    BY <2>1, <1>3, TypePartsNext DEF Reached
<1>6. BuryInv' /\ GivenUpForCause' /\ LapseInv'
  BY <1>1, <1>3, <1>4
     DEF RedisInv, RecordsTyped, PlacesTyped, Permitted, BuryInv, GivenUpForCause, LapseInv,
         Reclaiming, Reached, Others, Written, Unclaim, recordVars, redisVars, history, losses, Lost
<1>7. KeepsNew(p)
  BY <1>1, <1>2, <1>3, <1>4, ConstantFacts
     DEF RecordsTyped, PlacesTyped, Permitted, KeepsNew, Known, Unknown, Reached, Written,
         Unclaim, recordVars, redisVars, history, losses, Lost
<1>8. KeepsToken(p)
  BY <1>1, <1>2, <1>3, <1>4, ConstantFacts
     DEF RecordsTyped, PlacesTyped, Permitted, KeepsToken, Known, Owns, Owning, Reclaiming,
         Reached, Unclaim, recordVars, redisVars, history, losses, Lost
<1>9. KeepsAttended(p) /\ KeepsFound(p)
  BY <1>1, <1>2, <1>3, <1>4, ConstantFacts
     DEF RecordsTyped, PlacesTyped, Permitted, KeepsAttended, KeepsFound, Deciding, Moving,
         Safe, Pushing, Unfinished, Reached, Written, Known, Unknown, Over, Unclaim,
         recordVars, redisVars, history, losses, Lost
<1> QED
  BY <1>1, <1>3, <1>5, <1>6, <1>7, <1>8, <1>9, StepKeeps DEF Reached

(* The reclaim begins.                                                     *)
LEMMA ReadClaimsKeeps ==
  ASSUME RedisInv, NEW w \in Worker, ReadClaims(w)
  PROVE  RedisInv'
<1>1. RecordsTyped /\ PlacesTyped /\ w \in Proc
  BY TypeParts, ConstantFacts DEF RedisInv
<1>2. Known(w)
  BY <1>1, KnownFacts DEF RedisInv
<1>3. pc[w] = "idle" /\ Reached(w, "reclaiming", job[w], copy[w])
  <2>1. /\ pc[w] = "idle" => Permitted(w, "reclaiming", job[w], copy[w])
    BY <1>1, <1>2, ConstantFacts
       DEF PlacesTyped, RecordsTyped, Permitted, ClientPoint, WorkerPoint, Unknown
  <2>2. pc[w] = "idle" /\ Goto(w, "reclaiming") /\ UNCHANGED job /\ UNCHANGED copy
    BY ConstantFacts, <1>1, <1>2
       DEF ReadClaims, LetGo, Entering, Storing, Pushing, procVars, RecordsTyped, PlacesTyped,
           Permitted
  <2> QED
    BY <1>1, <2>1, <2>2, GotoFacts
<1>4. /\ stalled'[w] = overdue /\ \A q \in Proc : q # w => stalled'[q] = stalled[q]
      /\ stalled' \in [Proc -> SUBSET Job]
      /\ UNCHANGED <<redisVars, history>>
  BY <1>1, <1>3, ConstantFacts
     DEF ReadClaims, LapseInv, RedisInv, RecordsTyped, PlacesTyped, Permitted, Status,
         Unknown, Safe, Entering, Storing, procVars, Unclaim, recordVars, redisVars,
         history, losses, Lost
<1>5. TypeOK'
  <2>1. RecordsTyped'
    BY <1>1, <1>2, <1>3, <1>4, ConstantFacts
       DEF RecordsTyped, PlacesTyped, Permitted, Reached, Written, Unclaim, recordVars,
           redisVars, history, losses, Lost
  <2> QED
    BY <2>1, <1>3, TypePartsNext DEF Reached
<1>6. BuryInv' /\ GivenUpForCause' /\ LapseInv'
  BY <1>1, <1>3, <1>4
     DEF RedisInv, RecordsTyped, PlacesTyped, Permitted, BuryInv, GivenUpForCause, LapseInv,
         Reclaiming, Reached, Others, Written, Unclaim, recordVars, redisVars, history, losses, Lost
<1>7. KeepsNew(w)
  BY <1>1, <1>2, <1>3, <1>4, ConstantFacts
     DEF RecordsTyped, PlacesTyped, Permitted, KeepsNew, Known, Unknown, Reached, Written,
         Unclaim, recordVars, redisVars, history, losses, Lost
<1>8. KeepsToken(w)
  BY <1>1, <1>2, <1>3, <1>4, ConstantFacts
     DEF RecordsTyped, PlacesTyped, Permitted, KeepsToken, Known, Owns, Owning, Reclaiming,
         Reached, Unclaim, recordVars, redisVars, history, losses, Lost
<1>9. KeepsAttended(w) /\ KeepsFound(w)
  BY <1>1, <1>2, <1>3, <1>4, ConstantFacts
     DEF RecordsTyped, PlacesTyped, Permitted, KeepsAttended, KeepsFound, Deciding, Moving,
         Safe, Pushing, Unfinished, Reached, Written, Known, Unknown, Over, Unclaim,
         recordVars, redisVars, history, losses, Lost
<1> QED
  BY <1>1, <1>3, <1>5, <1>6, <1>7, <1>8, <1>9, StepKeeps DEF Reached

(* Only claims that were overdue are dropped by others.                    *)
LEMMA DropClaimKeeps ==
  ASSUME RedisInv, NEW w \in Worker, NEW j \in Job, DropClaim(w, j)
  PROVE  RedisInv'
<1>1. RecordsTyped /\ PlacesTyped /\ w \in Proc
  BY TypeParts, ConstantFacts DEF RedisInv
<1>2. Known(w)
  BY <1>1, KnownFacts DEF RedisInv
<1>3. pc[w] = "reclaiming" /\ Reached(w, "reclaimed", j, 0)
  <2>1. /\ pc[w] = "reclaiming" => Permitted(w, "reclaimed", j, 0)
    BY <1>1, <1>2, ConstantFacts
       DEF PlacesTyped, RecordsTyped, Permitted, ClientPoint, WorkerPoint, Unknown
  <2>2. pc[w] = "reclaiming" /\ Take(w, "reclaimed", j, 0)
    BY ConstantFacts, <1>1, <1>2
       DEF DropClaim, LetGo, Entering, Storing, Pushing, procVars, RecordsTyped, PlacesTyped,
           Permitted
  <2> QED
    BY <1>1, <2>1, <2>2, TakeFacts
<1>4. /\ j \in stalled[w] /\ j \in lapsed
      /\ \A q \in Proc : stalled'[q] \subseteq stalled[q]
      /\ stalled' \in [Proc -> SUBSET Job]
      /\ Unclaim(j)
      /\ UNCHANGED <<recordVars, queue, history>>
  BY <1>1, <1>3, ConstantFacts
     DEF DropClaim, LapseInv, RedisInv, RecordsTyped, PlacesTyped, Permitted, Status, Unknown,
         Safe, Entering, Storing, procVars, Unclaim, recordVars, redisVars,
         history, losses, Lost
<1>5. TypeOK'
  <2>1. RecordsTyped'
    BY <1>1, <1>2, <1>3, <1>4, ConstantFacts
       DEF RecordsTyped, PlacesTyped, Permitted, Reached, Written, Unclaim, recordVars,
           redisVars, history, losses, Lost
  <2> QED
    BY <2>1, <1>3, TypePartsNext DEF Reached
<1>6. BuryInv' /\ GivenUpForCause' /\ LapseInv'
  BY <1>1, <1>3, <1>4
     DEF RedisInv, RecordsTyped, PlacesTyped, Permitted, BuryInv, GivenUpForCause, LapseInv,
         Reclaiming, Reached, Others, Written, Unclaim, recordVars, redisVars, history, losses, Lost
<1>7. KeepsNew(w)
  BY <1>1, <1>2, <1>3, <1>4, ConstantFacts
     DEF RecordsTyped, PlacesTyped, Permitted, KeepsNew, Known, Unknown, Reached, Written,
         Unclaim, recordVars, redisVars, history, losses, Lost
<1>8. KeepsToken(w)
  BY <1>1, <1>2, <1>3, <1>4, ConstantFacts
     DEF RecordsTyped, PlacesTyped, Permitted, KeepsToken, Known, Owns, Owning, Reclaiming,
         Reached, Unclaim, recordVars, redisVars, history, losses, Lost
<1>9. KeepsAttended(w) /\ KeepsFound(w)
  BY <1>1, <1>2, <1>3, <1>4, ConstantFacts
     DEF RecordsTyped, PlacesTyped, Permitted, KeepsAttended, KeepsFound, Deciding, Moving,
         Safe, Pushing, Unfinished, Reached, Written, Known, Unknown, Over, Unclaim,
         recordVars, redisVars, history, losses, Lost
<1> QED
  BY <1>1, <1>3, <1>5, <1>6, <1>7, <1>8, <1>9, StepKeeps DEF Reached

(* The reclaimer decides.                                                  *)
LEMMA ReadStalledKeeps ==
  ASSUME RedisInv, NEW w \in Worker, ReadStalled(w)
  PROVE  RedisInv'
<1>1. RecordsTyped /\ PlacesTyped /\ w \in Proc
  BY TypeParts, ConstantFacts DEF RedisInv
<1>2. Known(w)
  BY <1>1, KnownFacts DEF RedisInv
<1>3. \/ /\ pc[w] = "reclaimed" /\ Reached(w, "reclaiming", 0, 0)
         /\ (status[job[w]] \in {"none"} \cup Over \/ ttlOver[job[w]])
      \/ /\ pc[w] = "reclaimed" /\ Reached(w, "bury stalled", job[w], retries[job[w]])
         /\ retries[job[w]] >= MaxRetries
      \/ /\ pc[w] = "reclaimed" /\ Reached(w, "reclaim", job[w], retries[job[w]] + 1)
         /\ retries[job[w]] < MaxRetries
  <2>1. /\ pc[w] = "reclaimed" => Permitted(w, "reclaiming", 0, 0)
        /\ pc[w] = "reclaimed" /\ retries[job[w]] >= MaxRetries =>
           Permitted(w, "bury stalled", job[w], retries[job[w]])
        /\ pc[w] = "reclaimed" /\ retries[job[w]] < MaxRetries =>
           Permitted(w, "reclaim", job[w], retries[job[w]] + 1)
    BY <1>1, <1>2, ConstantFacts
       DEF PlacesTyped, RecordsTyped, Permitted, ClientPoint, WorkerPoint, Unknown
  <2>2. \/ /\ pc[w] = "reclaimed" /\ Take(w, "reclaiming", 0, 0)
           /\ (status[job[w]] \in {"none"} \cup Over \/ ttlOver[job[w]])
        \/ /\ pc[w] = "reclaimed" /\ Take(w, "bury stalled", job[w], retries[job[w]])
           /\ retries[job[w]] >= MaxRetries
        \/ /\ pc[w] = "reclaimed" /\ Take(w, "reclaim", job[w], retries[job[w]] + 1)
           /\ retries[job[w]] < MaxRetries
    BY ConstantFacts, <1>1, <1>2
       DEF ReadStalled, LetGo, Entering, Storing, Pushing, procVars, RecordsTyped,
           PlacesTyped, Permitted
  <2> QED
    BY <1>1, <2>1, <2>2, TakeFacts
<1>4. /\ UNCHANGED <<redisVars, stalled, history>>
  BY <1>1, <1>3, ConstantFacts
     DEF ReadStalled, LapseInv, RedisInv, RecordsTyped, PlacesTyped, Permitted, Status,
         Unknown, Safe, Entering, Storing, procVars, Unclaim, recordVars, redisVars,
         history, losses, Lost
<1>5. TypeOK'
  <2>1. RecordsTyped'
    BY <1>1, <1>2, <1>3, <1>4, ConstantFacts
       DEF RecordsTyped, PlacesTyped, Permitted, Reached, Written, Unclaim, recordVars,
           redisVars, history, losses, Lost
  <2> QED
    BY <2>1, <1>3, TypePartsNext DEF Reached
<1>6. BuryInv' /\ GivenUpForCause' /\ LapseInv'
  BY <1>1, <1>3, <1>4
     DEF RedisInv, RecordsTyped, PlacesTyped, Permitted, BuryInv, GivenUpForCause, LapseInv,
         Reclaiming, Reached, Others, Written, Unclaim, recordVars, redisVars, history, losses, Lost
<1>7. KeepsNew(w)
  BY <1>1, <1>2, <1>3, <1>4, ConstantFacts
     DEF RecordsTyped, PlacesTyped, Permitted, KeepsNew, Known, Unknown, Reached, Written,
         Unclaim, recordVars, redisVars, history, losses, Lost
<1>8. KeepsToken(w)
  BY <1>1, <1>2, <1>3, <1>4, ConstantFacts
     DEF RecordsTyped, PlacesTyped, Permitted, KeepsToken, Known, Owns, Owning, Reclaiming,
         Reached, Unclaim, recordVars, redisVars, history, losses, Lost
<1>9. KeepsAttended(w) /\ KeepsFound(w)
  BY <1>1, <1>2, <1>3, <1>4, ConstantFacts
     DEF RecordsTyped, PlacesTyped, Permitted, KeepsAttended, KeepsFound, Deciding, Moving,
         Safe, Pushing, Unfinished, Reached, Written, Known, Unknown, Over, Unclaim,
         recordVars, redisVars, history, losses, Lost
<1> QED
  BY <1>1, <1>3, <1>5, <1>6, <1>7, <1>8, <1>9, StepKeeps DEF Reached

(* The best job of the queue, with its record.                             *)
LEMMA ReadHeadKeeps ==
  ASSUME RedisInv, NEW w \in Worker, ReadHead(w)
  PROVE  RedisInv'
<1>1. RecordsTyped /\ PlacesTyped /\ w \in Proc
  BY TypeParts, ConstantFacts DEF RedisInv
<1>2. Known(w)
  BY <1>1, KnownFacts DEF RedisInv
<1>3. \/ pc[w] = "reclaiming" /\ Reached(w, "idle", 0, 0)
      \/ pc[w] = "reclaiming" /\ \E j \in queue : Reached(w, "discard", j, retries[j])
      \/ pc[w] = "reclaiming" /\ \E j \in queue : Reached(w, "pop", j, retries[j])
  <2>1. /\ pc[w] = "reclaiming" => Permitted(w, "idle", 0, 0)
        /\ pc[w] = "reclaiming" => \A j \in queue : Permitted(w, "discard", j, retries[j])
        /\ pc[w] = "reclaiming" => \A j \in queue : Permitted(w, "pop", j, retries[j])
    BY <1>1, <1>2, ConstantFacts
       DEF PlacesTyped, RecordsTyped, Permitted, ClientPoint, WorkerPoint, Unknown
  <2>2. \/ pc[w] = "reclaiming" /\ Take(w, "idle", 0, 0)
        \/ pc[w] = "reclaiming" /\ \E j \in queue : Take(w, "discard", j, retries[j])
        \/ pc[w] = "reclaiming" /\ \E j \in queue : Take(w, "pop", j, retries[j])
    BY ConstantFacts, <1>1, <1>2
       DEF ReadHead, LetGo, Entering, Storing, Pushing, procVars, RecordsTyped, PlacesTyped,
           Permitted
  <2> QED
    BY <1>1, <2>1, <2>2, TakeFacts
<1>4. /\ UNCHANGED <<redisVars, stalled, history>>
  BY <1>1, <1>3, ConstantFacts
     DEF ReadHead, LapseInv, RedisInv, RecordsTyped, PlacesTyped, Permitted, Status, Unknown,
         Safe, Entering, Storing, procVars, Unclaim, recordVars, redisVars,
         history, losses, Lost
<1>5. TypeOK'
  <2>1. RecordsTyped'
    BY <1>1, <1>2, <1>3, <1>4, ConstantFacts
       DEF RecordsTyped, PlacesTyped, Permitted, Reached, Written, Unclaim, recordVars,
           redisVars, history, losses, Lost
  <2> QED
    BY <2>1, <1>3, TypePartsNext DEF Reached
<1>6. BuryInv' /\ GivenUpForCause' /\ LapseInv'
  BY <1>1, <1>3, <1>4
     DEF RedisInv, RecordsTyped, PlacesTyped, Permitted, BuryInv, GivenUpForCause, LapseInv,
         Reclaiming, Reached, Others, Written, Unclaim, recordVars, redisVars, history, losses, Lost
<1>7. KeepsNew(w)
  BY <1>1, <1>2, <1>3, <1>4, ConstantFacts
     DEF RecordsTyped, PlacesTyped, Permitted, KeepsNew, Known, Unknown, Reached, Written,
         Unclaim, recordVars, redisVars, history, losses, Lost
<1>8. KeepsToken(w)
  BY <1>1, <1>2, <1>3, <1>4, ConstantFacts
     DEF RecordsTyped, PlacesTyped, Permitted, KeepsToken, Known, Owns, Owning, Reclaiming,
         Reached, Unclaim, recordVars, redisVars, history, losses, Lost
<1>9. KeepsAttended(w) /\ KeepsFound(w)
  BY <1>1, <1>2, <1>3, <1>4, ConstantFacts
     DEF RecordsTyped, PlacesTyped, Permitted, KeepsAttended, KeepsFound, Deciding, Moving,
         Safe, Pushing, Unfinished, Reached, Written, Known, Unknown, Over, Unclaim,
         recordVars, redisVars, history, losses, Lost
<1> QED
  BY <1>1, <1>3, <1>5, <1>6, <1>7, <1>8, <1>9, StepKeeps DEF Reached

(* A late removal of a job that waits again is one of the known losses.    *)
LEMMA DiscardKeeps ==
  ASSUME RedisInv, NEW w \in Worker, Discard(w)
  PROVE  RedisInv'
<1>1. RecordsTyped /\ PlacesTyped /\ w \in Proc
  BY TypeParts, ConstantFacts DEF RedisInv
<1>2. Known(w)
  BY <1>1, KnownFacts DEF RedisInv
<1>3. pc[w] = "discard" /\ Reached(w, "idle", 0, 0)
  <2>1. /\ pc[w] = "discard" => Permitted(w, "idle", 0, 0)
    BY <1>1, <1>2, ConstantFacts
       DEF PlacesTyped, RecordsTyped, Permitted, ClientPoint, WorkerPoint, Unknown
  <2>2. pc[w] = "discard" /\ Take(w, "idle", 0, 0)
    BY ConstantFacts, <1>1, <1>2
       DEF Discard, LetGo, Entering, Storing, Pushing, procVars, RecordsTyped, PlacesTyped,
           Permitted
  <2> QED
    BY <1>1, <2>1, <2>2, TakeFacts
<1>4. /\ queue' = queue \ {job[w]}
      /\ dropped' \subseteq Job /\ dropped \subseteq dropped'
      /\ status[job[w]] = "queued" => job[w] \in dropped'
      /\ UNCHANGED <<recordVars, claimed, overdue, stalled, orphaned, refused, lapsed, crashes>>
  BY <1>1, <1>3, ConstantFacts
     DEF Discard, LapseInv, RedisInv, RecordsTyped, PlacesTyped, Permitted, Status, Unknown,
         Safe, Entering, Storing, procVars, Unclaim, recordVars, redisVars,
         history, losses, Lost
<1>5. TypeOK'
  <2>1. RecordsTyped'
    BY <1>1, <1>2, <1>3, <1>4, ConstantFacts
       DEF RecordsTyped, PlacesTyped, Permitted, Reached, Written, Unclaim, recordVars,
           redisVars, history, losses, Lost
  <2> QED
    BY <2>1, <1>3, TypePartsNext DEF Reached
<1>6. BuryInv' /\ GivenUpForCause' /\ LapseInv'
  BY <1>1, <1>3, <1>4
     DEF RedisInv, RecordsTyped, PlacesTyped, Permitted, BuryInv, GivenUpForCause, LapseInv,
         Reclaiming, Reached, Others, Written, Unclaim, recordVars, redisVars, history, losses, Lost
<1>7. KeepsNew(w)
  BY <1>1, <1>2, <1>3, <1>4, ConstantFacts
     DEF RecordsTyped, PlacesTyped, Permitted, KeepsNew, Known, Unknown, Reached, Written,
         Unclaim, recordVars, redisVars, history, losses, Lost
<1>8. KeepsToken(w)
  BY <1>1, <1>2, <1>3, <1>4, ConstantFacts
     DEF RecordsTyped, PlacesTyped, Permitted, KeepsToken, Known, Owns, Owning, Reclaiming,
         Reached, Unclaim, recordVars, redisVars, history, losses, Lost
<1>9. KeepsAttended(w) /\ KeepsFound(w)
  BY <1>1, <1>2, <1>3, <1>4, ConstantFacts
     DEF RecordsTyped, PlacesTyped, Permitted, KeepsAttended, KeepsFound, Deciding, Moving,
         Safe, Pushing, Unfinished, Reached, Written, Known, Unknown, Over, Unclaim,
         recordVars, redisVars, history, losses, Lost
<1> QED
  BY <1>1, <1>3, <1>5, <1>6, <1>7, <1>8, <1>9, StepKeeps DEF Reached

(* The job's token passes from the queue to one worker.                    *)
LEMMA PopKeeps ==
  ASSUME RedisInv, NEW w \in Worker, Pop(w)
  PROVE  RedisInv'
<1>1. RecordsTyped /\ PlacesTyped /\ w \in Proc
  BY TypeParts, ConstantFacts DEF RedisInv
<1>2. Known(w)
  BY <1>1, KnownFacts DEF RedisInv
<1>3. \/ /\ pc[w] = "pop" /\ Reached(w, "mark", job[w], copy[w])
         /\ job[w] \in queue
      \/ /\ pc[w] = "pop" /\ Reached(w, "idle", 0, 0)
         /\ job[w] \notin queue
  <2>1. /\ pc[w] = "pop" => Permitted(w, "mark", job[w], copy[w])
        /\ pc[w] = "pop" => Permitted(w, "idle", 0, 0)
    BY <1>1, <1>2, ConstantFacts
       DEF PlacesTyped, RecordsTyped, Permitted, ClientPoint, WorkerPoint, Unknown
  <2>2. \/ /\ pc[w] = "pop" /\ Goto(w, "mark") /\ UNCHANGED job /\ UNCHANGED copy
           /\ job[w] \in queue
        \/ /\ pc[w] = "pop" /\ Take(w, "idle", 0, 0)
           /\ job[w] \notin queue
    BY ConstantFacts, <1>1, <1>2
       DEF Pop, LetGo, Entering, Storing, Pushing, procVars, RecordsTyped, PlacesTyped,
           Permitted
  <2> QED
    BY <1>1, <2>1, <2>2, TakeFacts, GotoFacts
<1>4. /\ queue' = queue \ {job[w]}
      /\ UNCHANGED <<recordVars, claimed, overdue, stalled, history>>
  BY <1>1, <1>3, ConstantFacts
     DEF Pop, LapseInv, RedisInv, RecordsTyped, PlacesTyped, Permitted, Status, Unknown, Safe,
         Entering, Storing, procVars, Unclaim, recordVars, redisVars, history, losses, Lost
<1>5. TypeOK'
  <2>1. RecordsTyped'
    BY <1>1, <1>2, <1>3, <1>4, ConstantFacts
       DEF RecordsTyped, PlacesTyped, Permitted, Reached, Written, Unclaim, recordVars,
           redisVars, history, losses, Lost
  <2> QED
    BY <2>1, <1>3, TypePartsNext DEF Reached
<1>6. BuryInv' /\ GivenUpForCause' /\ LapseInv'
  BY <1>1, <1>3, <1>4
     DEF RedisInv, RecordsTyped, PlacesTyped, Permitted, BuryInv, GivenUpForCause, LapseInv,
         Reclaiming, Reached, Others, Written, Unclaim, recordVars, redisVars, history, losses, Lost
<1>7. KeepsNew(w)
  BY <1>1, <1>2, <1>3, <1>4, ConstantFacts
     DEF RecordsTyped, PlacesTyped, Permitted, KeepsNew, Known, Unknown, Reached, Written,
         Unclaim, recordVars, redisVars, history, losses, Lost
<1>8. KeepsToken(w)
  BY <1>1, <1>2, <1>3, <1>4, ConstantFacts
     DEF RecordsTyped, PlacesTyped, Permitted, KeepsToken, Known, Owns, Owning, Reclaiming,
         Reached, Unclaim, recordVars, redisVars, history, losses, Lost
<1>9. KeepsAttended(w) /\ KeepsFound(w)
  BY <1>1, <1>2, <1>3, <1>4, ConstantFacts
     DEF RecordsTyped, PlacesTyped, Permitted, KeepsAttended, KeepsFound, Deciding, Moving,
         Safe, Pushing, Unfinished, Reached, Written, Known, Unknown, Over, Unclaim,
         recordVars, redisVars, history, losses, Lost
<1> QED
  BY <1>1, <1>3, <1>5, <1>6, <1>7, <1>8, <1>9, StepKeeps DEF Reached

(* The popped job is written as processed.                                 *)
LEMMA MarkKeeps ==
  ASSUME RedisInv, NEW w \in Worker, Mark(w)
  PROVE  RedisInv'
<1>1. RecordsTyped /\ PlacesTyped /\ w \in Proc
  BY TypeParts, ConstantFacts DEF RedisInv
<1>2. Known(w)
  BY <1>1, KnownFacts DEF RedisInv
<1>3. pc[w] = "mark" /\ Reached(w, "claim", job[w], copy[w])
  <2>1. /\ pc[w] = "mark" => Permitted(w, "claim", job[w], copy[w])
    BY <1>1, <1>2, ConstantFacts
       DEF PlacesTyped, RecordsTyped, Permitted, ClientPoint, WorkerPoint, Unknown
  <2>2. pc[w] = "mark" /\ Goto(w, "claim") /\ UNCHANGED job /\ UNCHANGED copy
    BY ConstantFacts, <1>1, <1>2
       DEF Mark, LetGo, Entering, Storing, Pushing, procVars, RecordsTyped, PlacesTyped,
           Permitted
  <2> QED
    BY <1>1, <2>1, <2>2, GotoFacts
<1>4. Written(job[w], "processing", copy[w])
  <2>1. job[w] \in Job /\ copy[w] \in 0 .. MaxRetries
    BY <1>1 DEF Mark, PlacesTyped, Permitted, Storing
  <2> QED
    BY <1>1, <2>1, WriteFacts DEF Mark, Status, Over
<1>5. /\ UNCHANGED <<ttlOver, queue, claimed, overdue, stalled, history>>
  BY <1>1, <1>3, ConstantFacts
     DEF Mark, LapseInv, RedisInv, RecordsTyped, PlacesTyped, Permitted, Status, Unknown,
         Safe, Entering, Storing, procVars, Unclaim, recordVars, redisVars,
         history, losses, Lost
<1>6. TypeOK'
  <2>1. RecordsTyped'
    BY <1>1, <1>2, <1>3, <1>4, <1>5, ConstantFacts
       DEF RecordsTyped, PlacesTyped, Permitted, Reached, Written, Unclaim, recordVars,
           redisVars, history, losses, Lost
  <2> QED
    BY <2>1, <1>3, TypePartsNext DEF Reached
<1>7. BuryInv' /\ GivenUpForCause' /\ LapseInv'
  BY <1>1, <1>3, <1>4, <1>5
     DEF RedisInv, RecordsTyped, PlacesTyped, Permitted, BuryInv, GivenUpForCause, LapseInv,
         Reclaiming, Reached, Others, Written, Unclaim, recordVars, redisVars, history, losses, Lost
<1>8. KeepsNew(w)
  BY <1>1, <1>2, <1>3, <1>4, <1>5, ConstantFacts
     DEF RecordsTyped, PlacesTyped, Permitted, KeepsNew, Known, Unknown, Reached, Written,
         Unclaim, recordVars, redisVars, history, losses, Lost
<1>9. KeepsToken(w)
  BY <1>1, <1>2, <1>3, <1>5, ConstantFacts
     DEF RecordsTyped, PlacesTyped, Permitted, KeepsToken, Known, Owns, Owning, Reclaiming,
         Reached, Unclaim, recordVars, redisVars, history, losses, Lost
<1>10. KeepsAttended(w) /\ KeepsFound(w)
  BY <1>1, <1>2, <1>3, <1>4, <1>5, ConstantFacts
     DEF RecordsTyped, PlacesTyped, Permitted, KeepsAttended, KeepsFound, Deciding, Moving,
         Safe, Pushing, Unfinished, Reached, Written, Known, Unknown, Over, Unclaim,
         recordVars, redisVars, history, losses, Lost
<1> QED
  BY <1>1, <1>3, <1>6, <1>7, <1>8, <1>9, <1>10, StepKeeps DEF Reached

(* The claim takes over from the process.                                  *)
LEMMA ClaimKeeps ==
  ASSUME RedisInv, NEW w \in Worker, Claim(w)
  PROVE  RedisInv'
<1>1. RecordsTyped /\ PlacesTyped /\ w \in Proc
  BY TypeParts, ConstantFacts DEF RedisInv
<1>2. Known(w)
  BY <1>1, KnownFacts DEF RedisInv
<1>3. pc[w] = "claim" /\ Reached(w, "run", job[w], copy[w])
  <2>1. /\ pc[w] = "claim" => Permitted(w, "run", job[w], copy[w])
    BY <1>1, <1>2, ConstantFacts
       DEF PlacesTyped, RecordsTyped, Permitted, ClientPoint, WorkerPoint, Unknown
  <2>2. pc[w] = "claim" /\ Goto(w, "run") /\ UNCHANGED job /\ UNCHANGED copy
    BY ConstantFacts, <1>1, <1>2
       DEF Claim, LetGo, Entering, Storing, Pushing, procVars, RecordsTyped, PlacesTyped,
           Permitted
  <2> QED
    BY <1>1, <2>1, <2>2, GotoFacts
<1>4. /\ claimed' = claimed \cup {job[w]} /\ overdue' = overdue \ {job[w]}
      /\ UNCHANGED <<recordVars, queue, stalled, history>>
  BY <1>1, <1>3, ConstantFacts
     DEF Claim, LapseInv, RedisInv, RecordsTyped, PlacesTyped, Permitted, Status, Unknown,
         Safe, Entering, Storing, procVars, Unclaim, recordVars, redisVars,
         history, losses, Lost
<1>5. TypeOK'
  <2>1. RecordsTyped'
    BY <1>1, <1>2, <1>3, <1>4, ConstantFacts
       DEF RecordsTyped, PlacesTyped, Permitted, Reached, Written, Unclaim, recordVars,
           redisVars, history, losses, Lost
  <2> QED
    BY <2>1, <1>3, TypePartsNext DEF Reached
<1>6. BuryInv' /\ GivenUpForCause' /\ LapseInv'
  BY <1>1, <1>3, <1>4
     DEF RedisInv, RecordsTyped, PlacesTyped, Permitted, BuryInv, GivenUpForCause, LapseInv,
         Reclaiming, Reached, Others, Written, Unclaim, recordVars, redisVars, history, losses, Lost
<1>7. KeepsNew(w)
  BY <1>1, <1>2, <1>3, <1>4, ConstantFacts
     DEF RecordsTyped, PlacesTyped, Permitted, KeepsNew, Known, Unknown, Reached, Written,
         Unclaim, recordVars, redisVars, history, losses, Lost
<1>8. KeepsToken(w)
  BY <1>1, <1>2, <1>3, <1>4, ConstantFacts
     DEF RecordsTyped, PlacesTyped, Permitted, KeepsToken, Known, Owns, Owning, Reclaiming,
         Reached, Unclaim, recordVars, redisVars, history, losses, Lost
<1>9. KeepsAttended(w) /\ KeepsFound(w)
  BY <1>1, <1>2, <1>3, <1>4, ConstantFacts
     DEF RecordsTyped, PlacesTyped, Permitted, KeepsAttended, KeepsFound, Deciding, Moving,
         Safe, Pushing, Unfinished, Reached, Written, Known, Unknown, Over, Unclaim,
         recordVars, redisVars, history, losses, Lost
<1> QED
  BY <1>1, <1>3, <1>5, <1>6, <1>7, <1>8, <1>9, StepKeeps DEF Reached

(* The process takes over from the claim.                                  *)
LEMMA ReleaseKeeps ==
  ASSUME RedisInv, NEW w \in Worker, NEW l \in {"completing", "failing"}, Release(w, l)
  PROVE  RedisInv'
<1>1. RecordsTyped /\ PlacesTyped /\ w \in Proc
  BY TypeParts, ConstantFacts DEF RedisInv
<1>2. Known(w)
  BY <1>1, KnownFacts DEF RedisInv
<1>3. pc[w] = "run" /\ Reached(w, l, job[w], copy[w])
  <2>1. /\ pc[w] = "run" => Permitted(w, l, job[w], copy[w])
    BY <1>1, <1>2, ConstantFacts
       DEF PlacesTyped, RecordsTyped, Permitted, ClientPoint, WorkerPoint, Unknown
  <2>2. pc[w] = "run" /\ Goto(w, l) /\ UNCHANGED job /\ UNCHANGED copy
    BY ConstantFacts, <1>1, <1>2
       DEF Release, LetGo, Entering, Storing, Pushing, procVars, RecordsTyped, PlacesTyped,
           Permitted
  <2> QED
    BY <1>1, <2>1, <2>2, GotoFacts
<1>4. /\ Unclaim(job[w])
      /\ UNCHANGED <<recordVars, queue, stalled, history>>
  BY <1>1, <1>3, ConstantFacts
     DEF Release, LapseInv, RedisInv, RecordsTyped, PlacesTyped, Permitted, Status, Unknown,
         Safe, Entering, Storing, procVars, Unclaim, recordVars, redisVars,
         history, losses, Lost
<1>5. TypeOK'
  <2>1. RecordsTyped'
    BY <1>1, <1>2, <1>3, <1>4, ConstantFacts
       DEF RecordsTyped, PlacesTyped, Permitted, Reached, Written, Unclaim, recordVars,
           redisVars, history, losses, Lost
  <2> QED
    BY <2>1, <1>3, TypePartsNext DEF Reached
<1>6. BuryInv' /\ GivenUpForCause' /\ LapseInv'
  BY <1>1, <1>3, <1>4
     DEF RedisInv, RecordsTyped, PlacesTyped, Permitted, BuryInv, GivenUpForCause, LapseInv,
         Reclaiming, Reached, Others, Written, Unclaim, recordVars, redisVars, history, losses, Lost
<1>7. KeepsNew(w)
  BY <1>1, <1>2, <1>3, <1>4, ConstantFacts
     DEF RecordsTyped, PlacesTyped, Permitted, KeepsNew, Known, Unknown, Reached, Written,
         Unclaim, recordVars, redisVars, history, losses, Lost
<1>8. KeepsToken(w)
  BY <1>1, <1>2, <1>3, <1>4, ConstantFacts
     DEF RecordsTyped, PlacesTyped, Permitted, KeepsToken, Known, Owns, Owning, Reclaiming,
         Reached, Unclaim, recordVars, redisVars, history, losses, Lost
<1>9. KeepsAttended(w) /\ KeepsFound(w)
  BY <1>1, <1>2, <1>3, <1>4, ConstantFacts
     DEF RecordsTyped, PlacesTyped, Permitted, KeepsAttended, KeepsFound, Deciding, Moving,
         Safe, Pushing, Unfinished, Reached, Written, Known, Unknown, Over, Unclaim,
         recordVars, redisVars, history, losses, Lost
<1> QED
  BY <1>1, <1>3, <1>5, <1>6, <1>7, <1>8, <1>9, StepKeeps DEF Reached

(* The handler's outcome is turned into the next write.                    *)
LEMMA ReadEndedKeeps ==
  ASSUME RedisInv, NEW w \in Worker, ReadEnded(w)
  PROVE  RedisInv'
<1>1. RecordsTyped /\ PlacesTyped /\ w \in Proc
  BY TypeParts, ConstantFacts DEF RedisInv
<1>2. Known(w)
  BY <1>1, KnownFacts DEF RedisInv
<1>3. \/ /\ pc[w] \in {"completing", "failing"} /\ Reached(w, "idle", 0, 0)
         /\ status[job[w]] = "none"
      \/ pc[w] = "completing" /\ Reached(w, "complete", job[w], retries[job[w]])
      \/ /\ pc[w] = "failing" /\ Reached(w, "requeue", job[w], retries[job[w]] + 1)
         /\ retries[job[w]] < MaxRetries
      \/ /\ pc[w] = "failing" /\ Reached(w, "bury failed", job[w], retries[job[w]])
         /\ retries[job[w]] >= MaxRetries
  <2>1. /\ pc[w] \in {"completing", "failing"} => Permitted(w, "idle", 0, 0)
        /\ pc[w] = "completing" => Permitted(w, "complete", job[w], retries[job[w]])
        /\ pc[w] = "failing" /\ retries[job[w]] < MaxRetries =>
           Permitted(w, "requeue", job[w], retries[job[w]] + 1)
        /\ pc[w] = "failing" /\ retries[job[w]] >= MaxRetries =>
           Permitted(w, "bury failed", job[w], retries[job[w]])
    BY <1>1, <1>2, ConstantFacts
       DEF PlacesTyped, RecordsTyped, Permitted, ClientPoint, WorkerPoint, Unknown
  <2>2. \/ /\ pc[w] \in {"completing", "failing"} /\ Take(w, "idle", 0, 0)
           /\ status[job[w]] = "none"
        \/ pc[w] = "completing" /\ Take(w, "complete", job[w], retries[job[w]])
        \/ /\ pc[w] = "failing" /\ Take(w, "requeue", job[w], retries[job[w]] + 1)
           /\ retries[job[w]] < MaxRetries
        \/ /\ pc[w] = "failing" /\ Take(w, "bury failed", job[w], retries[job[w]])
           /\ retries[job[w]] >= MaxRetries
    BY ConstantFacts, <1>1, <1>2
       DEF ReadEnded, LetGo, Entering, Storing, Pushing, procVars, RecordsTyped, PlacesTyped,
           Permitted
  <2> QED
    BY <1>1, <2>1, <2>2, TakeFacts
<1>4. /\ UNCHANGED <<redisVars, stalled, history>>
  BY <1>1, <1>3, ConstantFacts
     DEF ReadEnded, LapseInv, RedisInv, RecordsTyped, PlacesTyped, Permitted, Status, Unknown,
         Safe, Entering, Storing, procVars, Unclaim, recordVars, redisVars,
         history, losses, Lost
<1>5. TypeOK'
  <2>1. RecordsTyped'
    BY <1>1, <1>2, <1>3, <1>4, ConstantFacts
       DEF RecordsTyped, PlacesTyped, Permitted, Reached, Written, Unclaim, recordVars,
           redisVars, history, losses, Lost
  <2> QED
    BY <2>1, <1>3, TypePartsNext DEF Reached
<1>6. BuryInv' /\ GivenUpForCause' /\ LapseInv'
  BY <1>1, <1>3, <1>4
     DEF RedisInv, RecordsTyped, PlacesTyped, Permitted, BuryInv, GivenUpForCause, LapseInv,
         Reclaiming, Reached, Others, Written, Unclaim, recordVars, redisVars, history, losses, Lost
<1>7. KeepsNew(w)
  BY <1>1, <1>2, <1>3, <1>4, ConstantFacts
     DEF RecordsTyped, PlacesTyped, Permitted, KeepsNew, Known, Unknown, Reached, Written,
         Unclaim, recordVars, redisVars, history, losses, Lost
<1>8. KeepsToken(w)
  BY <1>1, <1>2, <1>3, <1>4, ConstantFacts
     DEF RecordsTyped, PlacesTyped, Permitted, KeepsToken, Known, Owns, Owning, Reclaiming,
         Reached, Unclaim, recordVars, redisVars, history, losses, Lost
<1>9. KeepsAttended(w) /\ KeepsFound(w)
  BY <1>1, <1>2, <1>3, <1>4, ConstantFacts
     DEF RecordsTyped, PlacesTyped, Permitted, KeepsAttended, KeepsFound, Deciding, Moving,
         Safe, Pushing, Unfinished, Reached, Written, Known, Unknown, Over, Unclaim,
         recordVars, redisVars, history, losses, Lost
<1> QED
  BY <1>1, <1>3, <1>5, <1>6, <1>7, <1>8, <1>9, StepKeeps DEF Reached

(* The outcome of a job that succeeded.                                    *)
LEMMA CompleteKeeps ==
  ASSUME RedisInv, NEW w \in Worker, Complete(w)
  PROVE  RedisInv'
<1>1. RecordsTyped /\ PlacesTyped /\ w \in Proc
  BY TypeParts, ConstantFacts DEF RedisInv
<1>2. Known(w)
  BY <1>1, KnownFacts DEF RedisInv
<1>3. pc[w] = "complete" /\ Reached(w, "idle", 0, 0)
  <2>1. /\ pc[w] = "complete" => Permitted(w, "idle", 0, 0)
    BY <1>1, <1>2, ConstantFacts
       DEF PlacesTyped, RecordsTyped, Permitted, ClientPoint, WorkerPoint, Unknown
  <2>2. pc[w] = "complete" /\ Take(w, "idle", 0, 0)
    BY ConstantFacts, <1>1, <1>2
       DEF Complete, LetGo, Entering, Storing, Pushing, procVars, RecordsTyped, PlacesTyped,
           Permitted
  <2> QED
    BY <1>1, <2>1, <2>2, TakeFacts
<1>4. Written(job[w], "completed", copy[w])
  <2>1. job[w] \in Job /\ copy[w] \in 0 .. MaxRetries
    BY <1>1 DEF Complete, PlacesTyped, Permitted, Storing
  <2> QED
    BY <1>1, <2>1, WriteFacts DEF Complete, Status, Over
<1>5. /\ UNCHANGED <<ttlOver, queue, claimed, overdue, stalled, history>>
  BY <1>1, <1>3, ConstantFacts
     DEF Complete, LapseInv, RedisInv, RecordsTyped, PlacesTyped, Permitted, Status, Unknown,
         Safe, Entering, Storing, procVars, Unclaim, recordVars, redisVars,
         history, losses, Lost
<1>6. TypeOK'
  <2>1. RecordsTyped'
    BY <1>1, <1>2, <1>3, <1>4, <1>5, ConstantFacts
       DEF RecordsTyped, PlacesTyped, Permitted, Reached, Written, Unclaim, recordVars,
           redisVars, history, losses, Lost
  <2> QED
    BY <2>1, <1>3, TypePartsNext DEF Reached
<1>7. BuryInv' /\ GivenUpForCause' /\ LapseInv'
  BY <1>1, <1>3, <1>4, <1>5
     DEF RedisInv, RecordsTyped, PlacesTyped, Permitted, BuryInv, GivenUpForCause, LapseInv,
         Reclaiming, Reached, Others, Written, Unclaim, recordVars, redisVars, history, losses, Lost
<1>8. KeepsNew(w)
  BY <1>1, <1>2, <1>3, <1>4, <1>5, ConstantFacts
     DEF RecordsTyped, PlacesTyped, Permitted, KeepsNew, Known, Unknown, Reached, Written,
         Unclaim, recordVars, redisVars, history, losses, Lost
<1>9. KeepsToken(w)
  BY <1>1, <1>2, <1>3, <1>5, ConstantFacts
     DEF RecordsTyped, PlacesTyped, Permitted, KeepsToken, Known, Owns, Owning, Reclaiming,
         Reached, Unclaim, recordVars, redisVars, history, losses, Lost
<1>10. KeepsAttended(w) /\ KeepsFound(w)
  BY <1>1, <1>2, <1>3, <1>4, <1>5, ConstantFacts
     DEF RecordsTyped, PlacesTyped, Permitted, KeepsAttended, KeepsFound, Deciding, Moving,
         Safe, Pushing, Unfinished, Reached, Written, Known, Unknown, Over, Unclaim,
         recordVars, redisVars, history, losses, Lost
<1> QED
  BY <1>1, <1>3, <1>6, <1>7, <1>8, <1>9, <1>10, StepKeeps DEF Reached

(* The job is given up.                                                    *)
LEMMA BuryKeeps ==
  ASSUME RedisInv, NEW w \in Worker, Bury(w)
  PROVE  RedisInv'
<1>1. RecordsTyped /\ PlacesTyped /\ w \in Proc
  BY TypeParts, ConstantFacts DEF RedisInv
<1>2. Known(w)
  BY <1>1, KnownFacts DEF RedisInv
<1>3. \/ pc[w] = "bury failed" /\ Reached(w, "idle", 0, 0)
      \/ pc[w] = "bury stalled" /\ Reached(w, "reclaiming", 0, 0)
  <2>1. /\ pc[w] = "bury failed" => Permitted(w, "idle", 0, 0)
        /\ pc[w] = "bury stalled" => Permitted(w, "reclaiming", 0, 0)
    BY <1>1, <1>2, ConstantFacts
       DEF PlacesTyped, RecordsTyped, Permitted, ClientPoint, WorkerPoint, Unknown
  <2>2. \/ pc[w] = "bury failed" /\ Take(w, "idle", 0, 0)
        \/ pc[w] = "bury stalled" /\ Take(w, "reclaiming", 0, 0)
    BY ConstantFacts, <1>1, <1>2
       DEF Bury, LetGo, Entering, Storing, Pushing, procVars, RecordsTyped, PlacesTyped,
           Permitted
  <2> QED
    BY <1>1, <2>1, <2>2, TakeFacts
<1>4. Written(job[w], "dead_letter", copy[w])
  <2>1. job[w] \in Job /\ copy[w] \in 0 .. MaxRetries
    BY <1>1 DEF Bury, PlacesTyped, Permitted, Storing
  <2> QED
    BY <1>1, <2>1, WriteFacts DEF Bury, Status, Over
<1>5. /\ UNCHANGED <<ttlOver, queue, claimed, overdue, stalled, history>>
  BY <1>1, <1>3, ConstantFacts
     DEF Bury, LapseInv, RedisInv, RecordsTyped, PlacesTyped, Permitted, Status, Unknown,
         Safe, Entering, Storing, procVars, Unclaim, recordVars, redisVars,
         history, losses, Lost
<1>6. TypeOK'
  <2>1. RecordsTyped'
    BY <1>1, <1>2, <1>3, <1>4, <1>5, ConstantFacts
       DEF RecordsTyped, PlacesTyped, Permitted, Reached, Written, Unclaim, recordVars,
           redisVars, history, losses, Lost
  <2> QED
    BY <2>1, <1>3, TypePartsNext DEF Reached
<1>7. BuryInv' /\ GivenUpForCause' /\ LapseInv'
  BY <1>1, <1>3, <1>4, <1>5
     DEF RedisInv, RecordsTyped, PlacesTyped, Permitted, BuryInv, GivenUpForCause, LapseInv,
         Reclaiming, Reached, Others, Written, Unclaim, recordVars, redisVars, history, losses, Lost
<1>8. KeepsNew(w)
  BY <1>1, <1>2, <1>3, <1>4, <1>5, ConstantFacts
     DEF RecordsTyped, PlacesTyped, Permitted, KeepsNew, Known, Unknown, Reached, Written,
         Unclaim, recordVars, redisVars, history, losses, Lost
<1>9. KeepsToken(w)
  BY <1>1, <1>2, <1>3, <1>5, ConstantFacts
     DEF RecordsTyped, PlacesTyped, Permitted, KeepsToken, Known, Owns, Owning, Reclaiming,
         Reached, Unclaim, recordVars, redisVars, history, losses, Lost
<1>10. KeepsAttended(w) /\ KeepsFound(w)
  BY <1>1, <1>2, <1>3, <1>4, <1>5, ConstantFacts
     DEF RecordsTyped, PlacesTyped, Permitted, KeepsAttended, KeepsFound, Deciding, Moving,
         Safe, Pushing, Unfinished, Reached, Written, Known, Unknown, Over, Unclaim,
         recordVars, redisVars, history, losses, Lost
<1> QED
  BY <1>1, <1>3, <1>6, <1>7, <1>8, <1>9, <1>10, StepKeeps DEF Reached

(* cancel, its first step.                                                 *)
LEMMA ReadCancelledKeeps ==
  ASSUME RedisInv, NEW j \in Job, ReadCancelled(j)
  PROVE  RedisInv'
<1>1. RecordsTyped /\ PlacesTyped /\ Client \in Proc
  BY TypeParts, ConstantFacts DEF RedisInv
<1>2. Known(Client)
  BY <1>1, KnownFacts DEF RedisInv
<1>3. pc[Client] = "idle" /\ Reached(Client, "withdraw", j, retries[j])
  <2>1. /\ pc[Client] = "idle" => Permitted(Client, "withdraw", j, retries[j])
    BY <1>1, <1>2, ConstantFacts
       DEF PlacesTyped, RecordsTyped, Permitted, ClientPoint, WorkerPoint, Unknown
  <2>2. pc[Client] = "idle" /\ Take(Client, "withdraw", j, retries[j])
    BY ConstantFacts, <1>1, <1>2
       DEF ReadCancelled, LetGo, Entering, Storing, Pushing, procVars, RecordsTyped,
           PlacesTyped, Permitted
  <2> QED
    BY <1>1, <2>1, <2>2, TakeFacts
<1>4. /\ status[j] # "none"
      /\ UNCHANGED <<redisVars, stalled, history>>
  BY <1>1, <1>3, ConstantFacts
     DEF ReadCancelled, LapseInv, RedisInv, RecordsTyped, PlacesTyped, Permitted, Status,
         Unknown, Safe, Entering, Storing, procVars, Unclaim, recordVars, redisVars,
         history, losses, Lost
<1>5. TypeOK'
  <2>1. RecordsTyped'
    BY <1>1, <1>2, <1>3, <1>4, ConstantFacts
       DEF RecordsTyped, PlacesTyped, Permitted, Reached, Written, Unclaim, recordVars,
           redisVars, history, losses, Lost
  <2> QED
    BY <2>1, <1>3, TypePartsNext DEF Reached
<1>6. BuryInv' /\ GivenUpForCause' /\ LapseInv'
  BY <1>1, <1>3, <1>4
     DEF RedisInv, RecordsTyped, PlacesTyped, Permitted, BuryInv, GivenUpForCause, LapseInv,
         Reclaiming, Reached, Others, Written, Unclaim, recordVars, redisVars, history, losses, Lost
<1>7. KeepsNew(Client)
  BY <1>1, <1>2, <1>3, <1>4, ConstantFacts
     DEF RecordsTyped, PlacesTyped, Permitted, KeepsNew, Known, Unknown, Reached, Written,
         Unclaim, recordVars, redisVars, history, losses, Lost
<1>8. KeepsToken(Client)
  BY <1>1, <1>2, <1>3, <1>4, ConstantFacts
     DEF RecordsTyped, PlacesTyped, Permitted, KeepsToken, Known, Owns, Owning, Reclaiming,
         Reached, Unclaim, recordVars, redisVars, history, losses, Lost
<1>9. KeepsAttended(Client) /\ KeepsFound(Client)
  BY <1>1, <1>2, <1>3, <1>4, ConstantFacts
     DEF RecordsTyped, PlacesTyped, Permitted, KeepsAttended, KeepsFound, Deciding, Moving,
         Safe, Pushing, Unfinished, Reached, Written, Known, Unknown, Over, Unclaim,
         recordVars, redisVars, history, losses, Lost
<1> QED
  BY <1>1, <1>3, <1>5, <1>6, <1>7, <1>8, <1>9, StepKeeps DEF Reached

(* cancel takes the job from where it waits or runs.                       *)
LEMMA WithdrawKeeps ==
  ASSUME RedisInv, Withdraw
  PROVE  RedisInv'
<1>1. RecordsTyped /\ PlacesTyped /\ Client \in Proc
  BY TypeParts, ConstantFacts DEF RedisInv
<1>2. Known(Client)
  BY <1>1, KnownFacts DEF RedisInv
<1>3. pc[Client] = "withdraw" /\ Reached(Client, "cancel", job[Client], copy[Client])
  <2>1. /\ pc[Client] = "withdraw" => Permitted(Client, "cancel", job[Client], copy[Client])
    BY <1>1, <1>2, ConstantFacts
       DEF PlacesTyped, RecordsTyped, Permitted, ClientPoint, WorkerPoint, Unknown
  <2>2. pc[Client] = "withdraw" /\ Goto(Client, "cancel") /\ UNCHANGED job /\ UNCHANGED copy
    BY ConstantFacts, <1>1, <1>2
       DEF Withdraw, LetGo, Entering, Storing, Pushing, procVars, RecordsTyped, PlacesTyped,
           Permitted
  <2> QED
    BY <1>1, <2>1, <2>2, GotoFacts
<1>4. /\ Unclaim(job[Client]) /\ queue' = queue \ {job[Client]}
      /\ UNCHANGED <<recordVars, stalled, history>>
  BY <1>1, <1>3, ConstantFacts
     DEF Withdraw, LapseInv, RedisInv, RecordsTyped, PlacesTyped, Permitted, Status, Unknown,
         Safe, Entering, Storing, procVars, Unclaim, recordVars, redisVars,
         history, losses, Lost
<1>5. TypeOK'
  <2>1. RecordsTyped'
    BY <1>1, <1>2, <1>3, <1>4, ConstantFacts
       DEF RecordsTyped, PlacesTyped, Permitted, Reached, Written, Unclaim, recordVars,
           redisVars, history, losses, Lost
  <2> QED
    BY <2>1, <1>3, TypePartsNext DEF Reached
<1>6. BuryInv' /\ GivenUpForCause' /\ LapseInv'
  BY <1>1, <1>3, <1>4
     DEF RedisInv, RecordsTyped, PlacesTyped, Permitted, BuryInv, GivenUpForCause, LapseInv,
         Reclaiming, Reached, Others, Written, Unclaim, recordVars, redisVars, history, losses, Lost
<1>7. KeepsNew(Client)
  BY <1>1, <1>2, <1>3, <1>4, ConstantFacts
     DEF RecordsTyped, PlacesTyped, Permitted, KeepsNew, Known, Unknown, Reached, Written,
         Unclaim, recordVars, redisVars, history, losses, Lost
<1>8. KeepsToken(Client)
  BY <1>1, <1>2, <1>3, <1>4, ConstantFacts
     DEF RecordsTyped, PlacesTyped, Permitted, KeepsToken, Known, Owns, Owning, Reclaiming,
         Reached, Unclaim, recordVars, redisVars, history, losses, Lost
<1>9. KeepsAttended(Client) /\ KeepsFound(Client)
  BY <1>1, <1>2, <1>3, <1>4, ConstantFacts
     DEF RecordsTyped, PlacesTyped, Permitted, KeepsAttended, KeepsFound, Deciding, Moving,
         Safe, Pushing, Unfinished, Reached, Written, Known, Unknown, Over, Unclaim,
         recordVars, redisVars, history, losses, Lost
<1> QED
  BY <1>1, <1>3, <1>5, <1>6, <1>7, <1>8, <1>9, StepKeeps DEF Reached

(* cancel, its last step.                                                  *)
LEMMA CancelKeeps ==
  ASSUME RedisInv, Cancel
  PROVE  RedisInv'
<1>1. RecordsTyped /\ PlacesTyped /\ Client \in Proc
  BY TypeParts, ConstantFacts DEF RedisInv
<1>2. Known(Client)
  BY <1>1, KnownFacts DEF RedisInv
<1>3. pc[Client] = "cancel" /\ Reached(Client, "idle", 0, 0)
  <2>1. /\ pc[Client] = "cancel" => Permitted(Client, "idle", 0, 0)
    BY <1>1, <1>2, ConstantFacts
       DEF PlacesTyped, RecordsTyped, Permitted, ClientPoint, WorkerPoint, Unknown
  <2>2. pc[Client] = "cancel" /\ Take(Client, "idle", 0, 0)
    BY ConstantFacts, <1>1, <1>2
       DEF Cancel, LetGo, Entering, Storing, Pushing, procVars, RecordsTyped, PlacesTyped,
           Permitted
  <2> QED
    BY <1>1, <2>1, <2>2, TakeFacts
<1>4. Written(job[Client], "cancelled", copy[Client])
  <2>1. job[Client] \in Job /\ copy[Client] \in 0 .. MaxRetries
    BY <1>1 DEF Cancel, PlacesTyped, Permitted, Storing
  <2> QED
    BY <1>1, <2>1, WriteFacts DEF Cancel, Status, Over
<1>5. /\ UNCHANGED <<ttlOver, queue, claimed, overdue, stalled, history>>
  BY <1>1, <1>3, ConstantFacts
     DEF Cancel, LapseInv, RedisInv, RecordsTyped, PlacesTyped, Permitted, Status, Unknown,
         Safe, Entering, Storing, procVars, Unclaim, recordVars, redisVars,
         history, losses, Lost
<1>6. TypeOK'
  <2>1. RecordsTyped'
    BY <1>1, <1>2, <1>3, <1>4, <1>5, ConstantFacts
       DEF RecordsTyped, PlacesTyped, Permitted, Reached, Written, Unclaim, recordVars,
           redisVars, history, losses, Lost
  <2> QED
    BY <2>1, <1>3, TypePartsNext DEF Reached
<1>7. BuryInv' /\ GivenUpForCause' /\ LapseInv'
  BY <1>1, <1>3, <1>4, <1>5
     DEF RedisInv, RecordsTyped, PlacesTyped, Permitted, BuryInv, GivenUpForCause, LapseInv,
         Reclaiming, Reached, Others, Written, Unclaim, recordVars, redisVars, history, losses, Lost
<1>8. KeepsNew(Client)
  BY <1>1, <1>2, <1>3, <1>4, <1>5, ConstantFacts
     DEF RecordsTyped, PlacesTyped, Permitted, KeepsNew, Known, Unknown, Reached, Written,
         Unclaim, recordVars, redisVars, history, losses, Lost
<1>9. KeepsToken(Client)
  BY <1>1, <1>2, <1>3, <1>5, ConstantFacts
     DEF RecordsTyped, PlacesTyped, Permitted, KeepsToken, Known, Owns, Owning, Reclaiming,
         Reached, Unclaim, recordVars, redisVars, history, losses, Lost
<1>10. KeepsAttended(Client) /\ KeepsFound(Client)
  BY <1>1, <1>2, <1>3, <1>4, <1>5, ConstantFacts
     DEF RecordsTyped, PlacesTyped, Permitted, KeepsAttended, KeepsFound, Deciding, Moving,
         Safe, Pushing, Unfinished, Reached, Written, Known, Unknown, Over, Unclaim,
         recordVars, redisVars, history, losses, Lost
<1> QED
  BY <1>1, <1>3, <1>6, <1>7, <1>8, <1>9, <1>10, StepKeeps DEF Reached

(* A death between two commands is one of the known losses.                *)
LEMMA CrashKeeps ==
  ASSUME RedisInv, NEW w \in Worker, Crash(w)
  PROVE  RedisInv'
<1>1. RecordsTyped /\ PlacesTyped /\ w \in Proc
  BY TypeParts, ConstantFacts DEF RedisInv
<1>2. Known(w)
  BY <1>1, KnownFacts DEF RedisInv
<1>3. pc[w] # "idle" /\ Reached(w, "idle", 0, 0)
  <2>1. /\ pc[w] # "idle" => Permitted(w, "idle", 0, 0)
    BY <1>1, <1>2, ConstantFacts
       DEF PlacesTyped, RecordsTyped, Permitted, ClientPoint, WorkerPoint, Unknown
  <2>2. pc[w] # "idle" /\ Take(w, "idle", 0, 0)
    BY ConstantFacts, <1>1, <1>2
       DEF Crash, LetGo, Entering, Storing, Pushing, procVars, RecordsTyped, PlacesTyped,
           Permitted
  <2> QED
    BY <1>1, <2>1, <2>2, TakeFacts
<1>4. /\ crashes' \in 0 .. MaxCrashes
      /\ orphaned' \subseteq Job /\ orphaned \subseteq orphaned'
      /\ pc[w] \notin Safe => job[w] \in orphaned'
      /\ \A q \in Proc : stalled'[q] \subseteq stalled[q]
      /\ stalled' \in [Proc -> SUBSET Job]
      /\ UNCHANGED <<redisVars, dropped, refused, lapsed>>
  BY <1>1, <1>3, ConstantFacts
     DEF Crash, LapseInv, RedisInv, RecordsTyped, PlacesTyped, Permitted, Status, Unknown,
         Safe, Entering, Storing, procVars, Unclaim, recordVars, redisVars,
         history, losses, Lost
<1>5. TypeOK'
  <2>1. RecordsTyped'
    BY <1>1, <1>2, <1>3, <1>4, ConstantFacts
       DEF RecordsTyped, PlacesTyped, Permitted, Reached, Written, Unclaim, recordVars,
           redisVars, history, losses, Lost
  <2> QED
    BY <2>1, <1>3, TypePartsNext DEF Reached
<1>6. BuryInv' /\ GivenUpForCause' /\ LapseInv'
  BY <1>1, <1>3, <1>4
     DEF RedisInv, RecordsTyped, PlacesTyped, Permitted, BuryInv, GivenUpForCause, LapseInv,
         Reclaiming, Reached, Others, Written, Unclaim, recordVars, redisVars, history, losses, Lost
<1>7. KeepsNew(w)
  BY <1>1, <1>2, <1>3, <1>4, ConstantFacts
     DEF RecordsTyped, PlacesTyped, Permitted, KeepsNew, Known, Unknown, Reached, Written,
         Unclaim, recordVars, redisVars, history, losses, Lost
<1>8. KeepsToken(w)
  BY <1>1, <1>2, <1>3, <1>4, ConstantFacts
     DEF RecordsTyped, PlacesTyped, Permitted, KeepsToken, Known, Owns, Owning, Reclaiming,
         Reached, Unclaim, recordVars, redisVars, history, losses, Lost
<1>9. KeepsAttended(w) /\ KeepsFound(w)
  BY <1>1, <1>2, <1>3, <1>4, ConstantFacts
     DEF RecordsTyped, PlacesTyped, Permitted, KeepsAttended, KeepsFound, Deciding, Moving,
         Safe, Pushing, Unfinished, Reached, Written, Known, Unknown, Over, Unclaim,
         recordVars, redisVars, history, losses, Lost
<1> QED
  BY <1>1, <1>3, <1>5, <1>6, <1>7, <1>8, <1>9, StepKeeps DEF Reached

(* Time passes for a claim ...                                             *)
LEMMA LeaseEndsKeeps ==
  ASSUME RedisInv, NEW j \in Job, LeaseEnds(j)
  PROVE  RedisInv'
<1>1. RecordsTyped /\ PlacesTyped /\ Client \in Proc
  BY TypeParts, ConstantFacts DEF RedisInv
<1>2. Known(Client)
  BY <1>1, KnownFacts DEF RedisInv
<1>3. Reached(Client, pc[Client], job[Client], copy[Client])
  <2>2. UNCHANGED pc /\ UNCHANGED job /\ UNCHANGED copy
    BY ConstantFacts, <1>1, <1>2
       DEF LeaseEnds, LetGo, Entering, Storing, Pushing, procVars, RecordsTyped, PlacesTyped,
           Permitted
  <2> QED
    BY <1>1, <2>2, StayFacts
<1>4. /\ j \in claimed /\ overdue' = overdue \cup {j} /\ lapsed' = lapsed \cup {j}
      /\ UNCHANGED <<recordVars, queue, claimed, stalled, losses, crashes>>
  BY <1>1, <1>3, ConstantFacts
     DEF LeaseEnds, LapseInv, RedisInv, RecordsTyped, PlacesTyped, Permitted, Status, Unknown,
         Safe, Entering, Storing, procVars, Unclaim, recordVars, redisVars,
         history, losses, Lost
<1>5. TypeOK'
  <2>1. RecordsTyped'
    BY <1>1, <1>2, <1>3, <1>4, ConstantFacts
       DEF RecordsTyped, PlacesTyped, Permitted, Reached, Written, Unclaim, recordVars,
           redisVars, history, losses, Lost
  <2> QED
    BY <2>1, <1>3, TypePartsNext DEF Reached
<1>6. BuryInv' /\ GivenUpForCause' /\ LapseInv'
  BY <1>1, <1>3, <1>4
     DEF RedisInv, RecordsTyped, PlacesTyped, Permitted, BuryInv, GivenUpForCause, LapseInv,
         Reclaiming, Reached, Others, Written, Unclaim, recordVars, redisVars, history, losses, Lost
<1>7. KeepsNew(Client)
  BY <1>1, <1>2, <1>3, <1>4, ConstantFacts
     DEF RecordsTyped, PlacesTyped, Permitted, KeepsNew, Known, Unknown, Reached, Written,
         Unclaim, recordVars, redisVars, history, losses, Lost
<1>8. KeepsToken(Client)
  BY <1>1, <1>2, <1>3, <1>4, ConstantFacts
     DEF RecordsTyped, PlacesTyped, Permitted, KeepsToken, Known, Owns, Owning, Reclaiming,
         Reached, Unclaim, recordVars, redisVars, history, losses, Lost
<1>9. KeepsAttended(Client) /\ KeepsFound(Client)
  BY <1>1, <1>2, <1>3, <1>4, ConstantFacts
     DEF RecordsTyped, PlacesTyped, Permitted, KeepsAttended, KeepsFound, Deciding, Moving,
         Safe, Pushing, Unfinished, Reached, Written, Known, Unknown, Over, Unclaim,
         recordVars, redisVars, history, losses, Lost
<1> QED
  BY <1>1, <1>3, <1>5, <1>6, <1>7, <1>8, <1>9, StepKeeps DEF Reached

(* ... for a waiting or running job ...                                    *)
LEMMA TtlEndsKeeps ==
  ASSUME RedisInv, NEW j \in Job, TtlEnds(j)
  PROVE  RedisInv'
<1>1. RecordsTyped /\ PlacesTyped /\ Client \in Proc
  BY TypeParts, ConstantFacts DEF RedisInv
<1>2. Known(Client)
  BY <1>1, KnownFacts DEF RedisInv
<1>3. Reached(Client, pc[Client], job[Client], copy[Client])
  <2>2. UNCHANGED pc /\ UNCHANGED job /\ UNCHANGED copy
    BY ConstantFacts, <1>1, <1>2
       DEF TtlEnds, LetGo, Entering, Storing, Pushing, procVars, RecordsTyped, PlacesTyped,
           Permitted
  <2> QED
    BY <1>1, <2>2, StayFacts
<1>4. /\ status[j] \in {"queued", "processing"}
      /\ ttlOver'[j] = TRUE /\ \A k \in Job : k # j => ttlOver'[k] = ttlOver[k]
      /\ status'[j] \in {"none", status[j]} /\ \A k \in Job : k # j => status'[k] = status[k]
      /\ ttlOver' \in [Job -> BOOLEAN] /\ status' \in [Job -> Status]
      /\ UNCHANGED <<retries, queue, claimed, overdue, stalled, history>>
  BY <1>1, <1>3, ConstantFacts
     DEF TtlEnds, LapseInv, RedisInv, RecordsTyped, PlacesTyped, Permitted, Status, Unknown,
         Safe, Entering, Storing, procVars, Unclaim, recordVars, redisVars,
         history, losses, Lost
<1>5. TypeOK'
  <2>1. RecordsTyped'
    BY <1>1, <1>2, <1>3, <1>4, ConstantFacts
       DEF RecordsTyped, PlacesTyped, Permitted, Reached, Written, Unclaim, recordVars,
           redisVars, history, losses, Lost
  <2> QED
    BY <2>1, <1>3, TypePartsNext DEF Reached
<1>6. BuryInv' /\ GivenUpForCause' /\ LapseInv'
  BY <1>1, <1>3, <1>4
     DEF RedisInv, RecordsTyped, PlacesTyped, Permitted, BuryInv, GivenUpForCause, LapseInv,
         Reclaiming, Reached, Others, Written, Unclaim, recordVars, redisVars, history, losses, Lost
<1>7. \A k \in Job : (Unknown(k) <=> Unknown(k)')
  BY <1>1, <1>4 DEF RecordsTyped, Unknown
<1>8. KeepsNew(Client)
  <2>1. /\ UNCHANGED <<queue, claimed, stalled>>
        /\ pc'[Client] = pc[Client] /\ job'[Client] = job[Client]
    BY <1>3, <1>4 DEF Reached
  <2> QED
    BY <1>2, <1>7, <2>1 DEF KeepsNew, Known
<1>9. KeepsToken(Client)
  BY <1>1, <1>2, <1>3, <1>4, ConstantFacts
     DEF RecordsTyped, PlacesTyped, Permitted, KeepsToken, Known, Owns, Owning, Reclaiming,
         Reached, Unclaim, recordVars, redisVars, history, losses, Lost
<1>10. KeepsAttended(Client) /\ KeepsFound(Client)
  BY <1>1, <1>2, <1>3, <1>4, ConstantFacts
     DEF RecordsTyped, PlacesTyped, Permitted, KeepsAttended, KeepsFound, Deciding, Moving,
         Safe, Pushing, Unfinished, Reached, Written, Known, Unknown, Over, Unclaim,
         recordVars, redisVars, history, losses, Lost
<1> QED
  BY <1>1, <1>3, <1>5, <1>6, <1>8, <1>9, <1>10, StepKeeps DEF Reached

(* ... and for its record.                                                 *)
LEMMA RecordEndsKeeps ==
  ASSUME RedisInv, NEW j \in Job, RecordEnds(j)
  PROVE  RedisInv'
<1>1. RecordsTyped /\ PlacesTyped /\ Client \in Proc
  BY TypeParts, ConstantFacts DEF RedisInv
<1>2. Known(Client)
  BY <1>1, KnownFacts DEF RedisInv
<1>3. Reached(Client, pc[Client], job[Client], copy[Client])
  <2>2. UNCHANGED pc /\ UNCHANGED job /\ UNCHANGED copy
    BY ConstantFacts, <1>1, <1>2
       DEF RecordEnds, LetGo, Entering, Storing, Pushing, procVars, RecordsTyped, PlacesTyped,
           Permitted
  <2> QED
    BY <1>1, <2>2, StayFacts
<1>4. /\ ttlOver[j] /\ status'[j] = "none" /\ \A k \in Job : k # j => status'[k] = status[k]
      /\ status' \in [Job -> Status]
      /\ UNCHANGED <<retries, ttlOver, queue, claimed, overdue, stalled, history>>
  BY <1>1, <1>3, ConstantFacts
     DEF RecordEnds, LapseInv, RedisInv, RecordsTyped, PlacesTyped, Permitted, Status,
         Unknown, Safe, Entering, Storing, procVars, Unclaim, recordVars, redisVars,
         history, losses, Lost
<1>5. TypeOK'
  <2>1. RecordsTyped'
    BY <1>1, <1>2, <1>3, <1>4, ConstantFacts
       DEF RecordsTyped, PlacesTyped, Permitted, Reached, Written, Unclaim, recordVars,
           redisVars, history, losses, Lost
  <2> QED
    BY <2>1, <1>3, TypePartsNext DEF Reached
<1>6. BuryInv' /\ GivenUpForCause' /\ LapseInv'
  BY <1>1, <1>3, <1>4
     DEF RedisInv, RecordsTyped, PlacesTyped, Permitted, BuryInv, GivenUpForCause, LapseInv,
         Reclaiming, Reached, Others, Written, Unclaim, recordVars, redisVars, history, losses, Lost
<1>7. KeepsNew(Client)
  BY <1>1, <1>2, <1>3, <1>4, ConstantFacts
     DEF RecordsTyped, PlacesTyped, Permitted, KeepsNew, Known, Unknown, Reached, Written,
         Unclaim, recordVars, redisVars, history, losses, Lost
<1>8. KeepsToken(Client)
  BY <1>1, <1>2, <1>3, <1>4, ConstantFacts
     DEF RecordsTyped, PlacesTyped, Permitted, KeepsToken, Known, Owns, Owning, Reclaiming,
         Reached, Unclaim, recordVars, redisVars, history, losses, Lost
<1>9. KeepsAttended(Client) /\ KeepsFound(Client)
  BY <1>1, <1>2, <1>3, <1>4, ConstantFacts
     DEF RecordsTyped, PlacesTyped, Permitted, KeepsAttended, KeepsFound, Deciding, Moving,
         Safe, Pushing, Unfinished, Reached, Written, Known, Unknown, Over, Unclaim,
         recordVars, redisVars, history, losses, Lost
<1> QED
  BY <1>1, <1>3, <1>5, <1>6, <1>7, <1>8, <1>9, StepKeeps DEF Reached

-----------------------------------------------------------------------------
LEMMA RedisInitInv == Init => RedisInv
<1> SUFFICES ASSUME Init PROVE RedisInv
  OBVIOUS
<1>1. RecordsTyped /\ PlacesTyped
  BY QueueAssumption, ConstantFacts
     DEF Init, RecordsTyped, PlacesTyped, Permitted, Status, ClientPoint, WorkerPoint
<1>2. BuryInv /\ GivenUpForCause /\ NewInv /\ LapseInv
  BY ConstantFacts DEF Init, BuryInv, GivenUpForCause, NewInv, LapseInv, Unknown, Reclaiming
<1>3. TokenInv /\ AttendedInv /\ LostForCause
  BY ConstantFacts DEF Init, TokenInv, Owns, Owning, AttendedInv, LostForCause, Unfinished
<1> QED
  BY <1>1, <1>2, <1>3, TypeParts DEF RedisInv

LEMMA RedisStepInv == RedisInv /\ [Next]_vars => RedisInv'
<1> SUFFICES ASSUME RedisInv, [Next]_vars PROVE RedisInv'
  OBVIOUS
<1>1. CASE UNCHANGED vars
  <2>1. RecordsTyped /\ PlacesTyped /\ Client \in Proc
    BY TypeParts, ConstantFacts DEF RedisInv
  <2>2. RecordsTyped' /\ PlacesTyped'
    BY <1>1, <2>1
       DEF vars, redisVars, recordVars, procVars, history, losses, Lost, RecordsTyped, PlacesTyped
  <2>3. BuryInv' /\ GivenUpForCause' /\ NewInv' /\ LapseInv' /\ TokenInv'
    BY <1>1 DEF RedisInv, vars, redisVars, recordVars, procVars, history, losses, Lost, BuryInv,
         GivenUpForCause, NewInv, Unknown, LapseInv, TokenInv, Owns
  <2>4. AttendedInv' /\ LostForCause'
    BY <1>1 DEF RedisInv, vars, redisVars, recordVars, procVars, history, losses, Lost, AttendedInv,
         Attended, Deciding, Moving, LostForCause, Reachable, Unfinished
  <2> QED
    BY <2>2, <2>3, <2>4, TypePartsNext DEF RedisInv
<1>2. CASE \E p \in Proc : Enqueue(p)
  BY <1>2, CountKeeps, RefuseKeeps, StoreKeeps, PushKeeps DEF Enqueue
<1>3. CASE \E w \in Worker : Dequeue(w)
  BY <1>3, ReadClaimsKeeps, DropClaimKeeps, ReadStalledKeeps, ReadHeadKeeps, DiscardKeeps,
     PopKeeps, MarkKeeps, ClaimKeeps DEF Dequeue
<1>4. CASE \E w \in Worker : End(w) \/ Crash(w)
  BY <1>4, ReleaseKeeps, ReadEndedKeeps, CompleteKeeps, BuryKeeps, CrashKeeps DEF End
<1>5. CASE \E j \in Job : Submit(j) \/ ReadCancelled(j)
  BY <1>5, SubmitKeeps, ReadCancelledKeeps
<1>6. CASE \E j \in Job : LeaseEnds(j) \/ TtlEnds(j) \/ RecordEnds(j)
  BY <1>6, LeaseEndsKeeps, TtlEndsKeeps, RecordEndsKeeps
<1>7. CASE Withdraw \/ Cancel
  BY <1>7, WithdrawKeeps, CancelKeeps
<1> QED
  BY <1>1, <1>2, <1>3, <1>4, <1>5, <1>6, <1>7 DEF Next

(* The inductive invariant of the Redis queue (job_queue.py, RedisQueueBackend) *)
(* holds whatever the processes do and wherever they die.                  *)
THEOREM RedisQueueInvariant == Spec => []RedisInv
BY RedisInitInv, RedisStepInv, PTL DEF Spec

(* Every process is at a point of its own methods with a job to work on, and *)
(* retries stay within the budget also when written from a stale copy.     *)
THEOREM RedisQueueTyped == Spec => []TypeOK
<1>1. RedisInv => TypeOK
  BY DEF RedisInv
<1> QED
  BY <1>1, RedisQueueInvariant, PTL

(* A job is in the dead letter list only with its retries spent or after the *)
(* queue refused it back.                                                  *)
THEOREM RedisQueueGivesUpForCause == Spec => []GivenUpForCause
<1>1. RedisInv => GivenUpForCause
  BY DEF RedisInv
<1> QED
  BY <1>1, RedisQueueInvariant, PTL

(* Two workers run the same job only if its claim was once overdue: zrem hands *)
(* the job's one token to one worker, however many read it at the head.    *)
THEOREM RedisQueueLease == Spec => []LeaseExclusive
<1>1. RedisInv => LeaseExclusive
  <2> SUFFICES ASSUME RedisInv, NEW v \in Worker, NEW w \in Worker,
                      v # w, pc[v] = "run", pc[w] = "run", job[v] = job[w],
                      job[v] \notin lapsed
               PROVE  FALSE
    BY DEF LeaseExclusive
  <2>1. v \in Proc /\ w \in Proc /\ job[v] \in Job
    BY ConstantFacts DEF RedisInv, TypeOK
  <2>2. Owns(v, job[v]) /\ Owns(w, job[v])
    BY DEF Owns, Owning
  <2> QED
    BY <2>1, <2>2 DEF RedisInv, TokenInv
<1> QED
  BY <1>1, RedisQueueInvariant, PTL

(* A job that should still run is where a worker finds it, or in the hands of a *)
(* process that will put it there, unless its worker died between two commands, *)
(* a full queue did not take it back from a dead worker, or a late removal of   *)
(* its expired entry hit the renewed one. A refused retry does not lose it.     *)
THEOREM RedisQueueLosesForCause == Spec => []LostForCause
<1>1. RedisInv => LostForCause
  BY DEF RedisInv
<1> QED
  BY <1>1, RedisQueueInvariant, PTL

=============================================================================
