---------------------------- MODULE JobLifecycle ----------------------------
(***************************************************************************)
(* What a client of a job queue may rely on (QueueBackend, job_queue.py):  *)
(* a job waits, is started with a budget of attempts, may wait again after *)
(* an attempt has failed, and once it is over it is never started again.   *)
(* A queue that drops, revives or double-starts jobs is not one of these.  *)
(***************************************************************************)
EXTENDS Naturals

CONSTANTS Job, MaxRetries

VARIABLES phase,   \* where each job is: new, waiting, running, over
          tries    \* how often it was started

jobVars == <<phase, tries>>

Phase == {"new", "waiting", "running", "over"}

Accepted(j) == phase[j] = "new" /\ phase'[j] = "waiting" /\ tries'[j] = tries[j]

Started(j) == /\ phase[j] = "waiting" /\ phase'[j] = "running"
              /\ tries[j] <= MaxRetries /\ tries'[j] = tries[j] + 1

PutBack(j) == /\ phase[j] = "running" /\ phase'[j] = "waiting"
              /\ tries[j] <= MaxRetries /\ tries'[j] = tries[j]

Ended(j) == /\ phase[j] \in {"waiting", "running"} /\ phase'[j] = "over"
            /\ tries'[j] = tries[j]

Stays(j) == phase'[j] = phase[j] /\ tries'[j] = tries[j]

Move(j) == Accepted(j) \/ Started(j) \/ PutBack(j) \/ Ended(j) \/ Stays(j)

Init == /\ phase = [j \in Job |-> "new"]
        /\ tries = [j \in Job |-> 0]

Next == /\ phase' \in [Job -> Phase] /\ tries' \in [Job -> Nat]
        /\ \A j \in Job : Move(j)

Spec == Init /\ [][Next]_jobVars
=============================================================================
