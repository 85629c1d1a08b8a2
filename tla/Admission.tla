------------------------------ MODULE Admission ------------------------------
(***************************************************************************)
(* What becomes of POST /incidents requests that carry one idempotency     *)
(* key: the idempotency middleware (api/main.py, idempotency.py with its   *)
(* in-memory store), the rate limiter inside it, and the handler that      *)
(* creates the incident.                                                   *)
(*                                                                         *)
(* A record is an object that requests may still hold after the store has  *)
(* dropped it, so it is named by the request that created it: a request    *)
(* puts at most one record under the key. A step ends where the handler    *)
(* really suspends: at the request's body, in the endpoint, at the         *)
(* response.                                                               *)
(***************************************************************************)
EXTENDS Naturals, FiniteSets

CONSTANTS Request,       \* requests that carry the key
          NoRequest,
          Body,          \* what a request may ask for
          MaxPerWindow,  \* incidents that may be created in a window
          MaxActive      \* limit on active incidents

ASSUME AdmissionAssumption ==
  /\ IsFiniteSet(Request) /\ NoRequest \notin Request
  /\ MaxPerWindow \in Nat /\ MaxActive \in Nat

VARIABLES at,        \* where each request is
          body,      \* its body
          entry,     \* creator of the record under the key
          record,    \* state of the record each request created
          stored,    \* request whose response a record holds
          seen,      \* record a request found before it awaited its body
          reply,     \* how each request ended or is about to end
          replayed,  \* request whose response was replayed to each request
          incidents, \* requests whose incident was created
          recent,    \* those of them inside the current window
          expired    \* history: has a record's TTL ended?

storeVars     == <<entry, record, stored, expired>>
limitVars     == <<incidents, recent>>
requestVars   == <<at, body, seen, reply, replayed>>
admissionVars == <<storeVars, limitVars, requestVars>>

Maker     == Request \cup {NoRequest}
Executing == {"limiting", "handling", "auditing", "answering"}
Point     == {"new", "reading", "done"} \cup Executing
Reply     == {"none", "made", "refused", "error", "raised", "replayed", "conflict", "busy"}

AdmissionInit ==
  /\ at = [r \in Request |-> "new"] /\ body \in [Request -> Body]
  /\ entry = NoRequest /\ record = [r \in Request |-> "none"]
  /\ stored = [r \in Request |-> NoRequest] /\ seen = [r \in Request |-> NoRequest]
  /\ reply = [r \in Request |-> "none"] /\ replayed = [r \in Request |-> NoRequest]
  /\ incidents = {} /\ recent = {} /\ expired = FALSE

-----------------------------------------------------------------------------
(* The steps of one request.                                               *)
Goto(r, p)   == at' = [at EXCEPT ![r] = p]
EndAs(r, a)  == Goto(r, "done") /\ reply' = [reply EXCEPT ![r] = a]
AnswerAs(r, a) == Goto(r, "answering") /\ reply' = [reply EXCEPT ![r] = a]

(* check_idempotency: get, before the body has arrived.                    *)
LookUp(r) ==
  /\ at[r] = "new" /\ Goto(r, "reading")
  /\ seen' = [seen EXCEPT ![r] = entry]
  /\ UNCHANGED <<storeVars, limitVars, body, reply, replayed>>

(* set of a new PROCESSING record, after delete when one is there.         *)
PutRecord(r) ==
  /\ entry' = r
  /\ record' = [record EXCEPT ![r] = "processing"]
  /\ Goto(r, "limiting")
  /\ UNCHANGED <<stored, expired, reply, replayed>>

(* The record c decides about request r. Its state is read now, and the    *)
(* delete of a FAILED one goes by the key, whoever holds it by then.       *)
Judge(r, c) ==
  \/ /\ body[c] # body[r]
     /\ EndAs(r, "conflict") /\ UNCHANGED <<storeVars, replayed>>
  \/ /\ body[c] = body[r] /\ record[c] = "processing"
     /\ EndAs(r, "busy") /\ UNCHANGED <<storeVars, replayed>>
  \/ /\ body[c] = body[r] /\ record[c] = "completed"
     /\ EndAs(r, "replayed") /\ replayed' = [replayed EXCEPT ![r] = stored[c]]
     /\ UNCHANGED storeVars
  \/ /\ body[c] = body[r] /\ record[c] = "failed"
     /\ PutRecord(r)

(* The rest of check_idempotency: nothing suspends once the body is here.  *)
(* A request that saw no record and loses the race for set looks again.    *)
DecideUnchecked(r) ==
  /\ at[r] = "reading"
  /\ IF seen[r] = NoRequest THEN PutRecord(r) ELSE Judge(r, seen[r])
  /\ UNCHANGED <<limitVars, body, seen>>
Decide(r) ==
  /\ at[r] = "reading"
  /\ LET found == IF seen[r] = NoRequest THEN entry ELSE seen[r]
     IN  IF found = NoRequest THEN PutRecord(r) ELSE Judge(r, found)
  /\ UNCHANGED <<limitVars, body, seen>>

(* The rate limiter's middleware lets the request through, or raises: no   *)
(* handler of the application lies between it and the idempotency          *)
(* middleware, which sees the exception.                                   *)
Limit(r) ==
  /\ at[r] = "limiting"
  /\ \/ Goto(r, "handling") /\ UNCHANGED reply
     \/ EndAs(r, "raised")
  /\ UNCHANGED <<storeVars, limitVars, body, seen, replayed>>

(* _check_incident_creation_limits: the windows and the active count.      *)
WithinLimits == Cardinality(recent) < MaxPerWindow /\ Cardinality(incidents) < MaxActive

(* create_incident as far as it does not create: refusals of the user or   *)
(* the limits (4xx), a missing store (503), an exception.                  *)
Refuse(r) ==
  /\ at[r] = "handling"
  /\ \/ AnswerAs(r, "refused")
     \/ AnswerAs(r, "error")
     \/ EndAs(r, "raised")
  /\ UNCHANGED <<storeVars, limitVars, body, seen, replayed>>

(* create_incident from the limits to the audit log: check, quota, the     *)
(* incident and the counts in one step. Nothing ever lowers the counts.    *)
Create(r) ==
  /\ at[r] = "handling" /\ WithinLimits
  /\ incidents' = incidents \cup {r} /\ recent' = recent \cup {r}
  /\ Goto(r, "auditing")
  /\ UNCHANGED <<storeVars, body, seen, reply, replayed>>

(* The audit log is written, or its store raises.                          *)
Audit(r) ==
  /\ at[r] = "auditing"
  /\ AnswerAs(r, "made") \/ EndAs(r, "raised")
  /\ UNCHANGED <<storeVars, limitVars, body, seen, replayed>>

(* The middleware with the response: update or delete, by the key.         *)
StoreAs(r, st) ==
  IF entry = NoRequest THEN UNCHANGED <<record, stored>>
  ELSE /\ record' = [record EXCEPT ![entry] = st]
       /\ stored' = [stored EXCEPT ![entry] = r]
SaveKeepsError(r) ==
  /\ at[r] = "answering" /\ Goto(r, "done")
  /\ \/ reply[r] = "made" /\ StoreAs(r, "completed") /\ UNCHANGED entry
     \/ reply[r] = "refused" /\ StoreAs(r, "failed") /\ UNCHANGED entry
     \/ reply[r] = "error" /\ UNCHANGED <<entry, record, stored>>
  /\ UNCHANGED <<expired, limitVars, body, seen, reply, replayed>>
SaveCompleted(r) ==
  /\ at[r] = "answering" /\ Goto(r, "done")
  /\ \/ reply[r] \in {"made", "refused"} /\ StoreAs(r, "completed") /\ UNCHANGED entry
     \/ reply[r] = "error" /\ entry' = NoRequest /\ UNCHANGED <<record, stored>>
  /\ UNCHANGED <<expired, limitVars, body, seen, reply, replayed>>
Save(r) ==
  /\ at[r] = "answering" /\ Goto(r, "done")
  /\ \/ reply[r] = "made" /\ StoreAs(r, "completed") /\ UNCHANGED entry
     \/ reply[r] = "refused" /\ StoreAs(r, "failed") /\ UNCHANGED entry
     \/ reply[r] = "error" /\ entry' = NoRequest /\ UNCHANGED <<record, stored>>
  /\ UNCHANGED <<expired, limitVars, body, seen, reply, replayed>>

(* The TTL of the record under the key ends and get or the cleanup drops   *)
(* it.                                                                     *)
Expire ==
  /\ entry # NoRequest /\ entry' = NoRequest /\ expired' = TRUE
  /\ UNCHANGED <<record, stored, limitVars, requestVars>>

(* The window of the creation limits slides past what was created.         *)
WindowPasses ==
  /\ recent # {} /\ recent' = {}
  /\ UNCHANGED <<incidents, storeVars, requestVars>>

Proceed(r) ==
  \/ LookUp(r)
  \/ Decide(r)
  \/ Limit(r)
  \/ Refuse(r)
  \/ Create(r)
  \/ Audit(r)
  \/ Save(r)

AdmissionNext == (\E r \in Request : Proceed(r)) \/ Expire \/ WindowPasses

AdmissionSpec == AdmissionInit /\ [][AdmissionNext]_admissionVars

-----------------------------------------------------------------------------
(* Types; an incident is created only by a request that passed the key.    *)
AdmissionTypeOK ==
  /\ at \in [Request -> Point] /\ body \in [Request -> Body]
  /\ entry \in Maker /\ record \in [Request -> {"none", "processing", "completed", "failed"}]
  /\ stored \in [Request -> Maker] /\ seen \in [Request -> Maker]
  /\ reply \in [Request -> Reply] /\ replayed \in [Request -> Maker]
  /\ recent \subseteq incidents /\ incidents \subseteq Request
  /\ expired \in BOOLEAN
  /\ entry # NoRequest => record[entry] # "none"
  /\ \A r \in Request : seen[r] # NoRequest => record[seen[r]] # "none"

Answered(a) == \E r \in Request : reply[r] = a

(* One key makes one incident: several requests with the key pass the      *)
(* store only when a record's TTL has ended or an earlier answer was an    *)
(* error (4xx or 5xx), which invites a retry. Otherwise neither a race for *)
(* the record nor a record read before the body arrived lets a second one  *)
(* through (check_idempotency).                                            *)
Admitted(r) == at[r] \in Executing \/ reply[r] \in {"made", "refused", "error", "raised"}
AtMostOnce ==
  \A r, s \in Request :
    Admitted(r) /\ Admitted(s) /\ r # s
      => expired \/ Answered("refused") \/ Answered("error")

(* What a replay repeats is the answer to a request that created its       *)
(* incident and asked for the same; an answer to another body can only get *)
(* there when the key changed hands while that request was at work, after  *)
(* a TTL or a server error (save_idempotent_response goes by the key).     *)
ReplayTrue ==
  \A r \in Request : reply[r] = "replayed" =>
    /\ replayed[r] \in incidents /\ reply[replayed[r]] = "made"
    /\ body[replayed[r]] = body[r] \/ expired \/ Answered("error")

(* A record says PROCESSING only while its request is executing, or when   *)
(* that ended in an exception: refused by the rate limiter, or raised in   *)
(* the endpoint (idempotency_middleware).                                  *)
StuckForCause ==
  entry # NoRequest /\ record[entry] = "processing"
    => at[entry] \in Executing \/ reply[entry] = "raised"

(* The comment in idempotency_middleware: a retry is not permanently       *)
(* rejected by a record stuck in the PROCESSING state.                     *)
NoKeyStuck ==
  entry # NoRequest /\ record[entry] = "processing" => at[entry] \in Executing
=============================================================================
