---------------------------- MODULE ModelGateway -----------------------------
(***************************************************************************)
(* NebiusModelGateway.generate (model_gateway/nebius.py) under its         *)
(* ConcurrencyAndCostController (model_gateway/circuit_breaker.py): the    *)
(* circuit breaker, the budget, the cache and the semaphore that all calls *)
(* of the process share.                                                   *)
(*                                                                         *)
(* Breaker, budget and cache are looked at once, before the call waits for *)
(* the HTTP client, the model's name and the semaphore; what the provider  *)
(* answers changes them at any later time, for every call.                 *)
(***************************************************************************)
EXTENDS Naturals, FiniteSets

CONSTANTS Generation,     \* calls of generate
          NoGeneration,
          Prompt,         \* cache keys: task and redacted prompt
          MaxConcurrent,  \* permits of the semaphore
          Threshold,      \* failure_threshold
          Budget,         \* daily_budget_limit, in units of Price
          Price,          \* cost of one answer
          MaxPosts        \* nebius_max_retries + 1: attempts per call

ASSUME GatewayAssumption ==
  /\ IsFiniteSet(Generation) /\ NoGeneration \notin Generation
  /\ MaxConcurrent \in Nat \ {0} /\ Threshold \in Nat \ {0}
  /\ Budget \in Nat /\ Price \in Nat /\ MaxPosts \in Nat \ {0}

VARIABLES breaker,   \* _state
          failures,  \* _consecutive_failures
          rested,    \* is the last failure longer ago than the recovery timeout?
          spent,     \* _cumulative_cost
          cache,     \* the call whose response is cached for each prompt
          phase,     \* where each call is
          prompt,    \* what it asks
          posts,     \* attempts it has failed
          result,    \* the call whose response it returned
          peak       \* history: the most calls that were ever under way at a time

controllerVars == <<breaker, failures, rested, spent, cache>>
callVars       == <<phase, prompt, posts, result>>
gatewayVars    == <<controllerVars, callVars, peak>>

Permitted == {"posting", "backoff"}
UnderWay  == {"admitted"} \cup Permitted

GatewayInit ==
  /\ breaker = "CLOSED" /\ failures = 0 /\ rested = FALSE /\ spent = 0
  /\ cache = [k \in Prompt |-> NoGeneration]
  /\ phase = [g \in Generation |-> "idle"] /\ prompt \in [Generation -> Prompt]
  /\ posts = [g \in Generation |-> 0] /\ result = [g \in Generation |-> NoGeneration]
  /\ peak = 0

-----------------------------------------------------------------------------
In(P)     == {g \in Generation : phase[g] \in P}
Becomes(g, p) == phase' = [phase EXCEPT ![g] = p]

(* The state property: looking at an OPEN breaker after the recovery       *)
(* timeout makes it HALF_OPEN.                                             *)
Looked == IF breaker = "OPEN" /\ rested THEN "HALF_OPEN" ELSE breaker

(* record_failure, record_success                                          *)
RecordFailure ==
  /\ failures' = failures + 1 /\ rested' = FALSE
  /\ breaker' = IF failures + 1 >= Threshold THEN "OPEN" ELSE breaker
  /\ UNCHANGED <<spent, cache>>
RecordSuccessKept ==
  /\ breaker' = "CLOSED" /\ spent' = spent + Price /\ UNCHANGED <<failures, rested>>
RecordSuccess ==
  /\ failures' = 0 /\ breaker' = "CLOSED" /\ spent' = spent + Price /\ UNCHANGED rested

(* check_can_execute, when the breaker looks like b; get_cached.           *)
MayExecuteUnpriced(b) == b # "OPEN"
MayExecute(b) == b # "OPEN" /\ spent < Budget

Cached(g) == cache[prompt[g]]

(* generate up to its first await: check_can_execute, then the cache.      *)
Start(g) ==
  /\ phase[g] = "idle" /\ breaker' = Looked
  /\ \/ /\ ~MayExecute(Looked)
        /\ Becomes(g, "failed") /\ UNCHANGED <<result, peak>>
     \/ /\ MayExecute(Looked) /\ Cached(g) # NoGeneration
        /\ Becomes(g, "done") /\ result' = [result EXCEPT ![g] = Cached(g)]
        /\ UNCHANGED peak
     \/ /\ MayExecute(Looked) /\ Cached(g) = NoGeneration
        /\ Becomes(g, "admitted") /\ UNCHANGED result
        /\ LET n == Cardinality(In(UnderWay)) + 1 IN peak' = IF n > peak THEN n ELSE peak
  /\ UNCHANGED <<failures, rested, spent, cache, prompt, posts>>

(* The semaphore is acquired; nothing looks at the breaker again.          *)
Permit(g) ==
  /\ phase[g] = "admitted" /\ Cardinality(In(Permitted)) < MaxConcurrent
  /\ Becomes(g, "posting")
  /\ UNCHANGED <<controllerVars, prompt, posts, result, peak>>

(* An attempt fails: once more after a pause, or the end of the call.      *)
Retry(g) ==
  /\ posts[g] + 1 < MaxPosts
  /\ posts' = [posts EXCEPT ![g] = posts[g] + 1]
  /\ Becomes(g, "backoff")
GiveUp(g) == posts[g] + 1 >= MaxPosts /\ Becomes(g, "failed") /\ UNCHANGED posts

(* HTTP 429 counts at every attempt.                                       *)
TooMany(g) ==
  /\ phase[g] = "posting" /\ RecordFailure
  /\ Retry(g) \/ GiveUp(g)
  /\ UNCHANGED <<prompt, result, peak>>

(* HTTP 5xx: the last one is raised by raise_for_status and never counts.  *)
ServerError(g) ==
  /\ phase[g] = "posting"
  /\ Retry(g) \/ GiveUp(g)
  /\ UNCHANGED <<controllerVars, prompt, result, peak>>

(* No connection, or a timeout: counts when the call gives up.             *)
NetworkError(g) ==
  /\ phase[g] = "posting"
  /\ \/ Retry(g) /\ UNCHANGED controllerVars
     \/ GiveUp(g) /\ RecordFailure
  /\ UNCHANGED <<prompt, result, peak>>

(* HTTP 401 and 403 count and are not retried.                             *)
Denied(g) ==
  /\ phase[g] = "posting" /\ RecordFailure /\ Becomes(g, "failed")
  /\ UNCHANGED <<prompt, posts, result, peak>>

(* What ends a call without a record: another client error, an answer that *)
(* has no choices, or the caller being cancelled at any of its awaits.     *)
Drop(g) ==
  /\ phase[g] \in UnderWay /\ Becomes(g, "failed")
  /\ UNCHANGED <<controllerVars, prompt, posts, result, peak>>

Resume(g) ==
  /\ phase[g] = "backoff" /\ Becomes(g, "posting")
  /\ UNCHANGED <<controllerVars, prompt, posts, result, peak>>

(* The answer: record_success and, for registered tasks, set_cached.       *)
Succeed(g) ==
  /\ phase[g] = "posting" /\ RecordSuccess /\ Becomes(g, "done")
  /\ result' = [result EXCEPT ![g] = g]
  /\ cache' \in {cache, [cache EXCEPT ![prompt[g]] = g]}
  /\ UNCHANGED <<prompt, posts, peak>>

(* The recovery timeout ends, the status is read, a cached answer is old.  *)
Rest ==
  /\ breaker = "OPEN" /\ ~rested /\ rested' = TRUE
  /\ UNCHANGED <<breaker, failures, spent, cache, callVars, peak>>
GetStatus ==
  /\ breaker # Looked /\ breaker' = Looked
  /\ UNCHANGED <<failures, rested, spent, cache, callVars, peak>>
CacheEnds ==
  /\ \E k \in Prompt : cache[k] # NoGeneration /\ cache' = [cache EXCEPT ![k] = NoGeneration]
  /\ UNCHANGED <<breaker, failures, rested, spent, callVars, peak>>

Generate(g) ==
  \/ Start(g) \/ Permit(g)
  \/ TooMany(g) \/ ServerError(g) \/ NetworkError(g) \/ Denied(g) \/ Drop(g)
  \/ Resume(g) \/ Succeed(g)

GatewayNext == (\E g \in Generation : Generate(g)) \/ Rest \/ GetStatus \/ CacheEnds

GatewaySpec == GatewayInit /\ [][GatewayNext]_gatewayVars

-----------------------------------------------------------------------------
(* Types, and no call is past its attempts.                                *)
GatewayTypeOK ==
  /\ breaker \in {"CLOSED", "OPEN", "HALF_OPEN"} /\ rested \in BOOLEAN
  /\ failures \in Nat /\ spent \in Nat /\ peak \in Nat
  /\ cache \in [Prompt -> Generation \cup {NoGeneration}]
  /\ phase \in [Generation -> {"idle", "done", "failed"} \cup UnderWay]
  /\ prompt \in [Generation -> Prompt]
  /\ posts \in [Generation -> 0 .. MaxPosts - 1]
  /\ result \in [Generation -> Generation \cup {NoGeneration}]

(* The breaker is away from CLOSED exactly when the failures counted in a  *)
(* row have reached the threshold, although calls admitted before it       *)
(* tripped report successes and failures afterwards, in any order.         *)
TripsAtThreshold == breaker = "CLOSED" <=> failures < Threshold

(* The budget is passed by no more than what the calls under way at one    *)
(* time cost, those that wait for the semaphore included: each was         *)
(* admitted while some of the budget was left (check_can_execute).         *)
BudgetHeld ==
  peak > 0 => spent + Price * Cardinality(In(UnderWay)) < Budget + Price * peak

(* An answer from the cache is one the provider gave to the same prompt.   *)
CacheTrue ==
  \A g \in Generation : phase[g] = "done" =>
    result[g] # NoGeneration /\ phase[result[g]] = "done" /\ prompt[result[g]] = prompt[g]
=============================================================================
