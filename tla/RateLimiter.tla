----------------------------- MODULE RateLimiter -----------------------------
(***************************************************************************)
(* The sliding-window-log rate limiter (rate_limit.py) for one key and one *)
(* policy of several windows: InMemoryRateLimiter, which checks and        *)
(* consumes in one step, and RedisRateLimiter, whose script is atomic but  *)
(* works with the time its caller read before it was sent. MaxDelay is the *)
(* longest such trip: 0 for the first; nothing in the code bounds it for   *)
(* the second, so what is shown holds for any length of it.                *)
(*                                                                         *)
(* A call leaves its cost in each log as that many entries of one time, so *)
(* a log is here the set of calls whose entries it holds.                  *)
(***************************************************************************)
EXTENDS Naturals, FiniteSets

CONSTANTS Call,      \* calls of check_limit
          Window,    \* the policy's windows
          LimitOf,   \* limit of each window, in units of cost
          LengthOf,  \* its window_seconds
          Cost,      \* the policy's cost
          MaxDelay,  \* longest time from reading the clock to the check
          MaxClock   \* bound: the clock stops there

ASSUME LimiterAssumption ==
  /\ IsFiniteSet(Call)
  /\ LimitOf \in [Window -> Nat] /\ LengthOf \in [Window -> Nat \ {0}]
  /\ Cost \in Nat \ {0} /\ MaxDelay \in Nat /\ MaxClock \in Nat

VARIABLES now,      \* the time
          log,      \* log of each window
          checking, \* state of each call
          stamp,    \* the time it read
          ran       \* the time of its check

limiterVars == <<now, log, checking, stamp, ran>>

Checked == {"allowed", "denied", "unchecked"}

LimiterInit ==
  /\ now = 0
  /\ log = [w \in Window |-> {}]
  /\ checking = [c \in Call |-> "new"]
  /\ stamp = [c \in Call |-> 0] /\ ran = [c \in Call |-> 0]

-----------------------------------------------------------------------------
Outcome(c, o) == checking' = [checking EXCEPT ![c] = o] /\ ran' = [ran EXCEPT ![c] = now]

(* time.time(), then the trip to the log. The hosts' clocks agree.         *)
ReadClock(c) ==
  /\ checking[c] = "new"
  /\ checking' = [checking EXCEPT ![c] = "sent"]
  /\ stamp' = [stamp EXCEPT ![c] = now]
  /\ UNCHANGED <<now, log, ran>>

(* What pruning with time t leaves of window w's log.                      *)
KeptSloppy(w, t) == {d \in log[w] : stamp[d] + LengthOf[w] > t + 1}
Kept(w, t) == {d \in log[w] : stamp[d] + LengthOf[w] > t}

HasRoomFor(w, t) == Cardinality(Kept(w, t)) * Cost + Cost <= LimitOf[w]

(* check_limit: prune every window, and consume the cost in all of them    *)
(* only when every one has room.                                           *)
CheckEager(c) ==
  /\ checking[c] = "sent"
  /\ LET t == stamp[c]
     IN  /\ Outcome(c, IF \A w \in Window : HasRoomFor(w, t) THEN "allowed" ELSE "denied")
         /\ log' = [w \in Window |-> Kept(w, t) \cup (IF HasRoomFor(w, t) THEN {c} ELSE {})]
  /\ UNCHANGED <<now, stamp>>
Check(c) ==
  /\ checking[c] = "sent"
  /\ LET t == stamp[c]
     IN  \/ /\ \A w \in Window : HasRoomFor(w, t)
            /\ Outcome(c, "allowed")
            /\ log' = [w \in Window |-> Kept(w, t) \cup {c}]
         \/ /\ \E w \in Window : ~HasRoomFor(w, t)
            /\ Outcome(c, "denied")
            /\ log' = [w \in Window |-> Kept(w, t)]
  /\ UNCHANGED <<now, stamp>>

(* The backend fails and the limiter fails open: the call goes ahead       *)
(* without being counted.                                                  *)
FailOpen(c) ==
  /\ checking[c] = "sent" /\ Outcome(c, "unchecked")
  /\ UNCHANGED <<now, log, stamp>>

(* Time passes, but a call that was sent is answered within MaxDelay.      *)
Tick ==
  /\ now < MaxClock /\ now' = now + 1
  /\ \A c \in Call : checking[c] = "sent" => now < stamp[c] + MaxDelay
  /\ UNCHANGED <<log, checking, stamp, ran>>

LimiterNext ==
  \/ \E c \in Call : ReadClock(c) \/ Check(c) \/ FailOpen(c)
  \/ Tick

LimiterSpec == LimiterInit /\ [][LimiterNext]_limiterVars

-----------------------------------------------------------------------------
(* Types, and no clock is ahead of the time.                               *)
LimiterTypeOK ==
  /\ now \in 0 .. MaxClock
  /\ log \in [Window -> SUBSET Call]
  /\ checking \in [Call -> {"new", "sent"} \cup Checked]
  /\ stamp \in [Call -> 0 .. MaxClock] /\ ran \in [Call -> 0 .. MaxClock]
  /\ \A c \in Call : /\ stamp[c] <= now /\ ran[c] <= now
                     /\ checking[c] = "sent" => now <= stamp[c] + MaxDelay
                     /\ checking[c] = "allowed" => stamp[c] <= ran[c] /\ ran[c] <= stamp[c] + MaxDelay

(* Calls that window w's log allowed in the interval that ends at t and is *)
(* MaxDelay shorter than the window.                                       *)
AllowedUpTo(w, t) ==
  {c \in Call : checking[c] = "allowed" /\ ran[c] <= t /\ ran[c] + LengthOf[w] > t + MaxDelay}

(* No window ever lets more through than its limit: however calls overtake *)
(* each other on their way to the log, what is allowed within any interval *)
(* as long as the window, less the longest delay, costs at most the limit. *)
(* (Calls that fail open are not counted.) check_limit, the Lua script.    *)
WindowsHold ==
  \A w \in Window, t \in 0 .. MaxClock :
    t <= now => Cardinality(AllowedUpTo(w, t)) * Cost <= LimitOf[w]

(* A call that was denied by one window burns no quota in another, and one *)
(* that was allowed counts in all of them until they slide past it: no     *)
(* window forgets it for the sake of a call with another clock.            *)
CountedEverywhere ==
  \A c \in Call, w \in Window :
    /\ c \in log[w] => checking[c] = "allowed"
    /\ checking[c] = "allowed" /\ stamp[c] + LengthOf[w] > now => c \in log[w]
=============================================================================
