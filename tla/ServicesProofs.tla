---------------------------- MODULE ServicesProofs ----------------------------
(***************************************************************************)
(* What each service promises to everyone who uses it at the same time:    *)
(* the rate limiter keeps its windows, for any policy, any number of calls *)
(* and any bound on the delay of a check; the slots of a scope neither     *)
(* leak nor vanish, for any tasks, owners and limit; the breaker, budget   *)
(* and cache of the model gateway hold for any number of calls, permits,   *)
(* attempts and prices; a key makes one incident, for any requests; and a  *)
(* package that is READY has an archive, the one that was sealed as long   *)
(* as builds follow each other, for any number of requests and candidates. *)
(***************************************************************************)
EXTENDS ApiServices, FiniteSetTheorems, TLAPS

(* The rate limiter.                                                       *)

LEMMA CostGrows ==
  ASSUME NEW m \in Nat, NEW n \in Nat, m <= n
  PROVE  m * Cost <= n * Cost
BY LimiterAssumption

LEMMA CallSubset ==
  ASSUME NEW S \in SUBSET Call
  PROVE  IsFiniteSet(S) /\ Cardinality(S) \in Nat
BY FS_Subset, FS_CardinalityType, LimiterAssumption

LEMMA CallCount ==
  ASSUME NEW S \in SUBSET Call, NEW T \in SUBSET S
  PROVE  Cardinality(T) <= Cardinality(S)
BY FS_Subset, CallSubset

-----------------------------------------------------------------------------
LEMMA LimiterTypingInit == LimiterInit => LimiterTypeOK
BY LimiterAssumption DEF LimiterInit, LimiterTypeOK

LEMMA LimiterTypingKept == LimiterTypeOK /\ [LimiterNext]_limiterVars => LimiterTypeOK'
<1> SUFFICES ASSUME LimiterTypeOK, [LimiterNext]_limiterVars PROVE LimiterTypeOK'
  OBVIOUS
<1> USE LimiterAssumption DEF LimiterTypeOK, Checked
<1>1. ASSUME NEW c \in Call, ReadClock(c) PROVE LimiterTypeOK'
  BY <1>1 DEF ReadClock
<1>2. ASSUME NEW c \in Call, Check(c) PROVE LimiterTypeOK'
  <2>1. log' \in [Window -> SUBSET Call]
    BY <1>2 DEF Check, Kept
  <2>2. PICK o \in Checked : Outcome(c, o)
    BY <1>2 DEF Check
  <2> QED
    BY <1>2, <2>1, <2>2 DEF Check, Outcome
<1>3. ASSUME NEW c \in Call, FailOpen(c) PROVE LimiterTypeOK'
  BY <1>3 DEF FailOpen, Outcome
<1>4. ASSUME Tick PROVE LimiterTypeOK'
  BY <1>4 DEF Tick
<1>5. CASE UNCHANGED limiterVars
  BY <1>5 DEF limiterVars
<1> QED
  BY <1>1, <1>2, <1>3, <1>4, <1>5 DEF LimiterNext

-----------------------------------------------------------------------------
LEMMA CountedInit == LimiterInit => CountedEverywhere
BY DEF LimiterInit, CountedEverywhere

LEMMA CountedKept ==
  LimiterTypeOK /\ CountedEverywhere /\ [LimiterNext]_limiterVars => CountedEverywhere'
<1> SUFFICES ASSUME LimiterTypeOK, CountedEverywhere, [LimiterNext]_limiterVars
             PROVE  CountedEverywhere'
  OBVIOUS
<1> USE LimiterAssumption DEF LimiterTypeOK, CountedEverywhere
<1>1. ASSUME NEW c \in Call, ReadClock(c) PROVE CountedEverywhere'
  BY <1>1 DEF ReadClock
<1>2. ASSUME NEW c \in Call, Check(c) PROVE CountedEverywhere'
  (* Pruning with a time that is not ahead of the clock drops no call      *)
  (* whose window is still open.                                           *)
  <2>1. \A w \in Window, d \in Call :
          d \in log[w] /\ stamp[d] + LengthOf[w] > now => d \in Kept(w, stamp[c])
    BY DEF Kept
  <2>2. \A w \in Window : Kept(w, stamp[c]) \subseteq log[w]
    BY DEF Kept
  <2>3. CASE Outcome(c, "allowed") /\ log' = [w \in Window |-> Kept(w, stamp[c]) \cup {c}]
    BY <1>2, <2>1, <2>2, <2>3 DEF Check, Outcome
  <2>4. CASE Outcome(c, "denied") /\ log' = [w \in Window |-> Kept(w, stamp[c])]
    BY <1>2, <2>1, <2>2, <2>4 DEF Check, Outcome
  <2> QED
    BY <1>2, <2>3, <2>4 DEF Check
<1>3. ASSUME NEW c \in Call, FailOpen(c) PROVE CountedEverywhere'
  BY <1>3 DEF FailOpen, Outcome
<1>4. ASSUME Tick PROVE CountedEverywhere'
  BY <1>4 DEF Tick
<1>5. CASE UNCHANGED limiterVars
  BY <1>5 DEF limiterVars
<1> QED
  BY <1>1, <1>2, <1>3, <1>4, <1>5 DEF LimiterNext

-----------------------------------------------------------------------------
LEMMA WindowsInit == LimiterInit => WindowsHold
<1> SUFFICES ASSUME LimiterInit, NEW w \in Window, NEW t \in 0 .. MaxClock
             PROVE  Cardinality(AllowedUpTo(w, t)) * Cost <= LimitOf[w]
  BY DEF WindowsHold
<1>1. AllowedUpTo(w, t) = {}
  BY DEF LimiterInit, AllowedUpTo
<1> QED
  BY <1>1, FS_EmptySet, LimiterAssumption

(* A step that allows no call and does not move the clock changes nothing. *)
LEMMA NothingAllowed ==
  ASSUME WindowsHold, UNCHANGED now,
         \A c \in Call : checking'[c] = "allowed" => checking[c] = "allowed" /\ ran'[c] = ran[c]
  PROVE  WindowsHold'
<1> SUFFICES ASSUME NEW w \in Window, NEW t \in 0 .. MaxClock, t <= now
             PROVE  Cardinality(AllowedUpTo(w, t)') * Cost <= LimitOf[w]
  BY DEF WindowsHold
<1>1. AllowedUpTo(w, t)' \in SUBSET AllowedUpTo(w, t)
  BY DEF AllowedUpTo
<1>2. AllowedUpTo(w, t) \in SUBSET Call
  BY DEF AllowedUpTo
<1>3. Cardinality(AllowedUpTo(w, t)) * Cost <= LimitOf[w]
  BY DEF WindowsHold
<1>4. /\ Cardinality(AllowedUpTo(w, t)) \in Nat /\ Cardinality(AllowedUpTo(w, t)') \in Nat
      /\ Cardinality(AllowedUpTo(w, t)') <= Cardinality(AllowedUpTo(w, t))
  BY <1>1, <1>2, CallSubset, CallCount
<1> QED
  BY <1>3, <1>4, CostGrows, LimiterAssumption

(* What the check counts is what the interval that ends now allowed.       *)
LEMMA CheckKeepsWindows ==
  ASSUME LimiterTypeOK, CountedEverywhere, WindowsHold, NEW c \in Call, Check(c)
  PROVE  WindowsHold'
<1> USE LimiterAssumption
<1>1. CASE Outcome(c, "denied")
  <2>1. UNCHANGED now /\ checking' = [checking EXCEPT ![c] = "denied"]
                      /\ ran' = [ran EXCEPT ![c] = now]
    BY <1>1 DEF Check, Outcome
  <2> QED
    BY <2>1, NothingAllowed DEF LimiterTypeOK
<1>2. CASE Outcome(c, "allowed")
  <2> SUFFICES ASSUME NEW w \in Window, NEW t \in 0 .. MaxClock, t <= now
               PROVE  Cardinality(AllowedUpTo(w, t)') * Cost <= LimitOf[w]
    BY DEF WindowsHold, Check
  <2> DEFINE Counted == Kept(w, stamp[c])
  <2>1. /\ now' = now /\ checking[c] = "sent"
        /\ checking' = [checking EXCEPT ![c] = "allowed"]
        /\ ran' = [ran EXCEPT ![c] = now]
    BY <1>2 DEF Check, Outcome
  <2>2. HasRoomFor(w, stamp[c])
    BY <1>2, <2>1 DEF Check, Outcome, LimiterTypeOK
  <2>3. Counted \in SUBSET Call /\ Cardinality(Counted) \in Nat
    BY CallSubset DEF Kept, LimiterTypeOK
  <2>4. CASE t < now
    <3>1. AllowedUpTo(w, t)' \in SUBSET AllowedUpTo(w, t)
      BY <2>1, <2>4 DEF AllowedUpTo, LimiterTypeOK
    <3>2. AllowedUpTo(w, t) \in SUBSET Call
      BY DEF AllowedUpTo
    <3>3. Cardinality(AllowedUpTo(w, t)) * Cost <= LimitOf[w]
      BY DEF WindowsHold
    <3>4. /\ Cardinality(AllowedUpTo(w, t)) \in Nat /\ Cardinality(AllowedUpTo(w, t)') \in Nat
          /\ Cardinality(AllowedUpTo(w, t)') <= Cardinality(AllowedUpTo(w, t))
      BY <3>1, <3>2, CallSubset, CallCount
    <3> QED
      BY <3>3, <3>4, CostGrows
  <2>5. CASE t = now
    <3>1. ASSUME NEW d \in AllowedUpTo(w, t)', d # c PROVE d \in Counted
      <4>1. d \in Call /\ checking[d] = "allowed" /\ ran[d] + LengthOf[w] > now + MaxDelay
        BY <2>1, <2>5, <3>1 DEF AllowedUpTo, LimiterTypeOK
      <4>2. stamp[d] + LengthOf[w] > now /\ stamp[c] <= now
        BY <4>1 DEF LimiterTypeOK
      <4> QED
        BY <4>1, <4>2 DEF CountedEverywhere, Kept, LimiterTypeOK
    <3>2. AllowedUpTo(w, t)' \in SUBSET (Counted \cup {c})
      BY <3>1
    <3>3. Counted \cup {c} \in SUBSET Call
      BY <2>3
    <3>4. Cardinality(Counted \cup {c}) <= Cardinality(Counted) + 1
      BY <2>3, CallSubset, FS_AddElement
    <3>5. /\ Cardinality(AllowedUpTo(w, t)') \in Nat
          /\ Cardinality(AllowedUpTo(w, t)') <= Cardinality(Counted \cup {c})
          /\ Cardinality(Counted \cup {c}) \in Nat
      BY <3>2, <3>3, CallSubset, CallCount
    <3>6. Cardinality(AllowedUpTo(w, t)') * Cost <= (Cardinality(Counted) + 1) * Cost
      <4> DEFINE n == Cardinality(AllowedUpTo(w, t)')
                 m == Cardinality(Counted)
      <4>1. n \in Nat /\ m + 1 \in Nat /\ n <= m + 1
        BY <3>4, <3>5, <2>3
      <4> HIDE DEF n, m
      <4>2. n * Cost <= (m + 1) * Cost
        BY <4>1, CostGrows
      <4> QED
        BY <4>2 DEF n, m
    <3>7. (Cardinality(Counted) + 1) * Cost <= LimitOf[w]
      <4> DEFINE m == Cardinality(Counted)
      <4>1. m \in Nat /\ m * Cost + Cost <= LimitOf[w]
        BY <2>2, <2>3 DEF HasRoomFor
      <4> HIDE DEF m
      <4>2. (m + 1) * Cost = m * Cost + Cost
        BY <4>1
      <4> QED
        BY <4>1, <4>2 DEF m
    <3> DEFINE n == Cardinality(AllowedUpTo(w, t)')
               k == (Cardinality(Counted) + 1) * Cost
    <3>8. n * Cost \in Nat /\ k \in Nat /\ LimitOf[w] \in Nat
      BY <3>5, <2>3
    <3> HIDE DEF n, k
    <3>9. n * Cost <= k /\ k <= LimitOf[w]
      BY <3>6, <3>7 DEF n, k
    <3>10. n * Cost <= LimitOf[w]
      BY <3>8, <3>9
    <3> QED
      BY <3>10 DEF n
  <2> QED
    BY <2>4, <2>5, <2>1 DEF LimiterTypeOK
<1> QED
  BY <1>1, <1>2 DEF Check

(* The interval that ends a moment later has allowed no more than the one  *)
(* that ended now.                                                         *)
LEMMA TickKeepsWindows ==
  ASSUME LimiterTypeOK, WindowsHold, Tick PROVE WindowsHold'
<1> SUFFICES ASSUME NEW w \in Window, NEW t \in 0 .. MaxClock, t <= now'
             PROVE  Cardinality(AllowedUpTo(w, t)') * Cost <= LimitOf[w]
  BY DEF WindowsHold
<1> DEFINE u == IF t = now' THEN now ELSE t
<1>1. u \in 0 .. MaxClock /\ u <= now
  BY DEF Tick, LimiterTypeOK
<1>2. AllowedUpTo(w, t)' \in SUBSET AllowedUpTo(w, u)
  BY LimiterAssumption DEF AllowedUpTo, Tick, LimiterTypeOK
<1>3. AllowedUpTo(w, u) \in SUBSET Call
  BY DEF AllowedUpTo
<1>4. Cardinality(AllowedUpTo(w, u)) * Cost <= LimitOf[w]
  BY <1>1 DEF WindowsHold
<1>5. /\ Cardinality(AllowedUpTo(w, u)) \in Nat /\ Cardinality(AllowedUpTo(w, t)') \in Nat
      /\ Cardinality(AllowedUpTo(w, t)') <= Cardinality(AllowedUpTo(w, u))
  BY <1>2, <1>3, CallSubset, CallCount
<1> HIDE DEF u
<1> QED
  BY <1>4, <1>5, CostGrows, LimiterAssumption

LEMMA WindowsKept ==
  LimiterTypeOK /\ CountedEverywhere /\ WindowsHold /\ [LimiterNext]_limiterVars => WindowsHold'
<1> SUFFICES ASSUME LimiterTypeOK, CountedEverywhere, WindowsHold, [LimiterNext]_limiterVars
             PROVE  WindowsHold'
  OBVIOUS
<1>1. ASSUME NEW c \in Call, ReadClock(c) PROVE WindowsHold'
  BY <1>1, NothingAllowed DEF ReadClock, LimiterTypeOK
<1>2. ASSUME NEW c \in Call, FailOpen(c) PROVE WindowsHold'
  BY <1>2, NothingAllowed DEF FailOpen, Outcome, LimiterTypeOK
<1>3. CASE UNCHANGED limiterVars
  BY <1>3, NothingAllowed DEF limiterVars
<1> QED
  BY <1>1, <1>2, <1>3, CheckKeepsWindows, TickKeepsWindows DEF LimiterNext

-----------------------------------------------------------------------------
(* Types: the time a call read never lies ahead of the clock, nor further  *)
(* behind it than the longest delay (check_limit).                         *)
THEOREM LimiterTyping == LimiterSpec => []LimiterTypeOK
BY LimiterTypingInit, LimiterTypingKept, PTL DEF LimiterSpec

(* A call counts in every window or in none, and in each until it has slid *)
(* out of it, whatever clocks the checks in between were made with.        *)
THEOREM LimiterCounts == LimiterSpec => []CountedEverywhere
BY LimiterTypingInit, LimiterTypingKept, CountedInit, CountedKept, PTL DEF LimiterSpec

(* No interval as long as a window, less the longest delay, lets more      *)
(* through than the window's limit.                                        *)
THEOREM LimiterHolds == LimiterSpec => []WindowsHold
BY LimiterTypingInit, LimiterTypingKept, CountedInit, CountedKept, WindowsInit, WindowsKept, PTL
   DEF LimiterSpec

-----------------------------------------------------------------------------
(* The slots.                                                              *)

LEMMA InsideCount ==
  ASSUME NEW o
  PROVE  IsFiniteSet(Inside(o)) /\ Cardinality(Inside(o)) \in Nat
<1>1. Inside(o) \in SUBSET Task
  BY DEF Inside
<1> QED
  BY <1>1, FS_Subset, FS_CardinalityType, SlotsAssumption

LEMMA SlotsCount ==
  ASSUME NEW S \in SUBSET Owner
  PROVE  IsFiniteSet(S) /\ Cardinality(S) \in Nat
BY FS_Subset, FS_CardinalityType, SlotsAssumption

Places == {"outside", "waiting", "inside", "gone"}

(* What a task's move does to the number of tasks inside.                  *)
LEMMA MoveElsewhere ==
  ASSUME NEW t \in Task, place \in [Task -> Places], place[t] # "inside",
         NEW p \in Places, p # "inside", Move(t, p)
  PROVE  /\ place' \in [Task -> Places]
         /\ \A o \in Owner : Inside(o)' = Inside(o)
BY DEF Move, Inside

LEMMA MoveIn ==
  ASSUME NEW t \in Task, place \in [Task -> Places], place[t] # "inside", Move(t, "inside")
  PROVE  /\ place' \in [Task -> Places]
         /\ \A o \in Owner : Cardinality(Inside(o)') =
              IF o = OwnerOf[t] THEN Cardinality(Inside(o)) + 1 ELSE Cardinality(Inside(o))
<1>1. place' \in [Task -> Places] /\ place' = [place EXCEPT ![t] = "inside"]
  BY DEF Move, Places
<1>2. ASSUME NEW o \in Owner, o # OwnerOf[t] PROVE Inside(o)' = Inside(o)
  BY <1>1, <1>2 DEF Inside
<1>3. ASSUME NEW o \in Owner, o = OwnerOf[t]
      PROVE  Inside(o)' = Inside(o) \cup {t} /\ t \notin Inside(o)
  BY <1>1, <1>3 DEF Inside
<1> QED
  BY <1>1, <1>2, <1>3, InsideCount, FS_AddElement

LEMMA MoveOut ==
  ASSUME NEW t \in Task, place \in [Task -> Places], place[t] = "inside", Move(t, "gone")
  PROVE  /\ place' \in [Task -> Places]
         /\ Cardinality(Inside(OwnerOf[t])) > 0
         /\ \A o \in Owner : Cardinality(Inside(o)') =
              IF o = OwnerOf[t] THEN Cardinality(Inside(o)) - 1 ELSE Cardinality(Inside(o))
<1>1. place' \in [Task -> Places] /\ place' = [place EXCEPT ![t] = "gone"]
  BY DEF Move, Places
<1>2. ASSUME NEW o \in Owner, o # OwnerOf[t] PROVE Inside(o)' = Inside(o)
  BY <1>1, <1>2 DEF Inside
<1>3. ASSUME NEW o \in Owner, o = OwnerOf[t]
      PROVE  Inside(o)' = Inside(o) \ {t} /\ t \in Inside(o)
  BY <1>1, <1>3 DEF Inside
<1>4. OwnerOf[t] \in Owner
  BY SlotsAssumption
<1>5. Cardinality(Inside(OwnerOf[t])) > 0
  BY <1>3, <1>4, InsideCount, FS_EmptySet
<1> QED
  BY <1>1, <1>2, <1>3, <1>5, InsideCount, FS_RemoveElement

(* How many slots there are after an owner got its first reference, or     *)
(* owners lost their last one.                                             *)
LEMMA SlotTaken ==
  ASSUME refs \in [Owner -> Nat], NEW o \in Owner, refs' = [refs EXCEPT ![o] = refs[o] + 1],
         refs[o] > 0 \/ FreeSlot, Cardinality(Slots) <= SlotLimit
  PROVE  Cardinality(Slots') <= SlotLimit
<1>1. Slots' = Slots \cup {o} /\ Slots \in SUBSET Owner
  BY DEF Slots
<1>2. refs[o] > 0 => o \in Slots
  BY DEF Slots
<1> QED
  BY <1>1, <1>2, SlotsCount, FS_AddElement, SlotsAssumption DEF FreeSlot

LEMMA SlotsLost ==
  ASSUME refs \in [Owner -> Nat], refs' \in [Owner -> Nat],
         \A o \in Owner : refs'[o] > 0 => refs[o] > 0, Cardinality(Slots) <= SlotLimit
  PROVE  Cardinality(Slots') <= SlotLimit
<1>1. Slots \in SUBSET Owner /\ Slots' \in SUBSET Slots
  BY DEF Slots
<1>2. Cardinality(Slots') <= Cardinality(Slots)
  BY <1>1, SlotsCount, FS_Subset
<1>3. Cardinality(Slots) \in Nat /\ Cardinality(Slots') \in Nat
  BY <1>1, SlotsCount
<1> QED
  BY <1>2, <1>3, SlotsAssumption

LEMMA NotifyTypes ==
  ASSUME SlotsTypeOK, Notify
  PROVE  /\ waiting' \in [Owner -> Task \cup {NoTask}] /\ woken' \subseteq Task
         /\ \A o \in Owner : waiting'[o] \in {waiting[o], NoTask}
BY DEF Notify, SlotsTypeOK

-----------------------------------------------------------------------------
(* The references of an owner that cleanup never touched are all of its    *)
(* tasks inside.                                                           *)
AllCounted == \A o \in Owner \ evicted : refs[o] >= Cardinality(Inside(o))

SlotsInv == SlotsTypeOK /\ NoSlotLeaks /\ AllCounted

LEMMA SlotsInitInv == SlotsInit => SlotsInv
<1> SUFFICES ASSUME SlotsInit PROVE SlotsInv
  OBVIOUS
<1>1. Slots = {} /\ \A o \in Owner : Inside(o) = {}
  BY DEF SlotsInit, Slots, Inside
<1>2. Cardinality(Slots) <= SlotLimit
  BY <1>1, FS_EmptySet, SlotsAssumption
<1>3. SlotsTypeOK
  BY <1>2 DEF SlotsInit, SlotsTypeOK
<1>4. NoSlotLeaks /\ AllCounted
  BY <1>1, FS_EmptySet DEF SlotsInit, NoSlotLeaks, AllCounted
<1> QED
  BY <1>3, <1>4 DEF SlotsInv

LEMMA AttemptKeeps ==
  ASSUME SlotsInv, NEW t \in Task, place[t] # "inside", Attempt(t), UNCHANGED evicted
  PROVE  SlotsInv'
<1> DEFINE o == OwnerOf[t]
<1>o. o \in Owner
  BY SlotsAssumption
<1>p. place \in [Task -> Places]
  BY DEF SlotsInv, SlotsTypeOK, Places
<1>1. CASE /\ refs[o] > 0 \/ FreeSlot
           /\ refs' = [refs EXCEPT ![o] = refs[o] + 1]
           /\ Move(t, "inside") /\ UNCHANGED <<waiting, woken>>
  <2>1. Cardinality(Slots') <= SlotLimit
    BY <1>1, <1>o, SlotTaken DEF SlotsInv, SlotsTypeOK
  <2>2. place' \in [Task -> Places]
    BY <1>1, <1>p, MoveIn
  <2>3. SlotsTypeOK'
    BY <1>1, <1>o, <2>1, <2>2 DEF SlotsInv, SlotsTypeOK, Places
  <2>4. NoSlotLeaks' /\ AllCounted'
    BY <1>1, <1>p, MoveIn, InsideCount DEF SlotsInv, SlotsTypeOK, NoSlotLeaks, AllCounted
  <2> QED
    BY <2>3, <2>4 DEF SlotsInv
<1>2. CASE /\ Move(t, "waiting") /\ waiting' = [waiting EXCEPT ![o] = t]
           /\ woken' = woken \ {t} /\ UNCHANGED refs
  <2>1. place' \in [Task -> Places] /\ \A q \in Owner : Inside(q)' = Inside(q)
    BY <1>2, <1>p, MoveElsewhere DEF Places
  <2>2. Slots' = Slots
    BY <1>2 DEF Slots
  <2>3. SlotsTypeOK'
    BY <1>2, <1>o, <2>1, <2>2 DEF SlotsInv, SlotsTypeOK, Places
  <2>4. NoSlotLeaks' /\ AllCounted'
    BY <1>2, <2>1 DEF SlotsInv, NoSlotLeaks, AllCounted
  <2> QED
    BY <2>3, <2>4 DEF SlotsInv
<1> QED
  BY <1>1, <1>2 DEF Attempt

(* The end of a wait.                                                      *)
LEMMA WaitEnds ==
  ASSUME SlotsInv, NEW t \in Task, TimeOut(t) \/ CancelWait(t)
  PROVE  SlotsInv'
<1>1. place[t] = "waiting" /\ Move(t, "gone") /\ UNCHANGED <<refs, woken, evicted>>
  BY DEF TimeOut, CancelWait
<1>2. /\ waiting' \in [Owner -> Task \cup {NoTask}]
      /\ \A o \in Owner : waiting'[o] \in {waiting[o], NoTask}
  BY SlotsAssumption DEF TimeOut, CancelWait, SlotsInv, SlotsTypeOK
<1>3. place' \in [Task -> Places] /\ \A o \in Owner : Inside(o)' = Inside(o)
  BY <1>1, MoveElsewhere DEF SlotsInv, SlotsTypeOK, Places
<1>4. Slots' = Slots
  BY <1>1 DEF Slots
<1>5. SlotsTypeOK'
  BY <1>1, <1>2, <1>3, <1>4 DEF SlotsInv, SlotsTypeOK, Places
<1>6. NoSlotLeaks' /\ AllCounted'
  BY <1>1, <1>3 DEF SlotsInv, NoSlotLeaks, AllCounted
<1> QED
  BY <1>5, <1>6 DEF SlotsInv

LEMMA LeaveKeeps ==
  ASSUME SlotsInv, NEW t \in Task, Leave(t)
  PROVE  SlotsInv'
<1> DEFINE o == OwnerOf[t]
<1>o. o \in Owner
  BY SlotsAssumption
<1>1. /\ place[t] = "inside" /\ Move(t, "gone") /\ UNCHANGED evicted
      /\ place \in [Task -> Places]
  BY DEF Leave, SlotsInv, SlotsTypeOK, Places
<1>2. /\ refs' \in [Owner -> Nat]
      /\ refs'[o] = IF refs[o] = 0 THEN 0 ELSE refs[o] - 1
      /\ \A q \in Owner : q # o => refs'[q] = refs[q]
  BY <1>o DEF Leave, SlotsInv, SlotsTypeOK
<1>3. /\ waiting' \in [Owner -> Task \cup {NoTask}] /\ woken' \subseteq Task
      /\ \A q \in Owner : waiting'[q] \in {waiting[q], NoTask}
  BY NotifyTypes DEF Leave, SlotsInv, SlotsTypeOK
<1>4. Cardinality(Slots') <= SlotLimit
  <2>1. \A q \in Owner : refs'[q] > 0 => refs[q] > 0
    BY <1>2 DEF SlotsInv, SlotsTypeOK
  <2> QED
    BY <2>1, <1>2, SlotsLost DEF SlotsInv, SlotsTypeOK
<1>5. place' \in [Task -> Places]
  BY <1>1, MoveOut
<1>6. SlotsTypeOK'
  BY <1>1, <1>2, <1>3, <1>4, <1>5 DEF SlotsInv, SlotsTypeOK, Places
<1>7. ASSUME NEW q \in Owner
      PROVE  /\ refs'[q] <= Cardinality(Inside(q)')
             /\ q \notin evicted => refs'[q] >= Cardinality(Inside(q)')
  <2>1. /\ Cardinality(Inside(q)) \in Nat /\ refs[q] \in Nat
        /\ refs[q] <= Cardinality(Inside(q))
        /\ q \notin evicted => refs[q] >= Cardinality(Inside(q))
    BY InsideCount DEF SlotsInv, SlotsTypeOK, NoSlotLeaks, AllCounted
  <2>2. CASE q = o
    <3>1. Cardinality(Inside(q)') = Cardinality(Inside(q)) - 1 /\ Cardinality(Inside(q)) > 0
      BY <1>1, <2>2, MoveOut
    <3> QED
      BY <1>2, <2>1, <2>2, <3>1
  <2>3. CASE q # o
    <3>1. Cardinality(Inside(q)') = Cardinality(Inside(q))
      BY <1>1, <2>3, MoveOut
    <3> QED
      BY <1>2, <2>1, <2>3, <3>1
  <2> QED
    BY <2>2, <2>3
<1> QED
  BY <1>1, <1>6, <1>7 DEF SlotsInv, NoSlotLeaks, AllCounted

LEMMA CleanUpKeeps ==
  ASSUME SlotsInv, NEW S \in SUBSET Owner, CleanUp(S)
  PROVE  SlotsInv'
<1>1. /\ refs' \in [Owner -> Nat]
      /\ \A o \in Owner : refs'[o] = IF o \in S THEN 0 ELSE refs[o]
  BY DEF CleanUp, SlotsInv, SlotsTypeOK
<1>2. Cardinality(Slots') <= SlotLimit
  BY <1>1, SlotsLost DEF SlotsInv, SlotsTypeOK
<1>3. UNCHANGED place /\ evicted' = evicted \cup S /\ \A o \in Owner : Inside(o)' = Inside(o)
  BY DEF CleanUp, Inside
<1>4. SlotsTypeOK'
  BY <1>1, <1>2, <1>3, NotifyTypes DEF CleanUp, SlotsInv, SlotsTypeOK
<1>5. NoSlotLeaks'
  BY <1>1, <1>3, InsideCount DEF SlotsInv, NoSlotLeaks
<1>6. AllCounted'
  BY <1>1, <1>3 DEF SlotsInv, AllCounted
<1> QED
  BY <1>4, <1>5, <1>6 DEF SlotsInv

LEMMA SlotsInvKept == SlotsInv /\ [SlotsNext]_slotsVars => SlotsInv'
<1> SUFFICES ASSUME SlotsInv, [SlotsNext]_slotsVars PROVE SlotsInv'
  OBVIOUS
<1>1. ASSUME NEW t \in Task, Acquire(t) \/ TryAgain(t) PROVE SlotsInv'
  <2>1. place[t] # "inside" /\ Attempt(t) /\ UNCHANGED evicted
    BY <1>1 DEF Acquire, TryAgain
  <2> QED
    BY <2>1, AttemptKeeps
<1>2. CASE UNCHANGED slotsVars
  BY <1>2 DEF slotsVars, SlotsInv, SlotsTypeOK, NoSlotLeaks, AllCounted, Slots, Inside
<1> QED
  BY <1>1, <1>2, WaitEnds, LeaveKeeps, CleanUpKeeps DEF SlotsNext

LEMMA SlotsInvCovers == SlotsInv => HoldersCovered
<1> SUFFICES ASSUME SlotsInv PROVE HoldersCovered
  OBVIOUS
<1>1. ASSUME NEW o \in Owner \ evicted, Inside(o) # {} PROVE refs[o] > 0
  <2>1. Cardinality(Inside(o)) \in Nat /\ Cardinality(Inside(o)) # 0
    BY <1>1, InsideCount, FS_EmptySet
  <2> QED
    BY <2>1 DEF SlotsInv, SlotsTypeOK, AllCounted
<1>2. ASSUME evicted = {} PROVE Cardinality({o \in Owner : Inside(o) # {}}) <= SlotLimit
  <2> DEFINE Holders == {o \in Owner : Inside(o) # {}}
  <2>1. Holders \in SUBSET Slots /\ Slots \in SUBSET Owner
    BY <1>1, <1>2 DEF Slots
  <2>2. Cardinality(Holders) <= Cardinality(Slots)
    BY <2>1, SlotsCount, FS_Subset
  <2>3. Cardinality(Holders) \in Nat /\ Cardinality(Slots) \in Nat
    BY <2>1, SlotsCount
  <2>4. Cardinality(Slots) <= SlotLimit
    BY DEF SlotsInv, SlotsTypeOK
  <2> HIDE DEF Holders
  <2>5. Cardinality(Holders) <= SlotLimit
    BY <2>2, <2>3, <2>4, SlotsAssumption
  <2> QED
    BY <2>5 DEF Holders
<1> QED
  BY <1>1, <1>2 DEF HoldersCovered

-----------------------------------------------------------------------------
(* Types, and the scope never holds more slots than its limit (acquire).   *)
THEOREM SlotsTyping == SlotsSpec => []SlotsTypeOK
<1>1. SlotsInv => SlotsTypeOK
  BY DEF SlotsInv
<1> QED
  BY <1>1, SlotsInitInv, SlotsInvKept, PTL DEF SlotsSpec

(* Every reference is a task inside: release is called on every way out    *)
(* and cannot be called too often.                                         *)
THEOREM SlotsDoNotLeak == SlotsSpec => []NoSlotLeaks
<1>1. SlotsInv => NoSlotLeaks
  BY DEF SlotsInv
<1> QED
  BY <1>1, SlotsInitInv, SlotsInvKept, PTL DEF SlotsSpec

(* A task inside is covered by a slot of its owner, unless cleanup_stale   *)
(* took one from that owner.                                               *)
THEOREM SlotsCoverHolders == SlotsSpec => []HoldersCovered
BY SlotsInitInv, SlotsInvKept, SlotsInvCovers, PTL DEF SlotsSpec

-----------------------------------------------------------------------------
(* The model gateway.                                                      *)

LEMMA CallsFinite ==
  ASSUME NEW S \in SUBSET Generation
  PROVE  IsFiniteSet(S) /\ Cardinality(S) \in Nat
BY FS_Subset, FS_CardinalityType, GatewayAssumption

LEMMA UnderWayCount == Cardinality(In(UnderWay)) \in Nat
BY CallsFinite DEF In

LEMMA PriceGrows ==
  ASSUME NEW m \in Nat, NEW n \in Nat, m <= n
  PROVE  Price * m <= Price * n /\ Price * m \in Nat /\ Price * n \in Nat
BY GatewayAssumption

LEMMA PriceOfOneMore ==
  ASSUME NEW m \in Nat PROVE Price * (m + 1) = Price * m + Price
BY GatewayAssumption

-----------------------------------------------------------------------------
(* Steps of a call that neither start it nor bring its answer.             *)
Waits(g) ==
  \/ Permit(g) \/ TooMany(g) \/ ServerError(g) \/ NetworkError(g)
  \/ Denied(g) \/ Drop(g) \/ Resume(g)

LEMMA WaitsFacts ==
  ASSUME GatewayTypeOK, NEW g \in Generation, Waits(g)
  PROVE  /\ phase[g] \in UnderWay
         /\ \E p \in UnderWay \cup {"failed"} : phase' = [phase EXCEPT ![g] = p]
         /\ posts' \in [Generation -> 0 .. MaxPosts - 1]
         /\ UNCHANGED <<controllerVars>> \/ RecordFailure
         /\ UNCHANGED <<spent, cache, prompt, result, peak>>
<1> USE GatewayAssumption
    DEF UnderWay, Permitted, Becomes, GatewayTypeOK, controllerVars, RecordFailure
<1>1. ASSUME Retry(g) \/ GiveUp(g), phase[g] = "posting"
      PROVE  /\ \E p \in UnderWay \cup {"failed"} : phase' = [phase EXCEPT ![g] = p]
             /\ posts' \in [Generation -> 0 .. MaxPosts - 1]
  BY <1>1 DEF Retry, GiveUp
<1>2. CASE Permit(g)
  BY <1>2 DEF Permit
<1>3. CASE TooMany(g)
  BY <1>1, <1>3 DEF TooMany
<1>4. CASE ServerError(g)
  BY <1>1, <1>4 DEF ServerError
<1>5. CASE NetworkError(g)
  BY <1>1, <1>5 DEF NetworkError
<1>6. CASE Denied(g)
  BY <1>6 DEF Denied
<1>7. CASE Drop(g)
  BY <1>7 DEF Drop
<1>8. CASE Resume(g)
  BY <1>8 DEF Resume
<1> QED
  BY <1>2, <1>3, <1>4, <1>5, <1>6, <1>7, <1>8 DEF Waits

(* Steps that are not a call's.                                            *)
Aside == Rest \/ GetStatus \/ CacheEnds \/ UNCHANGED gatewayVars

LEMMA StepCases ==
  ASSUME [GatewayNext]_gatewayVars
  PROVE  \/ \E g \in Generation : Start(g) \/ Succeed(g) \/ Waits(g)
         \/ Aside
BY DEF GatewayNext, Generate, Waits, Aside

LEMMA AsideFacts ==
  ASSUME GatewayTypeOK, Aside
  PROVE  /\ UNCHANGED <<failures, spent, phase, prompt, posts, result, peak>>
         /\ breaker' \in {breaker, Looked} /\ rested' \in BOOLEAN
         /\ cache' \in [Prompt -> Generation \cup {NoGeneration}]
         /\ \A k \in Prompt : cache'[k] \in {cache[k], NoGeneration}
<1> USE DEF callVars, GatewayTypeOK
<1>1. CASE Rest
  BY <1>1 DEF Rest
<1>2. CASE GetStatus
  BY <1>2 DEF GetStatus
<1>3. CASE CacheEnds
  <2>1. PICK k \in Prompt : cache' = [cache EXCEPT ![k] = NoGeneration]
    BY <1>3 DEF CacheEnds
  <2> QED
    BY <1>3, <2>1 DEF CacheEnds
<1>4. CASE UNCHANGED gatewayVars
  BY <1>4 DEF gatewayVars, controllerVars
<1> QED
  BY <1>1, <1>2, <1>3, <1>4 DEF Aside

-----------------------------------------------------------------------------
LEMMA GatewayTypingInit == GatewayInit => GatewayTypeOK
<1> SUFFICES ASSUME GatewayInit PROVE GatewayTypeOK
  OBVIOUS
<1>0. rested \in BOOLEAN
  BY DEF GatewayInit
<1>1. 0 \in 0 .. MaxPosts - 1
  BY GatewayAssumption
<1>2. /\ failures \in Nat /\ spent \in Nat /\ peak \in Nat
      /\ posts \in [Generation -> 0 .. MaxPosts - 1]
  BY <1>1 DEF GatewayInit
<1> QED
  BY <1>0, <1>1, <1>2 DEF GatewayInit, GatewayTypeOK

LEMMA GatewayTypingKept == GatewayTypeOK /\ [GatewayNext]_gatewayVars => GatewayTypeOK'
<1> SUFFICES ASSUME GatewayTypeOK, [GatewayNext]_gatewayVars PROVE GatewayTypeOK'
  OBVIOUS
<1> USE GatewayAssumption
<1>1. ASSUME NEW g \in Generation, Start(g) PROVE GatewayTypeOK'
  <2>1. peak' \in Nat
    BY <1>1, UnderWayCount DEF Start, GatewayTypeOK
  <2>2. \E p \in {"failed", "done", "admitted"} : phase' = [phase EXCEPT ![g] = p]
    BY <1>1 DEF Start, Becomes
  <2>3. result' \in [Generation -> Generation \cup {NoGeneration}]
    BY <1>1 DEF Start, Cached, GatewayTypeOK
  <2>4. breaker' \in {"CLOSED", "OPEN", "HALF_OPEN"}
    BY <1>1 DEF Start, Looked, GatewayTypeOK
  <2>5. UNCHANGED <<failures, rested, spent, cache, prompt, posts>>
    BY <1>1 DEF Start
  <2> QED
    BY <2>1, <2>2, <2>3, <2>4, <2>5 DEF GatewayTypeOK, UnderWay
<1>2. ASSUME NEW g \in Generation, Succeed(g) PROVE GatewayTypeOK'
  BY <1>2 DEF Succeed, RecordSuccess, Becomes, GatewayTypeOK, UnderWay, Permitted
<1>3. ASSUME NEW g \in Generation, Waits(g) PROVE GatewayTypeOK'
  <2>1. /\ breaker' \in {"CLOSED", "OPEN", "HALF_OPEN"} /\ failures' \in Nat
        /\ rested' \in BOOLEAN
    <3>1. UNCHANGED controllerVars \/ RecordFailure
      BY <1>3, WaitsFacts
    <3>2. CASE UNCHANGED controllerVars
      BY <3>2 DEF controllerVars, GatewayTypeOK
    <3>3. CASE RecordFailure
      <4>1. rested' \in BOOLEAN
        BY <3>3 DEF RecordFailure
      <4>2. failures' \in Nat
        BY <3>3 DEF RecordFailure, GatewayTypeOK
      <4>3. breaker' \in {"CLOSED", "OPEN", "HALF_OPEN"}
        BY <3>3 DEF RecordFailure, GatewayTypeOK
      <4> QED
        BY <4>1, <4>2, <4>3
    <3> QED
      BY <3>1, <3>2, <3>3
  <2>2. /\ phase' \in [Generation -> {"idle", "done", "failed"} \cup UnderWay]
        /\ posts' \in [Generation -> 0 .. MaxPosts - 1]
        /\ UNCHANGED <<spent, cache, prompt, result, peak>>
    BY <1>3, WaitsFacts DEF GatewayTypeOK
  <2> QED
    BY <2>1, <2>2 DEF GatewayTypeOK
<1>4. CASE Aside
  BY <1>4, AsideFacts DEF GatewayTypeOK, Looked
<1> QED
  BY <1>1, <1>2, <1>3, <1>4, StepCases

-----------------------------------------------------------------------------
LEMMA TripsInit == GatewayInit => TripsAtThreshold
BY GatewayAssumption DEF GatewayInit, TripsAtThreshold

LEMMA TripsKept ==
  GatewayTypeOK /\ TripsAtThreshold /\ [GatewayNext]_gatewayVars => TripsAtThreshold'
<1> SUFFICES ASSUME GatewayTypeOK, TripsAtThreshold, [GatewayNext]_gatewayVars
             PROVE  TripsAtThreshold'
  OBVIOUS
<1> USE GatewayAssumption DEF GatewayTypeOK, TripsAtThreshold
<1>1. ASSUME NEW g \in Generation, Start(g) PROVE TripsAtThreshold'
  BY <1>1 DEF Start, Looked
<1>2. ASSUME NEW g \in Generation, Succeed(g) PROVE TripsAtThreshold'
  BY <1>2 DEF Succeed, RecordSuccess
<1>3. ASSUME NEW g \in Generation, Waits(g) PROVE TripsAtThreshold'
  <2>1. UNCHANGED controllerVars \/ RecordFailure
    BY <1>3, WaitsFacts
  <2> QED
    BY <2>1 DEF controllerVars, RecordFailure
<1>4. CASE Aside
  BY <1>4, AsideFacts DEF Looked
<1> QED
  BY <1>1, <1>2, <1>3, <1>4, StepCases

-----------------------------------------------------------------------------
LEMMA BudgetInit == GatewayInit => BudgetHeld
BY DEF GatewayInit, BudgetHeld

(* A step that admits no call and counts no answer.                        *)
LEMMA BudgetKeptWithoutAnswer ==
  ASSUME GatewayTypeOK, BudgetHeld, UNCHANGED <<spent, peak>>,
         In(UnderWay)' \in SUBSET In(UnderWay)
  PROVE  BudgetHeld'
<1> DEFINE n == Cardinality(In(UnderWay))
           m == Cardinality(In(UnderWay)')
<1>1. n \in Nat /\ m \in Nat /\ m <= n
  <2>1. In(UnderWay) \in SUBSET Generation
    BY DEF In
  <2> QED
    BY <2>1, CallsFinite, FS_Subset
<1>2. peak > 0 => spent + Price * n < Budget + Price * peak
  BY DEF BudgetHeld
<1> HIDE DEF n, m
<1>3. Price * m <= Price * n /\ Price * m \in Nat /\ Price * n \in Nat
  BY <1>1, PriceGrows
<1>4. Price * peak \in Nat
  BY GatewayAssumption DEF GatewayTypeOK
<1>5. peak > 0 => spent + Price * m < Budget + Price * peak
  BY <1>2, <1>3, <1>4, GatewayAssumption DEF GatewayTypeOK
<1> QED
  BY <1>5 DEF BudgetHeld, m

LEMMA BudgetKept ==
  GatewayTypeOK /\ BudgetHeld /\ [GatewayNext]_gatewayVars => BudgetHeld'
<1> SUFFICES ASSUME GatewayTypeOK, BudgetHeld, [GatewayNext]_gatewayVars PROVE BudgetHeld'
  OBVIOUS
<1> DEFINE n == Cardinality(In(UnderWay))
           m == Cardinality(In(UnderWay)')
<1>n. n \in Nat /\ IsFiniteSet(In(UnderWay))
  BY CallsFinite DEF In
<1>1. ASSUME NEW g \in Generation, Start(g) PROVE BudgetHeld'
  <2>1. CASE MayExecute(Looked) /\ phase' = [phase EXCEPT ![g] = "admitted"]
             /\ peak' = IF n + 1 > peak THEN n + 1 ELSE peak
    <3>1. In(UnderWay)' = In(UnderWay) \cup {g} /\ g \notin In(UnderWay)
      BY <1>1, <2>1 DEF Start, In, UnderWay, Permitted, GatewayTypeOK
    <3>2. m = n + 1
      BY <3>1, <1>n, FS_AddElement
    <3>3. spent < Budget /\ spent' = spent
      BY <1>1, <2>1 DEF Start, MayExecute
    <3>4. peak' \in Nat /\ n + 1 <= peak'
      BY <1>n, <2>1 DEF GatewayTypeOK
    <3> HIDE DEF n, m
    <3>5. Price * m <= Price * peak' /\ Price * m \in Nat /\ Price * peak' \in Nat
      BY <1>n, <3>2, <3>4, PriceGrows
    <3>6. spent' + Price * m < Budget + Price * peak'
      BY <3>3, <3>5, GatewayAssumption DEF GatewayTypeOK
    <3> QED
      BY <3>6 DEF BudgetHeld, m
  <2>2. CASE /\ UNCHANGED peak
             /\ phase' = [phase EXCEPT ![g] = "failed"] \/ phase' = [phase EXCEPT ![g] = "done"]
    <3>1. In(UnderWay)' \in SUBSET In(UnderWay)
      BY <2>2 DEF In, UnderWay, Permitted, GatewayTypeOK
    <3>2. UNCHANGED spent
      BY <1>1 DEF Start
    <3> QED
      BY <2>2, <3>1, <3>2, BudgetKeptWithoutAnswer
  <2> QED
    BY <1>1, <2>1, <2>2 DEF Start, Becomes
<1>2. ASSUME NEW g \in Generation, Succeed(g) PROVE BudgetHeld'
  <2>1. /\ spent' = spent + Price /\ UNCHANGED peak
        /\ In(UnderWay)' = In(UnderWay) \ {g} /\ g \in In(UnderWay)
    BY <1>2 DEF Succeed, RecordSuccess, Becomes, In, UnderWay, Permitted, GatewayTypeOK
  <2>2. m \in Nat /\ n = m + 1
    <3>1. In(UnderWay)' \in SUBSET Generation
      BY DEF In
    <3> QED
      BY <2>1, <3>1, <1>n, CallsFinite, FS_RemoveElement
  <2>3. peak > 0 => spent + Price * n < Budget + Price * peak
    BY DEF BudgetHeld
  <2> HIDE DEF n, m
  <2>4. Price * n = Price * m + Price /\ Price * m \in Nat
    BY <2>2, PriceOfOneMore, PriceGrows
  <2>5. peak' > 0 => spent' + Price * m < Budget + Price * peak'
    <3>1. spent \in Nat /\ Price \in Nat
      BY GatewayAssumption DEF GatewayTypeOK
    <3>2. spent' + Price * m = spent + Price * n
      BY <2>1, <2>4, <3>1
    <3> QED
      BY <2>1, <2>3, <3>2
  <2> QED
    BY <2>5 DEF BudgetHeld, m
<1>3. ASSUME NEW g \in Generation, Waits(g) PROVE BudgetHeld'
  <2>1. In(UnderWay)' \in SUBSET In(UnderWay)
    BY <1>3, WaitsFacts DEF In, UnderWay, Permitted, GatewayTypeOK
  <2> QED
    BY <1>3, <2>1, WaitsFacts, BudgetKeptWithoutAnswer
<1>4. CASE Aside
  <2>1. In(UnderWay)' = In(UnderWay)
    BY <1>4, AsideFacts DEF In
  <2> QED
    BY <1>4, <2>1, AsideFacts, BudgetKeptWithoutAnswer
<1> QED
  BY <1>1, <1>2, <1>3, <1>4, StepCases

-----------------------------------------------------------------------------
(* What is cached under a prompt answered that prompt.                     *)
Answers(g, k) == g \in Generation /\ phase[g] = "done" /\ prompt[g] = k

CacheInv == \A k \in Prompt : cache[k] # NoGeneration => Answers(cache[k], k)

LEMMA CacheInitInv == GatewayInit => CacheInv /\ CacheTrue
BY DEF GatewayInit, CacheInv, CacheTrue

LEMMA CacheKept ==
  GatewayTypeOK /\ CacheInv /\ CacheTrue /\ [GatewayNext]_gatewayVars => CacheInv' /\ CacheTrue'
<1> SUFFICES ASSUME GatewayTypeOK, CacheInv, CacheTrue, [GatewayNext]_gatewayVars
             PROVE  CacheInv' /\ CacheTrue'
  OBVIOUS
<1> USE GatewayAssumption DEF GatewayTypeOK, CacheInv, CacheTrue, Answers
<1>1. ASSUME NEW g \in Generation, Start(g) PROVE CacheInv' /\ CacheTrue'
  <2> USE DEF Start, Becomes, Cached
  <2>1. UNCHANGED <<cache, prompt>> /\ phase[g] = "idle"
    BY <1>1
  <2>2. \A h \in Generation : h # g => phase'[h] = phase[h] /\ result'[h] = result[h]
    BY <1>1
  <2>3. phase'[g] = "done" => cache[prompt[g]] # NoGeneration /\ result'[g] = cache[prompt[g]]
    BY <1>1
  <2>4. \A h \in Generation : phase[h] = "done" => h # g /\ phase'[h] = "done"
    BY <2>1, <2>2
  <2>5. CacheInv'
    BY <2>1, <2>4
  <2> QED
    BY <2>1, <2>2, <2>3, <2>4, <2>5
<1>2. ASSUME NEW g \in Generation, Succeed(g) PROVE CacheInv' /\ CacheTrue'
  BY <1>2 DEF Succeed, RecordSuccess, Becomes
<1>3. ASSUME NEW g \in Generation, Waits(g) PROVE CacheInv' /\ CacheTrue'
  BY <1>3, WaitsFacts DEF UnderWay, Permitted
<1>4. CASE Aside
  BY <1>4, AsideFacts
<1> QED
  BY <1>1, <1>2, <1>3, <1>4, StepCases

-----------------------------------------------------------------------------
(* Types: no call makes more attempts than it may (generate).              *)
THEOREM GatewayTyping == GatewaySpec => []GatewayTypeOK
BY GatewayTypingInit, GatewayTypingKept, PTL DEF GatewaySpec

(* Late answers of calls admitted before the breaker tripped never bring   *)
(* state and count apart (record_success, record_failure).                 *)
THEOREM GatewayTrips == GatewaySpec => []TripsAtThreshold
BY GatewayTypingInit, GatewayTypingKept, TripsInit, TripsKept, PTL DEF GatewaySpec

(* The budget is passed by at most the price of the calls that were ever   *)
(* under way together (check_can_execute, record_success).                 *)
THEOREM GatewayBudget == GatewaySpec => []BudgetHeld
BY GatewayTypingInit, GatewayTypingKept, BudgetInit, BudgetKept, PTL DEF GatewaySpec

(* A call returns an answer that the provider gave to its own prompt       *)
(* (get_cached, set_cached).                                               *)
THEOREM GatewayCache == GatewaySpec => []CacheTrue
BY GatewayTypingInit, GatewayTypingKept, CacheInitInv, CacheKept, PTL DEF GatewaySpec

-----------------------------------------------------------------------------
(* Admission: one key, one incident, for any number of requests with the   *)
(* key, any bodies and any limits.                                         *)

Unfinished == {"new", "reading", "limiting", "handling", "auditing"}
Troubled   == expired \/ Answered("error")

(* A request puts its record when it has its body, and is answered last.   *)
Begun      == \A r \in Request : at[r] \in {"new", "reading"} => record[r] = "none"
Unanswered == \A r \in Request : at[r] \in Unfinished => reply[r] = "none"
Recorded   == \A r \in Request : Admitted(r) => record[r] # "none"
Creators   == \A r \in Request : at[r] = "auditing" \/ reply[r] = "made" => r \in incidents

(* What a record in its final state stands for.                            *)
Refusals    == \A c \in Request : record[c] = "failed" => Answered("refused")
Completions == \A c \in Request : record[c] = "completed" =>
                 stored[c] \in Request /\ reply[stored[c]] = "made"

(* Unless a TTL ended or a server error freed the key, the key has been    *)
(* held since the first record and all records are for one body; unless a  *)
(* request was refused either, there is only one record.                   *)
KeyHeld   == entry = NoRequest => Troubled \/ \A c \in Request : record[c] = "none"
OneBody   == Troubled \/ \A c, d \in Request :
               record[c] # "none" /\ record[d] # "none" => body[c] = body[d]
OneRecord == Troubled \/ Answered("refused") \/ \A c, d \in Request :
               record[c] # "none" /\ record[d] # "none" => c = d

AdmissionInv ==
  /\ AdmissionTypeOK /\ Begun /\ Unanswered /\ Recorded /\ Creators
  /\ Refusals /\ Completions /\ KeyHeld /\ OneBody /\ OneRecord
  /\ StuckForCause /\ ReplayTrue

LEMMA AdmissionInitInv == AdmissionInit => AdmissionInv
<1> SUFFICES ASSUME AdmissionInit PROVE AdmissionInv
  OBVIOUS
<1> USE DEF AdmissionInit, Executing
<1>1. expired \in BOOLEAN
  OBVIOUS
<1>2. AdmissionTypeOK
  BY <1>1 DEF AdmissionTypeOK, Point, Maker, Reply
<1>3. Begun /\ Unanswered /\ Recorded /\ Creators
  BY DEF Begun, Unanswered, Recorded, Creators, Admitted
<1>4. Refusals /\ Completions /\ KeyHeld /\ OneBody /\ OneRecord
  BY DEF Refusals, Completions, KeyHeld, OneBody, OneRecord
<1>5. StuckForCause /\ ReplayTrue
  BY DEF StuckForCause, ReplayTrue
<1> QED
  BY <1>2, <1>3, <1>4, <1>5 DEF AdmissionInv

(* An answer stays, once given.                                            *)
LEMMA AnswersStay ==
  ASSUME \A r \in Request : reply[r] # "none" => reply'[r] = reply[r], expired => expired'
  PROVE  /\ Answered("refused") => Answered("refused")'
         /\ Troubled => Troubled'
BY DEF Answered, Troubled

-----------------------------------------------------------------------------
(* A request moves on, is answered or raises without touching the store.   *)
Works(r) == Limit(r) \/ Refuse(r) \/ Create(r) \/ Audit(r)

LEMMA WorksFacts ==
  ASSUME AdmissionInv, NEW r \in Request, Works(r)
  PROVE  /\ at[r] \in {"limiting", "handling", "auditing"} /\ reply[r] = "none"
         /\ \E p \in Point : at' = [at EXCEPT ![r] = p]
         /\ \E a \in Reply : reply' = [reply EXCEPT ![r] = a]
         /\ \/ at'[r] \in {"handling", "auditing"} /\ reply'[r] = "none"
            \/ at'[r] = "answering" /\ reply'[r] \in {"made", "refused", "error"}
            \/ at'[r] = "done" /\ reply'[r] = "raised"
         /\ at'[r] = "auditing" \/ reply'[r] = "made" => r \in incidents'
         /\ incidents \subseteq incidents' /\ incidents' \subseteq Request
         /\ recent' \subseteq incidents'
         /\ UNCHANGED <<storeVars, body, seen, replayed>>
<1> USE DEF Goto, EndAs, AnswerAs, limitVars, Point, Executing, Reply
<1>1. at \in [Request -> Point] /\ reply \in [Request -> Reply] /\ recent \subseteq incidents
      /\ incidents \subseteq Request
  BY DEF AdmissionInv, AdmissionTypeOK
<1>2. at[r] \in Unfinished => reply[r] = "none"
  BY DEF AdmissionInv, Unanswered
<1>3. CASE Limit(r)
  BY <1>1, <1>2, <1>3 DEF Limit, Unfinished
<1>4. CASE Refuse(r)
  BY <1>1, <1>2, <1>4 DEF Refuse, Unfinished
<1>5. CASE Create(r)
  BY <1>1, <1>2, <1>5 DEF Create, Unfinished
<1>6. CASE Audit(r)
  <2>1. r \in incidents
    BY <1>6 DEF Audit, AdmissionInv, Creators
  <2> QED
    BY <1>1, <1>2, <1>6, <2>1 DEF Audit, Unfinished
<1> QED
  BY <1>3, <1>4, <1>5, <1>6 DEF Works

LEMMA WorksKeeps ==
  ASSUME AdmissionInv, NEW r \in Request, Works(r)
  PROVE  AdmissionInv'
<1>1. at \in [Request -> Point] /\ reply \in [Request -> Reply]
  BY DEF AdmissionInv, AdmissionTypeOK
<1>2. \A s \in Request : s # r => at'[s] = at[s] /\ reply'[s] = reply[s]
  BY <1>1, WorksFacts
<1>3. \A s \in Request : reply[s] # "none" => reply'[s] = reply[s]
  BY <1>2, WorksFacts
<1>4. UNCHANGED <<entry, record, stored, expired, body, seen, replayed>>
  BY WorksFacts DEF storeVars
<1>5. /\ Answered("refused") => Answered("refused")'
      /\ Troubled => Troubled'
  BY <1>3, <1>4, AnswersStay
<1>6. AdmissionTypeOK'
  <2>1. at' \in [Request -> Point] /\ reply' \in [Request -> Reply]
    BY <1>1, WorksFacts
  <2> QED
    BY <1>4, <2>1, WorksFacts DEF AdmissionInv, AdmissionTypeOK
<1>7. Begun' /\ Unanswered' /\ Recorded' /\ Creators'
  <2> SUFFICES ASSUME NEW s \in Request
               PROVE  /\ at'[s] \in {"new", "reading"} => record'[s] = "none"
                      /\ at'[s] \in Unfinished => reply'[s] = "none"
                      /\ Admitted(s)' => record'[s] # "none"
                      /\ at'[s] = "auditing" \/ reply'[s] = "made" => s \in incidents'
    BY DEF Begun, Unanswered, Recorded, Creators
  <2>1. CASE s = r
    <3>1. record[r] # "none"
      BY WorksFacts DEF AdmissionInv, Recorded, Admitted, Executing
    <3> QED
      BY <1>4, <2>1, <3>1, WorksFacts DEF Unfinished
  <2>2. CASE s # r
    <3>1. Admitted(s)' <=> Admitted(s)
      BY <1>2, <2>2 DEF Admitted
    <3> QED
      BY <1>2, <1>4, <2>2, <3>1, WorksFacts
         DEF AdmissionInv, Begun, Unanswered, Recorded, Creators
  <2> QED
    BY <2>1, <2>2
<1>8. Refusals' /\ KeyHeld' /\ OneBody' /\ OneRecord'
  BY <1>4, <1>5 DEF AdmissionInv, Refusals, KeyHeld, OneBody, OneRecord
<1>9. Completions'
  BY <1>3, <1>4 DEF AdmissionInv, Completions
<1>10. StuckForCause'
  <2>1. entry # NoRequest => entry \in Request
    BY DEF AdmissionInv, AdmissionTypeOK, Maker
  <2> QED
    BY <1>2, <1>4, <2>1, WorksFacts DEF AdmissionInv, StuckForCause, Executing
<1>11. ReplayTrue'
  <2> SUFFICES ASSUME NEW s \in Request, reply'[s] = "replayed"
               PROVE  /\ replayed[s] \in incidents' /\ reply'[replayed[s]] = "made"
                      /\ body[replayed[s]] = body[s] \/ Troubled'
    BY <1>4 DEF ReplayTrue, Troubled
  <2>1. reply[s] = "replayed"
    BY <1>2, WorksFacts
  <2>2. /\ replayed[s] \in incidents /\ reply[replayed[s]] = "made"
        /\ body[replayed[s]] = body[s] \/ Troubled
    BY <2>1 DEF AdmissionInv, ReplayTrue, Troubled
  <2>3. replayed[s] \in Request
    BY <2>2 DEF AdmissionInv, AdmissionTypeOK
  <2> QED
    BY <1>3, <1>5, <2>2, <2>3, WorksFacts
<1> QED
  BY <1>6, <1>7, <1>8, <1>9, <1>10, <1>11 DEF AdmissionInv

-----------------------------------------------------------------------------
LEMMA LookUpKeeps ==
  ASSUME AdmissionInv, NEW r \in Request, LookUp(r)
  PROVE  AdmissionInv'
<1> USE DEF LookUp, Goto, storeVars, limitVars
<1>1. at[r] = "new" /\ at' = [at EXCEPT ![r] = "reading"]
      /\ UNCHANGED <<storeVars, limitVars, body, reply, replayed>>
  OBVIOUS
<1>2. AdmissionTypeOK'
  BY DEF AdmissionInv, AdmissionTypeOK, Point, Maker
<1>3. Begun' /\ Unanswered' /\ Recorded' /\ Creators'
  BY DEF AdmissionInv, AdmissionTypeOK, Begun, Unanswered, Recorded, Creators, Admitted,
         Unfinished, Executing
<1>4. Refusals' /\ Completions' /\ KeyHeld' /\ OneBody' /\ OneRecord'
  BY DEF AdmissionInv, Refusals, Completions, KeyHeld, OneBody, OneRecord, Answered, Troubled
<1>5. StuckForCause' /\ ReplayTrue'
  BY DEF AdmissionInv, AdmissionTypeOK, StuckForCause, ReplayTrue, Answered, Executing
<1> QED
  BY <1>2, <1>3, <1>4, <1>5 DEF AdmissionInv

(* A step that leaves the requests alone: a TTL ends, the window slides,   *)
(* or nothing happens.                                                     *)
LEMMA TimeKeeps ==
  ASSUME AdmissionInv, Expire \/ WindowPasses \/ UNCHANGED admissionVars
  PROVE  AdmissionInv'
<1> USE DEF storeVars, limitVars, requestVars
<1>1. /\ UNCHANGED <<record, stored, incidents, requestVars>>
      /\ recent' \subseteq incidents'
      /\ \/ UNCHANGED <<entry, expired>>
         \/ entry' = NoRequest /\ expired' = TRUE
  BY DEF Expire, WindowPasses, admissionVars, AdmissionInv, AdmissionTypeOK
<1>2. expired => expired'
  BY <1>1
<1>3. Answered("refused")' = Answered("refused") /\ Answered("error")' = Answered("error")
  BY <1>1 DEF Answered
<1>4. AdmissionTypeOK'
  BY <1>1 DEF AdmissionInv, AdmissionTypeOK, Maker
<1>5. Begun' /\ Unanswered' /\ Recorded' /\ Creators'
  BY <1>1 DEF AdmissionInv, Begun, Unanswered, Recorded, Creators, Admitted
<1>6. Refusals' /\ Completions' /\ OneBody' /\ OneRecord' /\ KeyHeld'
  BY <1>1, <1>2, <1>3
     DEF AdmissionInv, Refusals, Completions, KeyHeld, OneBody, OneRecord, Troubled
<1>7. StuckForCause'
  BY <1>1 DEF AdmissionInv, StuckForCause
<1>8. ReplayTrue'
  BY <1>1, <1>2, <1>3 DEF AdmissionInv, ReplayTrue
<1> QED
  BY <1>4, <1>5, <1>6, <1>7, <1>8 DEF AdmissionInv

-----------------------------------------------------------------------------
(* A request that is turned away or gets a replay puts no record.          *)
LEMMA TurnedAwayKeeps ==
  ASSUME AdmissionInv, NEW r \in Request, NEW a \in {"conflict", "busy", "replayed"},
         at[r] = "reading", EndAs(r, a),
         UNCHANGED <<storeVars, limitVars, body, seen>>,
         a # "replayed" => UNCHANGED replayed,
         a = "replayed" => /\ replayed' = [replayed EXCEPT ![r] = replayed'[r]]
                           /\ replayed'[r] \in incidents /\ reply[replayed'[r]] = "made"
                           /\ body[replayed'[r]] = body[r] \/ Troubled
  PROVE  AdmissionInv'
<1>1. /\ at' = [at EXCEPT ![r] = "done"] /\ reply' = [reply EXCEPT ![r] = a]
      /\ at \in [Request -> Point] /\ reply \in [Request -> Reply]
      /\ UNCHANGED <<entry, record, stored, expired, incidents, recent, body, seen>>
  BY DEF EndAs, Goto, storeVars, limitVars, AdmissionInv, AdmissionTypeOK
<1>2. reply[r] = "none" /\ record[r] = "none" /\ reply'[r] = a
  BY <1>1 DEF AdmissionInv, Begun, Unanswered, Unfinished
<1>3. \A s \in Request : s # r => at'[s] = at[s] /\ reply'[s] = reply[s]
  BY <1>1
<1>4. \A s \in Request : reply[s] # "none" => reply'[s] = reply[s]
  BY <1>2, <1>3
<1>5. /\ Answered("refused") => Answered("refused")'
      /\ Troubled => Troubled'
  BY <1>1, <1>4, AnswersStay
<1>6. AdmissionTypeOK'
  <2>1. replayed' \in [Request -> Maker]
    <3>1. CASE a # "replayed"
      BY <3>1 DEF AdmissionInv, AdmissionTypeOK
    <3>2. CASE a = "replayed"
      BY <3>2 DEF AdmissionInv, AdmissionTypeOK, Maker
    <3> QED
      BY <3>1, <3>2
  <2>2. at' \in [Request -> Point] /\ reply' \in [Request -> Reply]
    BY <1>1 DEF Point, Reply
  <2> QED
    BY <1>1, <2>1, <2>2 DEF AdmissionInv, AdmissionTypeOK
<1>7. Begun' /\ Unanswered' /\ Recorded' /\ Creators'
  BY <1>1, <1>2, <1>3
     DEF AdmissionInv, Begun, Unanswered, Recorded, Creators, Admitted, Unfinished, Executing
<1>8. Refusals' /\ KeyHeld' /\ OneBody' /\ OneRecord'
  BY <1>1, <1>5 DEF AdmissionInv, Refusals, KeyHeld, OneBody, OneRecord
<1>9. Completions'
  BY <1>1, <1>4 DEF AdmissionInv, Completions
<1>10. StuckForCause'
  <2>1. entry # NoRequest => entry \in Request /\ record[entry] # "none"
    BY DEF AdmissionInv, AdmissionTypeOK, Maker
  <2> QED
    BY <1>1, <1>2, <1>3, <2>1 DEF AdmissionInv, StuckForCause
<1>11. ReplayTrue'
  <2> SUFFICES ASSUME NEW s \in Request, reply'[s] = "replayed"
               PROVE  /\ replayed'[s] \in incidents /\ reply'[replayed'[s]] = "made"
                      /\ body[replayed'[s]] = body[s] \/ Troubled'
    BY <1>1 DEF ReplayTrue, Troubled
  <2>1. /\ replayed'[s] \in incidents /\ reply[replayed'[s]] = "made"
        /\ body[replayed'[s]] = body[s] \/ Troubled
    <3>1. CASE s = r
      BY <1>2, <3>1
    <3>2. CASE s # r
      <4>1. replayed'[s] = replayed[s] /\ reply[s] = "replayed"
        BY <1>3, <3>2 DEF AdmissionInv, AdmissionTypeOK
      <4> QED
        BY <4>1 DEF AdmissionInv, ReplayTrue, Troubled
    <3> QED
      BY <3>1, <3>2
  <2>2. replayed'[s] \in Request
    BY <2>1 DEF AdmissionInv, AdmissionTypeOK
  <2> QED
    BY <1>4, <1>5, <2>1, <2>2
<1> QED
  BY <1>6, <1>7, <1>8, <1>9, <1>10, <1>11 DEF AdmissionInv

(* A request puts its record when it found none, or one that had failed    *)
(* and was for its own body.                                               *)
LEMMA PutRecordKeeps ==
  ASSUME AdmissionInv, NEW r \in Request, at[r] = "reading", PutRecord(r),
         UNCHANGED <<limitVars, body, seen>>,
         \/ entry = NoRequest
         \/ \E c \in Request : body[c] = body[r] /\ record[c] = "failed"
  PROVE  AdmissionInv'
<1>1. /\ entry' = r /\ record' = [record EXCEPT ![r] = "processing"]
      /\ at' = [at EXCEPT ![r] = "limiting"]
      /\ at \in [Request -> Point]
      /\ record \in [Request -> {"none", "processing", "completed", "failed"}]
      /\ UNCHANGED <<stored, expired, reply, replayed, incidents, recent, body, seen>>
  BY DEF PutRecord, Goto, limitVars, AdmissionInv, AdmissionTypeOK
<1>2. reply[r] = "none" /\ record[r] = "none"
  BY DEF AdmissionInv, Begun, Unanswered, Unfinished
<1>3. \A s \in Request : s # r => at'[s] = at[s] /\ record'[s] = record[s]
  BY <1>1
<1>4. /\ Answered("refused")' = Answered("refused") /\ Answered("error")' = Answered("error")
      /\ Troubled' = Troubled
  BY <1>1 DEF Answered, Troubled
<1>5. AdmissionTypeOK'
  <2>1. at' \in [Request -> Point] /\ entry' \in Maker
        /\ record' \in [Request -> {"none", "processing", "completed", "failed"}]
    BY <1>1 DEF Point, Maker, Executing
  <2>2. entry' # NoRequest => record'[entry'] # "none"
    BY <1>1
  <2>3. \A s \in Request : seen[s] # NoRequest => record'[seen[s]] # "none"
    <3>1. \A s \in Request : seen[s] # NoRequest => seen[s] \in Request /\ record[seen[s]] # "none"
      BY DEF AdmissionInv, AdmissionTypeOK, Maker
    <3> QED
      BY <1>1, <3>1
  <2> QED
    BY <1>1, <2>1, <2>2, <2>3 DEF AdmissionInv, AdmissionTypeOK
<1>6. Begun' /\ Unanswered' /\ Recorded' /\ Creators'
  BY <1>1, <1>2, <1>3
     DEF AdmissionInv, Begun, Unanswered, Recorded, Creators, Admitted, Unfinished, Executing
<1>7. Refusals' /\ Completions'
  BY <1>1, <1>3, <1>4 DEF AdmissionInv, Refusals, Completions
<1>8. KeyHeld'
  BY <1>1, AdmissionAssumption DEF KeyHeld
<1>9. OneBody'
  <2>1. Troubled \/ \A c \in Request : record[c] # "none" => body[c] = body[r]
    BY DEF AdmissionInv, KeyHeld, OneBody
  <2> QED
    BY <1>1, <1>3, <1>4, <2>1 DEF AdmissionInv, OneBody
<1>10. OneRecord'
  <2>1. Troubled \/ Answered("refused") \/ \A c \in Request : record[c] = "none"
    BY DEF AdmissionInv, KeyHeld, Refusals
  <2> QED
    BY <1>1, <1>3, <1>4, <2>1 DEF OneRecord
<1>11. StuckForCause'
  BY <1>1 DEF StuckForCause, Executing
<1>12. ReplayTrue'
  BY <1>1, <1>4 DEF AdmissionInv, ReplayTrue
<1> QED
  BY <1>5, <1>6, <1>7, <1>8, <1>9, <1>10, <1>11, <1>12 DEF AdmissionInv

LEMMA JudgeKeeps ==
  ASSUME AdmissionInv, NEW r \in Request, NEW c \in Request, at[r] = "reading", Judge(r, c),
         UNCHANGED <<limitVars, body, seen>>
  PROVE  AdmissionInv'
<1>1. CASE body[c] # body[r] /\ EndAs(r, "conflict") /\ UNCHANGED <<storeVars, replayed>>
  BY <1>1, TurnedAwayKeeps
<1>2. CASE EndAs(r, "busy") /\ UNCHANGED <<storeVars, replayed>>
  BY <1>2, TurnedAwayKeeps
<1>3. CASE /\ body[c] = body[r] /\ record[c] = "completed"
           /\ EndAs(r, "replayed") /\ replayed' = [replayed EXCEPT ![r] = stored[c]]
           /\ UNCHANGED storeVars
  <2>1. replayed'[r] = stored[c]
    BY <1>3 DEF AdmissionInv, AdmissionTypeOK
  <2>2. stored[c] \in Request /\ reply[stored[c]] = "made"
    BY <1>3 DEF AdmissionInv, Completions
  <2>3. stored[c] \in incidents /\ record[stored[c]] # "none"
    BY <2>2 DEF AdmissionInv, Creators, Recorded, Admitted
  <2>4. body[stored[c]] = body[r] \/ Troubled
    BY <1>3, <2>2, <2>3 DEF AdmissionInv, OneBody
  <2> QED
    BY <1>3, <2>1, <2>2, <2>3, <2>4, TurnedAwayKeeps
<1>4. CASE body[c] = body[r] /\ record[c] = "failed" /\ PutRecord(r)
  BY <1>4, PutRecordKeeps
<1> QED
  BY <1>1, <1>2, <1>3, <1>4 DEF Judge

LEMMA DecideKeeps ==
  ASSUME AdmissionInv, NEW r \in Request, Decide(r)
  PROVE  AdmissionInv'
<1> DEFINE found == IF seen[r] = NoRequest THEN entry ELSE seen[r]
<1>1. /\ at[r] = "reading" /\ UNCHANGED <<limitVars, body, seen>>
      /\ IF found = NoRequest THEN PutRecord(r) ELSE Judge(r, found)
  BY DEF Decide
<1>2. CASE found = NoRequest
  BY <1>1, <1>2, PutRecordKeeps
<1>3. CASE found # NoRequest
  <2>1. found \in Request
    BY <1>3 DEF AdmissionInv, AdmissionTypeOK, Maker
  <2> HIDE DEF found
  <2> QED
    BY <1>1, <1>3, <2>1, JudgeKeeps
<1> QED
  BY <1>2, <1>3

-----------------------------------------------------------------------------
(* The answer goes under the key, to the record of whoever holds it now.   *)
LEMMA SaveKeeps ==
  ASSUME AdmissionInv, NEW r \in Request, Save(r)
  PROVE  AdmissionInv'
<1>1. /\ at[r] = "answering" /\ at' = [at EXCEPT ![r] = "done"]
      /\ at \in [Request -> Point]
      /\ record \in [Request -> {"none", "processing", "completed", "failed"}]
      /\ stored \in [Request -> Maker]
      /\ UNCHANGED <<expired, limitVars, body, seen, reply, replayed>>
  BY DEF Save, Goto, AdmissionInv, AdmissionTypeOK
<1>e. entry # NoRequest => entry \in Request /\ record[entry] # "none"
  BY DEF AdmissionInv, AdmissionTypeOK, Maker
<1>2. /\ Answered("refused")' = Answered("refused") /\ Answered("error")' = Answered("error")
      /\ Troubled' = Troubled
  BY <1>1 DEF Answered, Troubled
<1>3. \/ UNCHANGED <<entry, record, stored>> /\ entry = NoRequest
      \/ /\ entry \in Request /\ UNCHANGED entry /\ stored' = [stored EXCEPT ![entry] = r]
         /\ \/ reply[r] = "made" /\ record' = [record EXCEPT ![entry] = "completed"]
            \/ reply[r] = "refused" /\ record' = [record EXCEPT ![entry] = "failed"]
      \/ reply[r] = "error" /\ entry' = NoRequest /\ UNCHANGED <<record, stored>>
  BY <1>e DEF Save, StoreAs
<1>4. \A c \in Request : (record'[c] = "none") <=> (record[c] = "none")
  BY <1>1, <1>e, <1>3, AdmissionAssumption
<1>5. AdmissionTypeOK'
  <2>1. at' \in [Request -> Point]
    BY <1>1 DEF Point
  <2>2. /\ record' \in [Request -> {"none", "processing", "completed", "failed"}]
        /\ stored' \in [Request -> Maker] /\ entry' \in Maker
    BY <1>1, <1>3 DEF AdmissionInv, AdmissionTypeOK, Maker
  <2>3. entry' # NoRequest => record'[entry'] # "none"
    BY <1>3, <1>4, <1>e
  <2>4. \A s \in Request : seen[s] # NoRequest => record'[seen[s]] # "none"
    <3>1. \A s \in Request : seen[s] # NoRequest => seen[s] \in Request /\ record[seen[s]] # "none"
      BY DEF AdmissionInv, AdmissionTypeOK, Maker
    <3> QED
      BY <1>4, <3>1
  <2> QED
    BY <1>1, <2>1, <2>2, <2>3, <2>4 DEF AdmissionInv, AdmissionTypeOK, limitVars
<1>6. Begun' /\ Unanswered' /\ Creators'
  BY <1>1, <1>4 DEF AdmissionInv, Begun, Unanswered, Creators, Unfinished, limitVars
<1>7. Recorded'
  <2>1. \A s \in Request : Admitted(s)' => Admitted(s)
    BY <1>1 DEF Admitted, Executing
  <2> QED
    BY <1>4, <2>1 DEF AdmissionInv, Recorded
<1>8. Refusals'
  <2>1. \A c \in Request : record'[c] = "failed" => record[c] = "failed" \/ reply[r] = "refused"
    BY <1>1, <1>3
  <2> QED
    BY <1>2, <2>1 DEF AdmissionInv, Refusals, Answered
<1>9. Completions'
  <2>1. \A c \in Request : record'[c] = "completed" =>
          \/ record[c] = "completed" /\ stored'[c] = stored[c]
          \/ stored'[c] = r /\ reply[r] = "made"
    BY <1>1, <1>3
  <2> QED
    BY <1>1, <2>1 DEF AdmissionInv, Completions
<1>10. KeyHeld'
  BY <1>2, <1>3, <1>4, AdmissionAssumption DEF AdmissionInv, KeyHeld, Troubled, Answered
<1>11. OneBody' /\ OneRecord'
  BY <1>1, <1>2, <1>4 DEF AdmissionInv, OneBody, OneRecord
<1>12. StuckForCause'
  <2> SUFFICES ASSUME entry' # NoRequest, record'[entry'] = "processing"
               PROVE  at'[entry'] \in Executing \/ reply[entry'] = "raised"
    BY <1>1 DEF StuckForCause
  <2>1. CASE entry \in Request /\ UNCHANGED entry
    <3>1. record'[entry] \in {"completed", "failed"}
      BY <1>1, <1>3, <2>1, AdmissionAssumption
    <3> QED
      BY <2>1, <3>1
  <2>2. CASE entry' = NoRequest
    BY <2>2
  <2> QED
    BY <1>3, <2>1, <2>2
<1>13. ReplayTrue'
  BY <1>1, <1>2 DEF AdmissionInv, ReplayTrue, limitVars
<1> QED
  BY <1>5, <1>6, <1>7, <1>8, <1>9, <1>10, <1>11, <1>12, <1>13 DEF AdmissionInv

-----------------------------------------------------------------------------
LEMMA AdmissionInvKept == AdmissionInv /\ [AdmissionNext]_admissionVars => AdmissionInv'
<1> SUFFICES ASSUME AdmissionInv, [AdmissionNext]_admissionVars PROVE AdmissionInv'
  OBVIOUS
<1>1. ASSUME NEW r \in Request, Proceed(r) PROVE AdmissionInv'
  BY <1>1, LookUpKeeps, DecideKeeps, WorksKeeps, SaveKeeps DEF Proceed, Works
<1> QED
  BY <1>1, TimeKeeps DEF AdmissionNext

LEMMA InvAtMostOnce == AdmissionInv => AtMostOnce
BY DEF AdmissionInv, Recorded, OneRecord, AtMostOnce, Troubled

(* Types; a record that was found or stands under the key was put there.   *)
THEOREM AdmissionTyping == AdmissionSpec => []AdmissionTypeOK
<1>1. AdmissionInv => AdmissionTypeOK
  BY DEF AdmissionInv
<1> QED
  BY <1>1, AdmissionInitInv, AdmissionInvKept, PTL DEF AdmissionSpec

(* Of all requests with one key only one is let through to the endpoint,   *)
(* unless a TTL ended or an answer was an error (check_idempotency).       *)
THEOREM AdmissionOnce == AdmissionSpec => []AtMostOnce
BY InvAtMostOnce, AdmissionInitInv, AdmissionInvKept, PTL DEF AdmissionSpec

(* A replayed answer is that of a request which created its incident, for  *)
(* the same body unless the key changed hands (save_idempotent_response).  *)
THEOREM AdmissionReplays == AdmissionSpec => []ReplayTrue
<1>1. AdmissionInv => ReplayTrue
  BY DEF AdmissionInv
<1> QED
  BY <1>1, AdmissionInitInv, AdmissionInvKept, PTL DEF AdmissionSpec

(* Only an exception leaves a record PROCESSING behind                     *)
(* (idempotency_middleware).                                               *)
THEOREM AdmissionStuck == AdmissionSpec => []StuckForCause
<1>1. AdmissionInv => StuckForCause
  BY DEF AdmissionInv
<1> QED
  BY <1>1, AdmissionInitInv, AdmissionInvKept, PTL DEF AdmissionSpec

-----------------------------------------------------------------------------
(* The repair packages. A request that is past its loading may have made a *)
(* record; an index never has more records of one candidate than there are *)
(* such requests, so a number is always left.                              *)
AtRecord == {"queued", "building", "written"} \cup Saving

Entered  == {p \in Builder : work[p] \in {"done", "dead"} \cup AtRecord}
Numbered == {p \in Builder : number[p] # 0}

Mine(p) == copy[p][target[p]]
Indexes == {disk} \cup tmp \cup {copy[p] : p \in Builder}

PackagesTyped ==
  /\ target \in [Builder -> Candidate]
  /\ disk \in Index /\ tmp \subseteq Index /\ copy \in [Builder -> Index]
  /\ archive \in [Candidate -> [Build -> Builder \cup {NoBuilder}]]
  /\ work \in [Builder -> {"idle", "asked", "refused", "served", "done", "dead"} \cup Building]
  /\ number \in [Builder -> {0} \cup Build]
  /\ overlapped \in BOOLEAN /\ deaths \in 0 .. MaxDeaths

(* The builds of a bucket are numbered from 1 without a gap.               *)
Gapless(b, n) == \E k \in 0 .. n : Used(b) = 1 .. k

(* READY is written after the archive, and no archive is ever removed.     *)
Archived(i, a) ==
  \A c \in Candidate, n \in Build : i[c].status[n] = "READY" => a[c][n] # NoBuilder

NumberInv ==
  /\ \A i \in Indexes : Archived(i, archive) /\ \A c \in Candidate :
       Gapless(i[c], Cardinality(Entered))
  /\ \A p \in Builder : work[p] \in AtRecord =>
       /\ Mine(p).latest \in Used(Mine(p))
       /\ work[p] # "creating" => number[p] = Mine(p).latest
       /\ work[p] = "written" => archive[target[p]][number[p]] # NoBuilder

(* READY builds are their candidate's last, with the archive they sealed.  *)
TrueIndex(i, a) ==
  \A c \in Candidate, n \in Build : i[c].status[n] = "READY" =>
    /\ a[c][n] = i[c].sealed[n]
    /\ \A m \in Build : m > n => i[c].status[m] = "none"

(* The latest build is under way: it is the last, and none is READY.       *)
Clear(b) ==
  \A n \in Build : b.status[n] # "READY" /\ (n > b.latest => b.status[n] = "none")

(* The request that builds while builds follow each other: its index, or   *)
(* the temporary file, differs from the index on disk by its own build.    *)
Alone(p) ==
  /\ TrueIndex(copy[p], archive)
  /\ IF work[p] \in Saving THEN tmp = {copy[p]} ELSE copy[p] = disk
  /\ \A c \in Candidate : c # target[p] => copy[p][c] = disk[c]
  /\ Used(disk[target[p]]) \subseteq Used(Mine(p))
  /\ work[p] \in AtRecord \ {"sealing"} => Clear(Mine(p))
  /\ work[p] = "creating" => Mine(p).latest \notin Used(disk[target[p]])
  /\ work[p] \in {"creating", "sealing", "failing"} => ~LatestIs(Mine(p), "BUILDING")
  /\ work[p] = "written" => archive[target[p]][number[p]] = p

SoloInv ==
  ~overlapped =>
    /\ \A p, q \in Builder : work[p] \in Building /\ work[q] \in Building => p = q
    /\ \A p \in Builder : work[p] \in Building => Alone(p)
    /\ TrueIndex(disk, archive)
    /\ \A p \in Numbered : number[p] \in Used(disk[target[p]])

(* While builds follow each other, no two requests build a candidate under *)
(* one number, so no archive is ever overwritten.                          *)
NumbersDiffer ==
  overlapped \/ \A p, q \in Numbered :
    target[p] = target[q] /\ number[p] = number[q] => p = q

PackagesInv ==
  PackagesTyped /\ NumberInv /\ SoloInv /\ NumbersDiffer /\ BuildingForCause

LEMMA EnteredFacts ==
  /\ Cardinality(Builder) \in Nat /\ IsFiniteSet(Entered)
  /\ Cardinality(Entered) \in Nat /\ Cardinality(Entered) <= Cardinality(Builder)
BY FS_CardinalityType, FS_Subset, PackagesAssumption DEF Entered

(* A request that has made no record yet finds a number for it, and then   *)
(* counts itself among those that have.                                    *)
LEMMA NumberLeft ==
  ASSUME NEW p \in Builder, p \notin Entered
  PROVE  /\ Cardinality(Entered) + 1 <= Cardinality(Builder)
         /\ Cardinality(Entered \cup {p}) = Cardinality(Entered) + 1
<1>1. Entered \cup {p} \subseteq Builder
  BY DEF Entered
<1>2. /\ IsFiniteSet(Entered \cup {p})
      /\ Cardinality(Entered \cup {p}) = Cardinality(Entered) + 1
  BY EnteredFacts, FS_AddElement
<1>3. Cardinality(Entered \cup {p}) <= Cardinality(Builder)
  BY <1>1, FS_Subset, PackagesAssumption
<1> QED
  BY <1>2, <1>3

(* The next number of a bucket without gaps is the first that is free.     *)
LEMMA NextIsFree ==
  ASSUME NEW b, NEW k \in Nat, Used(b) = 1 .. k PROVE NextNumber(b) = k + 1
<1>1. Cardinality(1 .. k) = IF 1 > k THEN 0 ELSE k - 1 + 1
  BY FS_Interval
<1> QED
  BY <1>1 DEF NextNumber

LEMMA EmptyFacts ==
  /\ Empty \in Index
  /\ \A c \in Candidate : /\ Used(Empty[c]) = {} /\ Empty[c].latest = 0
                          /\ \A n \in Build : Empty[c].status[n] = "none"
                          /\ \A n \in Nat : Gapless(Empty[c], n)
<1>1. /\ Empty \in Index
      /\ \A c \in Candidate : /\ Used(Empty[c]) = {} /\ Empty[c].latest = 0
                              /\ \A n \in Build : Empty[c].status[n] = "none"
  BY DEF Empty, Index, Bucket, Built, Used
<1>2. 1 .. 0 = {} /\ \A n \in Nat : 0 \in 0 .. n
  OBVIOUS
<1> QED
  BY <1>1, <1>2 DEF Gapless

(* The requests that may have made a record only grow, and so does what    *)
(* bounds the numbers; archives are only added.                            *)
LEMMA IndexesKeep ==
  ASSUME NumberInv, NEW j, Indexes' \subseteq Indexes \cup {Empty, j},
         Entered \subseteq Entered', Entered' \subseteq Builder,
         \A c \in Candidate, n \in Build : archive[c][n] # NoBuilder => archive'[c][n] # NoBuilder,
         Archived(j, archive'), \A c \in Candidate : Gapless(j[c], Cardinality(Entered'))
  PROVE  \A i \in Indexes' : Archived(i, archive') /\ \A c \in Candidate :
           Gapless(i[c], Cardinality(Entered'))
<1>1. /\ Cardinality(Entered) \in Nat /\ Cardinality(Entered') \in Nat
      /\ Cardinality(Entered) <= Cardinality(Entered')
  <2>1. IsFiniteSet(Entered')
    BY FS_Subset, PackagesAssumption
  <2> QED
    BY <2>1, EnteredFacts, FS_Subset, FS_CardinalityType
<1>2. ASSUME NEW i \in Indexes
      PROVE  Archived(i, archive') /\ \A c \in Candidate : Gapless(i[c], Cardinality(Entered'))
  <2>1. Archived(i, archive')
    BY <1>2 DEF NumberInv, Archived
  <2>2. ASSUME NEW c \in Candidate PROVE Gapless(i[c], Cardinality(Entered'))
    <3>1. PICK k \in 0 .. Cardinality(Entered) : Used(i[c]) = 1 .. k
      BY DEF NumberInv, Gapless
    <3> QED
      BY <1>1, <3>1 DEF Gapless
  <2> QED
    BY <2>1, <2>2
<1>3. Archived(Empty, archive') /\ \A c \in Candidate : Gapless(Empty[c], Cardinality(Entered'))
  BY <1>1, EmptyFacts DEF Archived
<1> QED
  BY <1>2, <1>3

(* What a step of one request leaves to the others.                        *)
LEMMA MoveFacts ==
  ASSUME PackagesTyped, NEW p \in Builder, NEW l, At(p, l)
  PROVE  work'[p] = l /\ \A q \in Builder : q # p => work'[q] = work[q]
BY DEF PackagesTyped, At

LEMMA PackagesInitInv == PackagesInit => PackagesInv
<1> SUFFICES ASSUME PackagesInit PROVE PackagesInv
  OBVIOUS
<1>1. PackagesTyped
  <2>1. 0 \in 0 .. MaxDeaths
    BY PackagesAssumption
  <2> QED
    BY <2>1, EmptyFacts DEF PackagesInit, PackagesTyped
<1>2. Indexes = {Empty} /\ Numbered = {}
  BY DEF PackagesInit, Indexes, Numbered
<1>3. NumberInv
  <2>1. Archived(Empty, archive) /\ \A c \in Candidate : Gapless(Empty[c], Cardinality(Entered))
    BY EmptyFacts, EnteredFacts DEF Archived
  <2> QED
    BY <1>2, <2>1 DEF PackagesInit, NumberInv, AtRecord, Saving
<1>4. SoloInv
  <2>1. TrueIndex(disk, archive)
    BY EmptyFacts DEF PackagesInit, TrueIndex
  <2> QED
    BY <1>2, <2>1 DEF PackagesInit, SoloInv, Building, Saving
<1>5. NumbersDiffer /\ BuildingForCause
  BY <1>2, EmptyFacts DEF PackagesInit, NumbersDiffer, BuildingForCause, LatestIs
<1> QED
  BY <1>1, <1>3, <1>4, <1>5 DEF PackagesInv

(* Requests that only look: refused, asked, served.                        *)
LEMMA LookKeeps ==
  ASSUME PackagesInv, NEW p \in Builder, work[p] = "idle",
         NEW l \in {"asked", "refused", "served"}, At(p, l),
         UNCHANGED <<target, disk, tmp, copy, archive, number, overlapped, deaths>>
  PROVE  PackagesInv'
<1>1. work'[p] = l /\ \A q \in Builder : q # p => work'[q] = work[q]
  BY MoveFacts DEF PackagesInv
<1>2. PackagesTyped'
  BY DEF At, PackagesInv, PackagesTyped
<1>3. /\ Entered' = Entered /\ Numbered' = Numbered /\ Indexes' = Indexes
      /\ \A q \in Builder : /\ work'[q] \in Building <=> work[q] \in Building
                            /\ work'[q] \in Building => work'[q] = work[q]
  BY <1>1 DEF Entered, Numbered, Indexes, AtRecord, Building, Saving
<1>4. NumberInv'
  BY <1>1, <1>3 DEF PackagesInv, NumberInv, Mine, AtRecord, Saving
<1>5. SoloInv'
  BY <1>3 DEF PackagesInv, SoloInv, Alone, Mine
<1>6. NumbersDiffer'
  BY <1>3 DEF PackagesInv, NumbersDiffer
<1>7. BuildingForCause'
  BY <1>1 DEF PackagesInv, BuildingForCause
<1> QED
  BY <1>2, <1>4, <1>5, <1>6, <1>7 DEF PackagesInv

(* A request that begins to build, alone or beside another.                *)
LEMMA LoadKeeps ==
  ASSUME PackagesInv, NEW p \in Builder, work[p] \in {"idle", "asked"}, Load(p),
         UNCHANGED <<target, disk, tmp, archive, number, deaths>>
  PROVE  PackagesInv'
<1>1. /\ work'[p] = "loaded" /\ \A q \in Builder : q # p => work'[q] = work[q]
      /\ copy' = [copy EXCEPT ![p] = disk]
      /\ overlapped' = (overlapped \/ \E q \in Builder : work[q] \in Building)
  BY MoveFacts DEF Load, PackagesInv
<1>2. copy'[p] = disk /\ \A q \in Builder : q # p => copy'[q] = copy[q]
  BY <1>1 DEF PackagesInv, PackagesTyped
<1>3. PackagesTyped'
  BY <1>1 DEF Load, At, PackagesInv, PackagesTyped, Building
<1>4. /\ Entered' = Entered /\ Numbered' = Numbered /\ Indexes' \subseteq Indexes
  BY <1>1, <1>2 DEF Entered, Numbered, Indexes, AtRecord, Saving
<1>5. NumberInv'
  BY <1>1, <1>2, <1>4 DEF PackagesInv, NumberInv, Mine, AtRecord, Saving
<1>6. SoloInv'
  <2> SUFFICES ASSUME ~overlapped' PROVE SoloInv'
    BY DEF SoloInv
  <2>1. ~overlapped /\ \A q \in Builder : work[q] \notin Building
    BY <1>1
  <2>2. Alone(p)'
    BY <1>1, <1>2, <2>1 DEF PackagesInv, SoloInv, Alone, Mine, AtRecord, Saving
  <2>3. \A q \in Builder : work'[q] \in Building => q = p
    BY <1>1, <2>1
  <2> QED
    BY <1>4, <2>1, <2>2, <2>3 DEF PackagesInv, SoloInv
<1>7. NumbersDiffer'
  BY <1>1, <1>4 DEF PackagesInv, NumbersDiffer
<1>8. BuildingForCause'
  BY <1>1 DEF PackagesInv, BuildingForCause
<1> QED
  BY <1>3, <1>5, <1>6, <1>7, <1>8 DEF PackagesInv

(* What keeps BUILDING justified: nobody leaves a build that is on disk.   *)
AtBuild == {"building", "written", "sealing", "failing", "dead"}

LEMMA CauseStays ==
  ASSUME BuildingForCause, UNCHANGED <<target, disk, number, overlapped>>,
         overlapped \/ \A q \in Builder : work[q] \in AtBuild => work'[q] \in AtBuild
  PROVE  BuildingForCause'
BY DEF BuildingForCause, AtBuild

LEMMA SaveFacts ==
  ASSUME PackagesTyped, NEW p \in Builder, NEW b \in Bucket, SaveIndex(p, b)
  PROVE  /\ copy' \in [Builder -> Index] /\ tmp' = {copy'[p]} /\ tmp' \subseteq Index
         /\ copy'[p][target[p]] = b
         /\ \A c \in Candidate : c # target[p] => copy'[p][c] = copy[p][c]
         /\ \A q \in Builder : q # p => copy'[q] = copy[q]
BY DEF SaveIndex, PackagesTyped, Index

(* A request writes the temporary file, its own bucket being b now: what b *)
(* has to be so that the invariant is kept.                                *)
LEMMA IndexSaveKeeps ==
  ASSUME PackagesInv, NEW p \in Builder, work[p] \in Building,
         NEW l \in Saving, At(p, l), NEW b \in Bucket, SaveIndex(p, b),
         UNCHANGED <<target, disk, archive, number, overlapped, deaths>>,
         b.latest \in Used(b), Gapless(b, Cardinality(Entered \cup {p})),
         \A n \in Build : b.status[n] = "READY" => archive[target[p]][n] # NoBuilder,
         l # "creating" => number[p] = b.latest,
         work[p] \in {"building", "written", "sealing", "failing"} => l \in {"sealing", "failing"},
         ~overlapped =>
           /\ \A n \in Build : b.status[n] = "READY" =>
                /\ archive[target[p]][n] = b.sealed[n]
                /\ \A m \in Build : m > n => b.status[m] = "none"
           /\ Used(disk[target[p]]) \subseteq Used(b)
           /\ l # "sealing" => Clear(b)
           /\ l = "creating" => b.latest \notin Used(disk[target[p]])
           /\ l # "marking" => ~LatestIs(b, "BUILDING")
  PROVE  PackagesInv'
<1>1. work'[p] = l /\ \A q \in Builder : q # p => work'[q] = work[q]
  BY MoveFacts DEF PackagesInv
<1>2. /\ copy' \in [Builder -> Index] /\ tmp' = {copy'[p]} /\ tmp' \subseteq Index
      /\ copy'[p][target[p]] = b /\ copy'[p] \in Index
      /\ \A c \in Candidate : c # target[p] => copy'[p][c] = copy[p][c]
      /\ \A q \in Builder : q # p => copy'[q] = copy[q]
  BY SaveFacts DEF PackagesInv, PackagesTyped
<1>3. target[p] \in Candidate /\ copy[p] \in Indexes
  BY DEF PackagesInv, PackagesTyped, Indexes
<1>4. /\ Entered' = Entered \cup {p} /\ Numbered' = Numbered
      /\ Indexes' \subseteq Indexes \cup {Empty, copy'[p]}
  <2>1. Entered' = Entered \cup {p} /\ Numbered' = Numbered
    BY <1>1 DEF Entered, Numbered, AtRecord, Saving
  <2> QED
    BY <1>2, <2>1 DEF Indexes
<1>5. PackagesTyped'
  BY <1>2 DEF PackagesInv, PackagesTyped, At, Building
<1>6. NumberInv'
  <2>1. Archived(copy'[p], archive')
    <3>1. Archived(copy[p], archive)
      BY <1>3 DEF PackagesInv, NumberInv
    <3> QED
      BY <1>2, <3>1 DEF Archived
  <2>2. ASSUME NEW c \in Candidate PROVE Gapless(copy'[p][c], Cardinality(Entered'))
    <3>1. CASE c = target[p]
      BY <1>2, <1>4, <3>1
    <3>2. CASE c # target[p]
      <4>1. PICK k \in 0 .. Cardinality(Entered) : Used(copy[p][c]) = 1 .. k
        BY <1>3 DEF PackagesInv, NumberInv, Gapless
      <4>2. k \in 0 .. Cardinality(Entered \cup {p})
        BY NumberLeft, EnteredFacts, p \in Entered => Entered \cup {p} = Entered
      <4> QED
        BY <1>2, <1>4, <3>2, <4>1, <4>2 DEF Gapless
    <3> QED
      BY <3>1, <3>2
  <2>3. \A i \in Indexes' : Archived(i, archive') /\ \A c \in Candidate :
          Gapless(i[c], Cardinality(Entered'))
    <3>1. Entered' \subseteq Builder /\ NumberInv /\ Entered \subseteq Entered'
      BY <1>4 DEF Entered, PackagesInv
    <3> QED
      BY <1>4, <2>1, <2>2, <3>1, IndexesKeep
  <2>4. ASSUME NEW q \in Builder, work'[q] \in AtRecord
        PROVE  /\ Mine(q)'.latest \in Used(Mine(q)')
               /\ work'[q] # "creating" => number'[q] = Mine(q)'.latest
               /\ work'[q] = "written" => archive'[target[q]][number[q]] # NoBuilder
    BY <1>1, <1>2, <2>4 DEF PackagesInv, NumberInv, Mine, Saving
  <2> QED
    BY <2>3, <2>4 DEF NumberInv
<1>7. SoloInv'
  <2> SUFFICES ASSUME ~overlapped PROVE SoloInv'
    BY DEF SoloInv
  <2>1. Alone(p) /\ \A q \in Builder : work[q] \in Building => q = p
    BY DEF PackagesInv, SoloInv
  <2>2. \A q \in Builder : work'[q] \in Building => q = p
    BY <1>1, <2>1
  <2>3. TrueIndex(copy'[p], archive)
    BY <1>2, <2>1 DEF Alone, TrueIndex
  <2>4. Alone(p)'
    BY <1>1, <1>2, <2>1, <2>3 DEF Alone, Mine, Saving
  <2> QED
    BY <1>4, <2>2, <2>4 DEF PackagesInv, SoloInv
<1>8. NumbersDiffer'
  BY <1>4 DEF PackagesInv, NumbersDiffer
<1>9. BuildingForCause'
  <2>1. \A q \in Builder : work[q] \in AtBuild => work'[q] \in AtBuild
    BY <1>1 DEF AtBuild, Building, Saving
  <2> QED
    BY <2>1, CauseStays DEF PackagesInv
<1> QED
  BY <1>5, <1>6, <1>7, <1>8, <1>9 DEF PackagesInv

LEMMA CreateRecordKeeps ==
  ASSUME PackagesInv, NEW p \in Builder, CreateRecord(p) PROVE PackagesInv'
<1> DEFINE old == Mine(p)
           n == NextNumber(old)
           new == [old EXCEPT !.latest = n, !.sealed[n] = NoBuilder,
                    !.status = [m \in Build |-> IF m = n THEN "QUEUED" ELSE Superseded(@[m])]]
<1>1. /\ work[p] = "loaded" /\ At(p, "creating") /\ SaveIndex(p, new)
      /\ UNCHANGED <<target, disk, archive, number, overlapped, deaths>>
  BY DEF CreateRecord, Mine
<1>2. /\ target[p] \in Candidate /\ copy[p] \in Indexes /\ old \in Bucket
      /\ p \notin Entered
  BY <1>1 DEF PackagesInv, PackagesTyped, Indexes, Index, Mine, Entered, AtRecord, Saving
<1>3. PICK k \in 0 .. Cardinality(Entered) : Used(old) = 1 .. k
  BY <1>2 DEF PackagesInv, NumberInv, Gapless, Mine
<1>4. k \in Nat /\ n = k + 1
  BY <1>3, NextIsFree, EnteredFacts
<1>5. /\ k + 1 \in 1 .. Cardinality(Builder) /\ k + 1 \in 0 .. Cardinality(Entered \cup {p})
  BY <1>2, <1>3, <1>4, NumberLeft, EnteredFacts
<1>6. n \in Build /\ n \notin Used(old) /\ \A m \in Build : m > n => m \notin Used(old)
  <2> HIDE DEF n, old
  <2> QED
    BY <1>3, <1>4, <1>5 DEF Build
<1> HIDE DEF n
<1>7. /\ new \in Bucket /\ new.latest = n /\ new.status[n] = "QUEUED"
      /\ \A m \in Build : m # n => new.status[m] = Superseded(old.status[m])
  BY <1>2, <1>6 DEF Bucket, Built, Superseded
<1> HIDE DEF old, new
<1>8. Used(new) = Used(old) \cup {n}
  <2>1. ASSUME NEW m \in Build PROVE m \in Used(new) <=> m \in Used(old) \cup {n}
    BY <1>6, <1>7 DEF Used, Superseded
  <2>2. Used(new) \subseteq Build /\ Used(old) \subseteq Build
    BY DEF Used
  <2> QED
    BY <1>6, <2>1, <2>2
<1>9. Gapless(new, Cardinality(Entered \cup {p}))
  <2>1. Used(new) = 1 .. (k + 1)
    BY <1>3, <1>4, <1>8
  <2> QED
    BY <1>5, <2>1 DEF Gapless
<1>10. \A m \in Build : new.status[m] # "READY" /\ (m > n => new.status[m] = "none")
  BY <1>6, <1>7 DEF Used, Superseded, Build
<1>11. ~overlapped => old = disk[target[p]]
  BY <1>1 DEF PackagesInv, SoloInv, Alone, Mine, Building, Saving, old
<1> QED
  BY <1>1, <1>6, <1>7, <1>8, <1>9, <1>10, <1>11, IndexSaveKeeps
     DEF Clear, LatestIs, Building, Saving

(* A request gives its own build a status: not READY, or its archive.      *)
LEMMA SetStatusKeeps ==
  ASSUME PackagesInv, NEW p \in Builder, work[p] \in AtRecord \ {"creating"},
         NEW l \in Saving \ {"creating"}, At(p, l),
         NEW st \in {"BUILDING", "READY", "FAILED"}, SetStatus(p, st),
         st = "BUILDING" <=> l = "marking", l = "marking" <=> work[p] = "queued",
         st = "READY" <=> l = "sealing", st = "READY" => work[p] = "written",
         work[p] = "sealing" => overlapped,
         UNCHANGED <<target, disk, archive, number, overlapped, deaths>>
  PROVE  PackagesInv'
<1> DEFINE old == Mine(p)
           n == number[p]
           new == [old EXCEPT !.latest = n, !.status[n] = st,
                              !.sealed[n] = IF st = "READY" THEN p ELSE @]
<1>1. SaveIndex(p, new)
  BY DEF SetStatus, Mine
<1>2. /\ target[p] \in Candidate /\ copy[p] \in Indexes /\ old \in Bucket
      /\ n = old.latest /\ n \in Used(old) /\ p \in Entered /\ work[p] \in Building
  BY DEF PackagesInv, PackagesTyped, NumberInv, Indexes, Index, Mine, Entered, AtRecord,
         Building, Saving
<1>3. /\ n \in Build /\ old.status[n] # "none"
      /\ Gapless(old, Cardinality(Entered)) /\ Archived(copy[p], archive)
  BY <1>2 DEF PackagesInv, NumberInv, Mine, Used
<1> HIDE DEF n
<1>4. /\ new \in Bucket /\ new.latest = n /\ new.status[n] = st
      /\ st = "READY" => new.sealed[n] = p
      /\ \A m \in Build : m # n => new.status[m] = old.status[m] /\ new.sealed[m] = old.sealed[m]
  BY <1>2, <1>3 DEF Bucket, Built
<1>5. \A m \in Build : old.status[m] = "READY" => archive[target[p]][m] # NoBuilder
  BY <1>2, <1>3 DEF Archived, Mine
<1>6. st = "READY" => archive[target[p]][n] # NoBuilder
  BY DEF PackagesInv, NumberInv, AtRecord, Building, Saving, n
<1>7. ~overlapped =>
        /\ Clear(old) /\ Used(disk[target[p]]) \subseteq Used(old)
        /\ st = "READY" => archive[target[p]][n] = p
  BY <1>2 DEF PackagesInv, SoloInv, Alone, Mine, n
<1> HIDE DEF old, new
<1>8. Used(new) = Used(old)
  BY <1>3, <1>4 DEF Used
<1>9. Gapless(new, Cardinality(Entered \cup {p}))
  <2>1. Entered \cup {p} = Entered
    BY <1>2
  <2> QED
    BY <1>3, <1>8, <2>1 DEF Gapless
<1>10. \A m \in Build : new.status[m] = "READY" => archive[target[p]][m] # NoBuilder
  BY <1>4, <1>5, <1>6
<1>11. ASSUME ~overlapped, NEW m \in Build
       PROVE  /\ new.status[m] = "READY" => m = n /\ st = "READY"
              /\ m > n => new.status[m] = "none"
  BY <1>2, <1>3, <1>4, <1>7, <1>11 DEF Clear, Build
<1>12. ~overlapped => /\ \A m \in Build : new.status[m] = "READY" =>
                           /\ archive[target[p]][m] = new.sealed[m]
                           /\ \A o \in Build : o > m => new.status[o] = "none"
                      /\ Used(disk[target[p]]) \subseteq Used(new)
                      /\ l # "sealing" => Clear(new)
                      /\ l = "creating" => new.latest \notin Used(disk[target[p]])
                      /\ l # "marking" => ~LatestIs(new, "BUILDING")
  BY <1>4, <1>7, <1>8, <1>11 DEF Clear, LatestIs
<1>13. new.latest \in Used(new) /\ number[p] = new.latest
  BY <1>2, <1>4, <1>8 DEF n
<1> QED
  <2>1. work[p] \in {"building", "written", "sealing", "failing"} => l \in {"sealing", "failing"}
    BY DEF Saving
  <2> QED
    BY <1>1, <1>2, <1>4, <1>9, <1>10, <1>12, <1>13, <2>1, IndexSaveKeeps

LEMMA WriteArchiveKeeps ==
  ASSUME PackagesInv, NEW p \in Builder, WriteArchive(p) PROVE PackagesInv'
<1>1. /\ work[p] = "building" /\ work' = [work EXCEPT ![p] = "written"]
      /\ archive' = [archive EXCEPT ![target[p]][number[p]] = p]
      /\ UNCHANGED <<target, disk, tmp, copy, number, overlapped, deaths>>
  BY DEF WriteArchive, At
<1>2. /\ work'[p] = "written" /\ \A q \in Builder : q # p => work'[q] = work[q]
      /\ target[p] \in Candidate /\ number[p] \in Build /\ number[p] = Mine(p).latest
  BY <1>1 DEF PackagesInv, PackagesTyped, NumberInv, AtRecord, Used
<1>3. PackagesTyped'
  BY <1>1, <1>2 DEF PackagesInv, PackagesTyped, Building
<1>4. /\ archive'[target[p]][number[p]] = p
      /\ \A c \in Candidate, n \in Build :
           archive'[c][n] = archive[c][n] \/ (c = target[p] /\ n = number[p] /\ archive'[c][n] = p)
  BY <1>1, <1>2 DEF PackagesInv, PackagesTyped
<1>5. /\ Entered' = Entered /\ Numbered' = Numbered /\ Indexes' = Indexes
      /\ p # NoBuilder
  BY <1>1, <1>2, PackagesAssumption DEF Entered, Numbered, Indexes, AtRecord
<1>6. NumberInv'
  <2>1. \A c \in Candidate, n \in Build : archive[c][n] # NoBuilder => archive'[c][n] # NoBuilder
    BY <1>4, <1>5
  <2>2. ASSUME NEW i \in Indexes PROVE Archived(i, archive')
    BY <2>1 DEF PackagesInv, NumberInv, Archived
  <2>3. ASSUME NEW q \in Builder, work'[q] \in AtRecord
        PROVE  /\ Mine(q)'.latest \in Used(Mine(q)')
               /\ work'[q] # "creating" => number'[q] = Mine(q)'.latest
    BY <1>1, <1>2, <2>3 DEF PackagesInv, NumberInv, Mine, AtRecord
  <2>4. ASSUME NEW q \in Builder, work'[q] = "written"
        PROVE  archive'[target[q]][number[q]] # NoBuilder
    <3>1. CASE q = p
      BY <1>4, <1>5, <3>1
    <3>2. CASE q # p
      <4>1. work[q] = "written"
        BY <1>2, <2>4, <3>2
      <4>2. target[q] \in Candidate /\ number[q] \in Build
        BY <4>1 DEF PackagesInv, PackagesTyped, NumberInv, AtRecord, Used
      <4> QED
        BY <2>1, <4>1, <4>2 DEF PackagesInv, NumberInv, AtRecord
    <3> QED
      BY <3>1, <3>2
  <2> QED
    BY <1>1, <1>5, <2>2, <2>3, <2>4 DEF PackagesInv, NumberInv
<1>7. SoloInv'
  <2> SUFFICES ASSUME ~overlapped PROVE SoloInv'
    BY <1>1 DEF SoloInv
  <2>1. Alone(p) /\ \A q \in Builder : work[q] \in Building => q = p
    BY <1>1 DEF PackagesInv, SoloInv, Building
  <2>2. \A q \in Builder : work'[q] \in Building => q = p
    BY <1>2, <2>1
  <2>3. Clear(Mine(p)) /\ copy[p] = disk
    BY <1>1, <2>1 DEF Alone, AtRecord, Saving
  <2>4. TrueIndex(disk, archive)'
    <3> SUFFICES ASSUME NEW c \in Candidate, NEW n \in Build, disk[c].status[n] = "READY"
                 PROVE  /\ archive'[c][n] = disk[c].sealed[n]
                        /\ \A m \in Build : m > n => disk[c].status[m] = "none"
      BY <1>1 DEF TrueIndex
    <3>1. archive'[c][n] = archive[c][n]
      BY <1>4, <2>3 DEF Clear, Mine
    <3> QED
      BY <3>1 DEF PackagesInv, SoloInv, TrueIndex
  <2>5. Alone(p)'
    BY <1>1, <1>2, <1>4, <2>1, <2>3, <2>4 DEF Alone, Mine, Saving
  <2> QED
    BY <1>1, <1>5, <2>2, <2>4, <2>5 DEF PackagesInv, SoloInv
<1>8. NumbersDiffer'
  BY <1>1, <1>5 DEF PackagesInv, NumbersDiffer
<1>9. BuildingForCause'
  <2>1. \A q \in Builder : work[q] \in AtBuild => work'[q] \in AtBuild
    BY <1>2 DEF AtBuild
  <2> QED
    BY <1>1, <2>1, CauseStays DEF PackagesInv
<1> QED
  BY <1>3, <1>6, <1>7, <1>8, <1>9 DEF PackagesInv

(* A request leaves its build without a trace, or dies.                    *)
LEMMA QuitKeeps ==
  ASSUME PackagesInv, NEW p \in Builder, work[p] \in Building,
         NEW l \in {"done", "dead"}, Quit(p, l),
         overlapped \/ l = "dead" \/ work[p] \notin AtBuild, deaths' \in 0 .. MaxDeaths,
         UNCHANGED <<target, disk, tmp, archive, number, overlapped>>
  PROVE  PackagesInv'
<1>1. /\ work'[p] = l /\ \A q \in Builder : q # p => work'[q] = work[q]
      /\ copy' = [copy EXCEPT ![p] = Empty]
  BY MoveFacts DEF Quit, PackagesInv
<1>2. copy'[p] = Empty /\ \A q \in Builder : q # p => copy'[q] = copy[q]
  BY <1>1 DEF PackagesInv, PackagesTyped
<1>3. PackagesTyped'
  BY <1>1, EmptyFacts DEF Quit, At, PackagesInv, PackagesTyped
<1>4. /\ Entered' = Entered \cup {p} /\ Numbered' = Numbered
      /\ Indexes' \subseteq Indexes \cup {Empty}
  BY <1>1, <1>2 DEF Entered, Numbered, Indexes
<1>5. NumberInv'
  <2>1. \A i \in Indexes' : Archived(i, archive') /\ \A c \in Candidate :
          Gapless(i[c], Cardinality(Entered'))
    <3>1. /\ Entered' \subseteq Builder /\ Entered \subseteq Entered' /\ NumberInv
          /\ Archived(Empty, archive')
      BY <1>4, EmptyFacts DEF Entered, PackagesInv, Archived
    <3>2. Cardinality(Entered') \in Nat
      BY <3>1, FS_Subset, FS_CardinalityType, PackagesAssumption
    <3> QED
      BY <1>4, <3>1, <3>2, EmptyFacts, IndexesKeep
  <2> QED
    BY <1>1, <1>2, <2>1 DEF PackagesInv, NumberInv, Mine, AtRecord, Saving
<1>6. SoloInv'
  <2> SUFFICES ASSUME ~overlapped PROVE SoloInv'
    BY DEF SoloInv
  <2>1. \A q \in Builder : work[q] \in Building => q = p
    BY DEF PackagesInv, SoloInv
  <2>2. \A q \in Builder : work'[q] \notin Building
    BY <1>1, <2>1 DEF Building, Saving
  <2> QED
    BY <1>4, <2>2 DEF PackagesInv, SoloInv
<1>7. NumbersDiffer'
  BY <1>4 DEF PackagesInv, NumbersDiffer
<1>8. BuildingForCause'
  <2>1. overlapped \/ \A q \in Builder : work[q] \in AtBuild => work'[q] \in AtBuild
    BY <1>1 DEF AtBuild
  <2> QED
    BY <2>1, CauseStays DEF PackagesInv
<1> QED
  BY <1>3, <1>5, <1>6, <1>7, <1>8 DEF PackagesInv

(* The temporary file becomes the index: while builds follow each other it *)
(* is the request's own.                                                   *)
LEMMA RenameKeeps ==
  ASSUME PackagesInv, NEW p \in Builder, Rename(p) PROVE PackagesInv'
<1> DEFINE l == work'[p]
<1>1. /\ work[p] \in Saving /\ At(p, l)
      /\ \/ /\ work[p] = "creating" /\ l = "queued" /\ copy' = copy
            /\ number' = [number EXCEPT ![p] = Mine(p).latest]
         \/ work[p] = "marking" /\ l = "building" /\ copy' = copy /\ number' = number
         \/ /\ work[p] \in {"sealing", "failing"} /\ l = "done" /\ number' = number
            /\ copy' = [copy EXCEPT ![p] = Empty]
      /\ disk' \in tmp /\ tmp' = {} /\ UNCHANGED <<target, archive, overlapped, deaths>>
  <2>1. ASSUME NEW m, At(p, m) PROVE m = l
    BY <2>1, MoveFacts DEF PackagesInv
  <2> QED
    BY <2>1 DEF Rename, Quit, After, Mine, Saving
<1>2. /\ \A q \in Builder : q # p => /\ work'[q] = work[q] /\ copy'[q] = copy[q]
                                     /\ number'[q] = number[q]
      /\ l # "done" => copy'[p] = copy[p]
      /\ l = "queued" => number'[p] = Mine(p).latest
      /\ l # "queued" => number'[p] = number[p]
      /\ l = "done" => copy'[p] = Empty
  BY <1>1 DEF At, PackagesInv, PackagesTyped
<1>3. /\ target[p] \in Candidate /\ Mine(p).latest \in Used(Mine(p))
      /\ Mine(p).latest \in Build /\ Mine(p).latest # 0
      /\ l # "queued" => number[p] = Mine(p).latest
  BY <1>1 DEF PackagesInv, PackagesTyped, NumberInv, AtRecord, Used, Build
<1> HIDE DEF l
<1>4. PackagesTyped'
  BY <1>1, <1>3, EmptyFacts DEF PackagesInv, PackagesTyped, At, Building
<1>5. /\ Entered' = Entered /\ Indexes' \subseteq Indexes \cup {Empty}
      /\ Numbered' = IF l = "queued" THEN Numbered \cup {p} ELSE Numbered
  <2>1. Entered' = Entered
    BY <1>1, <1>2 DEF Entered, AtRecord, Saving, l
  <2>2. Indexes' \subseteq Indexes \cup {Empty}
    BY <1>1, <1>2 DEF Indexes
  <2>3. Numbered' = IF l = "queued" THEN Numbered \cup {p} ELSE Numbered
    BY <1>1, <1>2, <1>3 DEF Numbered
  <2> QED
    BY <2>1, <2>2, <2>3
<1>6. NumberInv'
  <2>1. \A i \in Indexes' : Archived(i, archive') /\ \A c \in Candidate :
          Gapless(i[c], Cardinality(Entered'))
    <3>1. /\ Entered' \subseteq Builder /\ Entered \subseteq Entered' /\ NumberInv
          /\ Archived(Empty, archive') /\ Cardinality(Entered') \in Nat
      BY <1>5, EmptyFacts, EnteredFacts DEF Entered, PackagesInv, Archived
    <3> QED
      BY <1>1, <1>5, <3>1, EmptyFacts, IndexesKeep
  <2>2. ASSUME NEW q \in Builder, work'[q] \in AtRecord
        PROVE  /\ Mine(q)'.latest \in Used(Mine(q)')
               /\ work'[q] # "creating" => number'[q] = Mine(q)'.latest
               /\ work'[q] = "written" => archive'[target[q]][number'[q]] # NoBuilder
    <3>1. CASE q = p
      BY <1>1, <1>2, <1>3, <2>2, <3>1 DEF Mine, AtRecord, Saving, l
    <3>2. CASE q # p
      BY <1>1, <1>2, <2>2, <3>2 DEF PackagesInv, NumberInv, Mine
    <3> QED
      BY <3>1, <3>2
  <2> QED
    BY <1>1, <2>1, <2>2 DEF NumberInv
<1>7. ASSUME ~overlapped
      PROVE  /\ Alone(p) /\ disk' = copy[p] /\ \A q \in Builder : work[q] \in Building => q = p
             /\ \A c \in Candidate : c # target[p] => disk'[c] = disk[c]
  BY <1>1, <1>7 DEF PackagesInv, SoloInv, Alone, Building
<1>8. SoloInv'
  <2> SUFFICES ASSUME ~overlapped PROVE SoloInv'
    BY <1>1 DEF SoloInv
  <2>1. \A q \in Builder : work'[q] \in Building => q = p
    BY <1>2, <1>7
  <2>2. TrueIndex(disk, archive)'
    BY <1>1, <1>7 DEF Alone
  <2>3. work'[p] \in Building => Alone(p)'
    BY <1>1, <1>2, <1>7, <2>2 DEF Alone, Mine, AtRecord, Building, Saving, l
  <2>4. \A q \in Numbered' : number'[q] \in Used(disk'[target[q]])
    <3>1. ASSUME NEW q \in Numbered' PROVE number'[q] \in Used(disk'[target[q]])
      <4>1. CASE q = p /\ l = "queued"
        BY <1>2, <1>3, <1>7, <4>1 DEF Mine
      <4>2. CASE q \in Numbered /\ number'[q] = number[q]
        <5>1. number[q] \in Used(disk[target[q]]) /\ target[q] \in Candidate
          BY <4>2 DEF PackagesInv, PackagesTyped, SoloInv, Numbered
        <5>2. CASE target[q] = target[p]
          BY <1>7, <4>2, <5>1, <5>2 DEF Alone, Mine
        <5>3. CASE target[q] # target[p]
          BY <1>7, <4>2, <5>1, <5>3
        <5> QED
          BY <5>2, <5>3
      <4> QED
        BY <1>2, <1>5, <3>1, <4>1, <4>2 DEF Numbered
    <3> QED
      BY <3>1
  <2> QED
    BY <1>1, <2>1, <2>2, <2>3, <2>4 DEF SoloInv
<1>9. NumbersDiffer'
  <2> SUFFICES ASSUME ~overlapped, l = "queued" PROVE NumbersDiffer'
    BY <1>1, <1>2, <1>5 DEF PackagesInv, NumbersDiffer, Numbered
  <2>1. ASSUME NEW q \in Numbered, target[q] = target[p] PROVE number[q] # Mine(p).latest
    <3>1. number[q] \in Used(disk[target[p]])
      BY <2>1 DEF PackagesInv, SoloInv
    <3>2. Mine(p).latest \notin Used(disk[target[p]])
      BY <1>1, <1>7 DEF Alone
    <3> QED
      BY <3>1, <3>2
  <2>2. \A q \in Builder : number'[q] = IF q = p THEN Mine(p).latest ELSE number[q]
    BY <1>2
  <2> QED
    BY <1>1, <1>5, <2>1, <2>2 DEF PackagesInv, NumbersDiffer, Numbered
<1>10. BuildingForCause'
  <2> SUFFICES ASSUME ~overlapped, NEW c \in Candidate, LatestIs(disk'[c], "BUILDING")
               PROVE  \E q \in Builder : /\ work'[q] \in AtBuild /\ target[q] = c
                                         /\ number'[q] = disk'[c].latest
    BY <1>1 DEF BuildingForCause, AtBuild
  <2>1. CASE c = target[p]
    <3>1. disk'[c] = Mine(p)
      BY <1>7, <2>1 DEF Mine
    <3>2. l = "building"
      BY <1>1, <1>7, <3>1 DEF Alone
    <3> QED
      BY <1>2, <1>3, <2>1, <3>1, <3>2 DEF AtBuild, l
  <2>2. CASE c # target[p]
    <3>1. PICK q \in Builder : /\ work[q] \in AtBuild /\ target[q] = c
                               /\ number[q] = disk[c].latest
      BY <1>7, <2>2 DEF PackagesInv, BuildingForCause, AtBuild
    <3> QED
      BY <1>2, <1>7, <2>2, <3>1
  <2> QED
    BY <2>1, <2>2
<1> QED
  BY <1>4, <1>6, <1>8, <1>9, <1>10 DEF PackagesInv

LEMMA PackagesStepInv == PackagesInv /\ [PackagesNext]_packageVars => PackagesInv'
<1> SUFFICES ASSUME PackagesInv, [PackagesNext]_packageVars PROVE PackagesInv'
  OBVIOUS
<1>1. CASE UNCHANGED packageVars
  <2>1. /\ UNCHANGED <<target, disk, tmp, copy, archive, work, number, overlapped, deaths>>
        /\ Entered' = Entered /\ Numbered' = Numbered /\ Indexes' = Indexes
    BY <1>1 DEF packageVars, Entered, Numbered, Indexes
  <2>2. PackagesTyped'
    BY <2>1 DEF PackagesInv, PackagesTyped
  <2>3. NumberInv'
    BY <2>1 DEF PackagesInv, NumberInv, Mine
  <2>4. SoloInv'
    BY <2>1 DEF PackagesInv, SoloInv, Alone, Mine
  <2>5. NumbersDiffer' /\ BuildingForCause'
    BY <2>1, CauseStays DEF PackagesInv, NumbersDiffer
  <2> QED
    BY <2>2, <2>3, <2>4, <2>5 DEF PackagesInv
<1>2. ASSUME NEW p \in Builder, RequestPackage(p) \/ OpenStore(p) \/ Download(p)
      PROVE  PackagesInv'
  <2>1. CASE RequestPackage(p)
    <3>1. work[p] = "idle" /\ (At(p, "refused") \/ At(p, "asked"))
      BY <2>1 DEF RequestPackage
    <3> QED
      BY <2>1, <3>1, LookKeeps DEF RequestPackage
  <2>2. CASE OpenStore(p)
    BY <2>2, LoadKeeps DEF OpenStore
  <2>3. CASE Download(p)
    BY <2>3, LookKeeps, LoadKeeps DEF Download
  <2> QED
    BY <1>2, <2>1, <2>2, <2>3
<1>3. ASSUME NEW p \in Builder, Begin(p) \/ Finish(p) \/ Fail(p) PROVE PackagesInv'
  <2>1. CASE Begin(p)
    BY <2>1, SetStatusKeeps DEF Begin, AtRecord, Saving
  <2>2. CASE Finish(p)
    BY <2>2, SetStatusKeeps DEF Finish, AtRecord, Saving
  <2>3. CASE Fail(p)
    <3>1. work[p] = "sealing" => overlapped
      BY <2>3 DEF Fail, Failing, PackagesInv, SoloInv, Alone, Building, Saving
    <3> QED
      BY <2>3, <3>1, SetStatusKeeps DEF Fail, Failing, AtRecord, Saving
  <2> QED
    BY <1>3, <2>1, <2>2, <2>3
<1>4. ASSUME NEW p \in Builder, Raise(p) \/ Die(p) PROVE PackagesInv'
  <2>1. CASE Raise(p)
    <3>1. overlapped \/ work[p] \notin AtBuild
      BY <2>1 DEF Raise, PackagesInv, SoloInv, Alone, AtBuild, Building, Saving
    <3> QED
      BY <2>1, <3>1, QuitKeeps DEF Raise, PackagesInv, PackagesTyped, Building, Saving
  <2>2. CASE Die(p)
    BY <2>2, QuitKeeps, PackagesAssumption DEF Die, PackagesInv, PackagesTyped
  <2> QED
    BY <1>4, <2>1, <2>2
<1> QED
  BY <1>1, <1>2, <1>3, <1>4, CreateRecordKeeps, WriteArchiveKeeps, RenameKeeps DEF PackagesNext

(* The index, its copies, the temporary file, the archives and the         *)
(* requests fit together, however many processes build, and die, on one    *)
(* store (storage.py, builder.py).                                         *)
THEOREM PackagesInvariant == PackagesSpec => []PackagesInv
BY PackagesInitInv, PackagesStepInv, PTL DEF PackagesSpec

(* What the store calls READY has an archive, whatever processes overwrite *)
(* (set_status follows the rename of the archive); and as long as builds   *)
(* follow each other, those of other candidates too, it is the latest      *)
(* build of its candidate and the archive that was sealed.                 *)
THEOREM ReadyIsTrue == PackagesSpec => []ReadyTrue
<1>1. PackagesInv => ReadyTrue
  <2>1. disk \in Indexes
    BY DEF Indexes
  <2> QED
    BY <2>1 DEF PackagesInv, NumberInv, Archived, SoloInv, TrueIndex, ReadyTrue
<1> QED
  BY <1>1, PackagesInvariant, PTL

(* As long as builds follow each other, requests are only refused because  *)
(* of a process that is at that build or has died there: every failure     *)
(* inside the builder's try writes FAILED (builder.py).                    *)
THEOREM BuildingHasCause == PackagesSpec => []BuildingForCause
<1>1. PackagesInv => BuildingForCause
  BY DEF PackagesInv
<1> QED
  BY <1>1, PackagesInvariant, PTL

(* The type invariant of the packages; with it, no bucket of the index, of *)
(* the temporary file or of a copy has a gap in its numbers, even when     *)
(* builds overlap (create_record).                                         *)
THEOREM PackagesTyping == PackagesSpec => []PackagesTypeOK
<1>1. ASSUME NEW b, NEW n \in Nat, Gapless(b, n) PROVE Used(b) = 1 .. Cardinality(Used(b))
  <2>1. PICK k \in 0 .. n : Used(b) = 1 .. k
    BY <1>1 DEF Gapless
  <2>2. Cardinality(Used(b)) = k
    BY <2>1, FS_Interval
  <2> QED
    BY <2>1, <2>2
<1>2. PackagesInv => PackagesTypeOK
  BY <1>1, EnteredFacts DEF PackagesInv, PackagesTyped, NumberInv, Indexes, PackagesTypeOK
<1> QED
  BY <1>2, PackagesInvariant, PTL

(* As long as builds follow each other no archive is written twice         *)
(* (create_record numbers past every build of the candidate).              *)
THEOREM BuildNumbersDiffer == PackagesSpec => []NumbersDiffer
<1>1. PackagesInv => NumbersDiffer
  BY DEF PackagesInv
<1> QED
  BY <1>1, PackagesInvariant, PTL
=============================================================================
