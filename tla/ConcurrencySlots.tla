--------------------------- MODULE ConcurrencySlots ---------------------------
(***************************************************************************)
(* ConcurrencyManager over InMemoryConcurrencyStore (concurrency.py) for   *)
(* one scope: tasks of several owners share the scope's slots, and the     *)
(* tasks of one owner share one slot with a reference count.               *)
(*                                                                         *)
(* Everything runs on one event loop and nothing suspends inside the       *)
(* scope's lock, so a method is one step, but for acquire, which waits     *)
(* between its attempts. cleanup_stale may take a slot from an owner that  *)
(* is at work: only the caller sends heartbeats.                           *)
(***************************************************************************)
EXTENDS Naturals, FiniteSets

CONSTANTS Task,
          NoTask,
          Owner,
          OwnerOf,    \* owner of each task
          SlotLimit   \* limit of the scope

ASSUME SlotsAssumption ==
  /\ IsFiniteSet(Task) /\ NoTask \notin Task
  /\ IsFiniteSet(Owner) /\ OwnerOf \in [Task -> Owner]
  /\ SlotLimit \in Nat \ {0}

VARIABLES refs,     \* ref_count of each owner's slot, 0: no slot
          waiting,  \* the task whose event is kept for each owner
          woken,    \* tasks whose event is set
          place,    \* where each task is
          evicted   \* history: owners that cleanup_stale took a slot from

slotsVars == <<refs, waiting, woken, place, evicted>>

SlotsInit ==
  /\ refs = [o \in Owner |-> 0]
  /\ waiting = [o \in Owner |-> NoTask]
  /\ woken = {}
  /\ place = [t \in Task |-> "outside"]
  /\ evicted = {}

-----------------------------------------------------------------------------
Slots     == {o \in Owner : refs[o] > 0}
Inside(o) == {t \in Task : OwnerOf[t] = o /\ place[t] = "inside"}
Move(t, p) == place' = [place EXCEPT ![t] = p]

(* One attempt of acquire, the first or one after a wait: share the        *)
(* owner's slot, or take a free one, or leave a fresh event and wait.      *)
FreeSlot == Cardinality(Slots) < SlotLimit
AttemptForgets(t) ==
  LET o == OwnerOf[t] IN
  \/ /\ refs[o] > 0 \/ FreeSlot
     /\ refs' = [refs EXCEPT ![o] = 1]
     /\ Move(t, "inside") /\ UNCHANGED <<waiting, woken>>
  \/ /\ refs[o] = 0 /\ ~FreeSlot
     /\ Move(t, "waiting") /\ waiting' = [waiting EXCEPT ![o] = t]
     /\ woken' = woken \ {t} /\ UNCHANGED refs
Attempt(t) ==
  LET o == OwnerOf[t] IN
  \/ /\ refs[o] > 0 \/ FreeSlot
     /\ refs' = [refs EXCEPT ![o] = refs[o] + 1]
     /\ Move(t, "inside") /\ UNCHANGED <<waiting, woken>>
  \/ /\ refs[o] = 0 /\ ~FreeSlot
     /\ Move(t, "waiting") /\ waiting' = [waiting EXCEPT ![o] = t]
     /\ woken' = woken \ {t} /\ UNCHANGED refs

Acquire(t) == place[t] = "outside" /\ Attempt(t) /\ UNCHANGED evicted

(* The wait ends with the event, or after half a second without it.        *)
TryAgain(t) == place[t] = "waiting" /\ Attempt(t) /\ UNCHANGED evicted

(* The timeout is over: acquire gives up, and leaves its event behind.     *)
TimeOut(t) ==
  /\ place[t] = "waiting" /\ Move(t, "gone")
  /\ UNCHANGED <<refs, waiting, woken, evicted>>

(* The waiting task is cancelled and takes its own event along.            *)
CancelWait(t) ==
  LET o == OwnerOf[t] IN
  /\ place[t] = "waiting" /\ Move(t, "gone")
  /\ waiting' = [waiting EXCEPT ![o] = IF @ = t THEN NoTask ELSE @]
  /\ UNCHANGED <<refs, woken, evicted>>

(* _notify_waiter: set one event that is kept, even one nobody waits for.  *)
Notify ==
  \/ /\ \A o \in Owner : waiting[o] = NoTask
     /\ UNCHANGED <<waiting, woken>>
  \/ \E o \in Owner : /\ waiting[o] # NoTask
                      /\ woken' = woken \cup {waiting[o]}
                      /\ waiting' = [waiting EXCEPT ![o] = NoTask]

(* The task leaves the manager's block, by its end, an exception or a      *)
(* cancellation: release of the owner's slot, if there is one.             *)
LeaveUnlessCancelled(t) ==
  LET o == OwnerOf[t] IN
  /\ place[t] = "inside" /\ Move(t, "gone")
  /\ \/ UNCHANGED <<refs, waiting, woken>>
     \/ refs[o] > 1 /\ refs' = [refs EXCEPT ![o] = @ - 1] /\ UNCHANGED <<waiting, woken>>
     \/ refs[o] = 1 /\ refs' = [refs EXCEPT ![o] = 0] /\ Notify
  /\ UNCHANGED evicted
Leave(t) ==
  LET o == OwnerOf[t] IN
  /\ place[t] = "inside" /\ Move(t, "gone")
  /\ \/ refs[o] = 0 /\ UNCHANGED <<refs, waiting, woken>>
     \/ refs[o] > 1 /\ refs' = [refs EXCEPT ![o] = @ - 1] /\ UNCHANGED <<waiting, woken>>
     \/ refs[o] = 1 /\ refs' = [refs EXCEPT ![o] = 0] /\ Notify
  /\ UNCHANGED evicted

(* cleanup_stale: the slots S have not been refreshed; one waiter is told. *)
CleanUp(S) ==
  /\ S # {} /\ S \subseteq Slots
  /\ refs' = [o \in Owner |-> IF o \in S THEN 0 ELSE refs[o]]
  /\ evicted' = evicted \cup S
  /\ Notify /\ UNCHANGED place

SlotsNext ==
  \/ \E t \in Task : \/ Acquire(t) \/ TryAgain(t)
                     \/ TimeOut(t) \/ CancelWait(t)
                     \/ Leave(t)
  \/ \E S \in SUBSET Owner : CleanUp(S)

SlotsSpec == SlotsInit /\ [][SlotsNext]_slotsVars

-----------------------------------------------------------------------------
(* Types, and the scope's limit on slots.                                  *)
SlotsTypeOK ==
  /\ refs \in [Owner -> Nat]
  /\ waiting \in [Owner -> Task \cup {NoTask}] /\ woken \subseteq Task
  /\ \A o \in Owner : waiting[o] # NoTask => OwnerOf[waiting[o]] = o
  /\ place \in [Task -> {"outside", "waiting", "inside", "gone"}]
  /\ evicted \subseteq Owner
  /\ Cardinality(Slots) <= SlotLimit

(* No slot leaks: every reference a slot counts is a task that is inside,  *)
(* whatever mix of sharing, cancellation, cleanup and late release came    *)
(* before; so an owner with nobody inside holds no slot.                   *)
NoSlotLeaks == \A o \in Owner : refs[o] <= Cardinality(Inside(o))

(* An owner that cleanup never touched keeps its slot as long as one of    *)
(* its tasks is inside, so when none was, the owners at work are within    *)
(* the limit.                                                              *)
HoldersCovered ==
  /\ \A o \in Owner \ evicted : Inside(o) # {} => refs[o] > 0
  /\ evicted = {} => Cardinality({o \in Owner : Inside(o) # {}}) <= SlotLimit
=============================================================================
