CONSTANTS
  c1 = c1  c2 = c2  c3 = c3  c4 = c4
  t1 = t1  t2 = t2  t3 = t3  t4 = t4
  o1 = o1  o2 = o2  o3 = o3
  minute = minute  hour = hour
  Request <- Three  NoRequest = none
  Body = {a, b}
  MaxPerWindow = 1  MaxActive = 2
  Call <- Four
  Window = {minute, hour}
  LimitOf <- Limits  LengthOf <- Lengths
  Cost = 1  MaxDelay = 1  MaxClock = 5
  Generation <- Three  NoGeneration = none
  Prompt = {a, b}
  MaxConcurrent = 2  Threshold = 2  Budget = 2  Price = 1  MaxPosts = 2
  Task = {t1, t2, t3, t4}  NoTask = none
  Owner = {o1, o2, o3}
  OwnerOf <- Own
  SlotLimit = 2
  Builder <- Three  NoBuilder = none
  Candidate = {k, l}
  MaxDeaths = 1
SPECIFICATION ServicesSpec
SYMMETRY Sym
INVARIANTS
  AtMostOnce ReplayTrue StuckForCause
  WindowsHold CountedEverywhere
  TripsAtThreshold BudgetHeld
  NoSlotLeaks HoldersCovered
  ReadyTrue BuildingForCause
CHECK_DEADLOCK FALSE
