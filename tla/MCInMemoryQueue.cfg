CONSTANTS
  w1 = w1
  w2 = w2
  Worker = {w1, w2}
  NumJobs = 4
  Tenant = {"default", "acme"}
  Default = "default"
  TenantOf <- SomeTenantOf
  Priority <- SomePriority
  Served <- FirstThree
  MaxJobs = 2
  MaxSize = 2
  MaxRetries = 1
SPECIFICATION Spec
SYMMETRY Symmetry
INVARIANTS
  NothingMislaid
  OneRunner
PROPERTIES
  ShareRespected
  TenantOrderKept
  LifecycleKept
CHECK_DEADLOCK FALSE
