CONSTANTS
  w1 = w1
  w2 = w2
  Worker = {w1, w2}
  NoWorker = NoWorker
  NumJobs = 1
  MaxSize = 1
  MaxRetries = 1
  MaxCrashes = 1
SPECIFICATION Spec
SYMMETRY Symmetry
PROPERTY LeaseRespected
