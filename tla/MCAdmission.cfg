CONSTANTS
  Request = {q1, q2}  NoRequest = none
  Body = {a}
  MaxPerWindow = 2  MaxActive = 2
SPECIFICATION AdmissionSpec
INVARIANT NoKeyStuck
CHECK_DEADLOCK FALSE
