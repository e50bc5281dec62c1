\* A call during the handshake of a reconnection.
SPECIFICATION Spec
CONSTANTS
  Request = {q1}
  MaxChanges = 0
  MaxFailures = 1
  MaxGarbage = 0
INVARIANT NoCallHangs
CHECK_DEADLOCK FALSE
