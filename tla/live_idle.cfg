\* A stream that has nothing to send.
SPECIFICATION Spec
CONSTANTS
  Tab = {a}
  Elsewhere = Elsewhere
  MaxQueued = 2
  MaxOther = 0
  MaxExceptionChanges = 0
INVARIANT IdleStreamKept
CHECK_DEADLOCK FALSE
