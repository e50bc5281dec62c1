\* One tab, another client, and queues of two notices.
SPECIFICATION Spec
CONSTANTS
  Tab = {a}
  Elsewhere = Elsewhere
  MaxQueued = 2
  MaxOther = 1
  MaxExceptionChanges = 2
INVARIANTS TypeOK ShownWhenSettled OwnAcknowledgementShown
CHECK_DEADLOCK FALSE
