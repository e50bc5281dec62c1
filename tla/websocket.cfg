\* Drops, refusals and an unreadable frame, with calls at any time.
SPECIFICATION FairSpec
CONSTANTS
  Request = {q1, q2}
  MaxChanges = 2
  MaxFailures = 2
  MaxGarbage = 1
INVARIANTS TypeOK NothingMissed
PROPERTIES EveryChangeTold CallsEnd
CHECK_DEADLOCK FALSE
