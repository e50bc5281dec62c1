\* The page and other clients; one change by others, two requests, one refetch that fails.
SPECIFICATION Spec
CONSTANTS
  None = None
  d1 = d1
  d2 = d2
  x = x
  y = y
  z = z
  kitchen = kitchen
  plain = plain
  spaced = spaced
  blank = blank
  c1 = c1
  c2 = c2
  Device <- MCDevice
  EntityId <- MCEntityId
  Area = {kitchen}
  Trim <- MCTrim
  Blank = blank
  Name = {plain, spaced, blank}
  Entry = {c1, c2}
  Subs <- MCSubs
  Homes <- MCHomes
  MaxEdits = 1
  MaxJobs = 2
  MaxSteps = 4
  MaxFailures = 1
INVARIANTS NothingOffScreen PreviewKept
PROPERTIES UntouchedFieldsKept DraftKept DeletedLeavesTable DeleteOutcome BatchImplemented
CHECK_DEADLOCK FALSE
