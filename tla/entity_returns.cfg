\* An entity that was removed and came back.
SPECIFICATION Spec
CONSTANTS
  None = None
  NoArea = NoArea
  Unreadable = Unreadable
  d1 = d1
  d2 = d2
  u1 = u1
  u2 = u2
  u3 = u3
  Homes <- MCHomes
  Unidentified <- MCUnidentified
  NewAreas <- MCNewAreas
  NewNames <- MCNewNames
  NewIds <- MCNewIds
  Policies <- MCPolicies
  Kept <- MCKept
  MaxChanges = 2
INVARIANT EntityReturnsReported
CHECK_DEADLOCK FALSE
