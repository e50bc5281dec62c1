\* Two devices and three entities; two changes in Home Assistant or by the user.
SPECIFICATION Spec
CONSTANTS
  None = None
  NoArea = NoArea
  Unreadable = Unreadable
  d1 = d1
  d2 = d2
  u1 = u1
  u2 = u2
  u3 = u3
  Homes <- MCHomes
  Unidentified <- MCUnidentified
  NewAreas <- MCNewAreas
  NewNames <- MCNewNames
  NewIds <- MCNewIds
  Policies <- MCPolicies
  Kept <- MCKept
  MaxChanges = 2
INVARIANTS RoomViewsAgree PagesComplete ExceptionPages CountsPredictFilters SimulatorAgrees RoomPrefixBlamedOnce DeviceReturnsReported
CHECK_DEADLOCK FALSE
