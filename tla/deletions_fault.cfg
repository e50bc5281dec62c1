\* The resync loop after a failed write.
SPECIFICATION FairSpec
CONSTANTS
  Id = {i1, i2}
  DeviceIdent = {d1}
  EntityIdent = {e1}
  NoIdent = NoIdent
  Absent = Absent
  Mishaps = {"fault"}

PROPERTY LoopNeverDies
