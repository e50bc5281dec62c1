\* Deletions, returns, restarts, failed writes, and ids and identities that change hands.
SPECIFICATION Spec
CONSTANTS
  Id = {i1, i2}
  DeviceIdent = {d1}
  EntityIdent = {e1}
  NoIdent = NoIdent
  Absent = Absent
  Mishaps = {"fault", "restart", "rename", "rekey"}
SYMMETRY Symmetry
INVARIANTS TypeOK FlagsMatchRows ObservedReturnsFlagged DeletionsRecorded OnlyDepartedFlagged
