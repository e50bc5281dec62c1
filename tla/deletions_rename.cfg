\* Renamed entities.
SPECIFICATION Spec
CONSTANTS
  Id = {i1, i2}
  DeviceIdent = {d1}
  EntityIdent = {e1}
  NoIdent = NoIdent
  Absent = Absent
  Mishaps = {"rename"}
SYMMETRY Symmetry
INVARIANT RenamesNotFlagged
