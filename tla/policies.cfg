\* A shipped and a custom policy, edited on disk and in two settings pages.
SPECIFICATION Spec
CONSTANTS
  Policy = {builtin, custom}
  Baseline = {builtin}
  Setting = {plain, refused}
  Refused = {refused}
  Default = plain
  Absent = Absent
  Target = {x}
  Tab = {a, b}
SYMMETRY Symmetry
INVARIANTS TypeOK RulesFollowFile OnlyEditorsBreak
PROPERTIES LastGoodKept BuiltInExceptionsKept
