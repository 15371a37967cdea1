SPECIFICATION BucketSpec
CONSTANTS
  Account = {a, b}
  Legacy = legacy
  FileName = {w1}
  Client = {c1, c2}
  Migrators = {a}
  Habits <- MCHabits
  MaxWrites = 3
  MaxCrashes = 1
SYMMETRY Symmetry
INVARIANTS StrayStops DeletionIsDone LinkNeverOutlives
PROPERTY NoHole
CHECK_DEADLOCK FALSE
