SPECIFICATION BucketSpec
CONSTANTS
  Account = {a}
  Legacy = legacy
  FileName = {w1}
  Client = {c1}
  Migrators = {a}
  Habits <- OneAfterAnother
  MaxWrites = 2
  MaxCrashes = 0
INVARIANT GoneByDeadline
CHECK_DEADLOCK FALSE
