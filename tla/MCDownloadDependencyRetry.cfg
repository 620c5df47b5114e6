\* A checkout that keeps failing.
SPECIFICATION Spec
CONSTANTS
  Run = {r1, r2}
  Require <- Plain
  OtherRows <- OldTool
  PlatformOf <- OnePlatform
  MaxTries = 5
INVARIANTS
  RetriesThreeTimes
