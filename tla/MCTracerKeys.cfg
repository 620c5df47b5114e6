\* Thread 12 ends "a" while only thread 1 began "2a": both have the key "12a".
SPECIFICATION Spec
CONSTANTS
  Thread <- PrefixThreads
  Tag <- DigitTags
  Phase = {"B", "E"}
  Args = {"object"}
  ObjectArgs = {"object"}
  ClockHalf = 4
  Boot = 0
  MaxClock = 1
  MaxCalls = 1
INVARIANTS
  OwnBegin
