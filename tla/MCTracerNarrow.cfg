\* One thread whose clock sum wraps around (time_t of 32 bits), objects
\* and other values as arguments, begins that repeat before their end.
SPECIFICATION Spec
CONSTANTS
  Thread <- OneThread
  Tag <- TwoTags
  Phase = {"B", "E"}
  Args = {"object", "list"}
  ObjectArgs = {"object"}
  ClockHalf = 2
  Boot = 0
  MaxClock = 3
  MaxCalls = 3
INVARIANTS
  TypeOK
PROPERTIES
  KeepsPromise
