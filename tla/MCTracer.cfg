\* Two threads, begin and end events of one name, a clock that never wraps, a scheduled
\* report thread.
SPECIFICATION FairSpec
CONSTANTS
  Thread <- TwoThreads
  Tag <- OneTag
  Phase = {"B", "E"}
  Args = {"object"}
  ObjectArgs = {"object"}
  ClockHalf = 4
  Boot = 0
  MaxClock = 1
  MaxCalls = 2
INVARIANTS
  JsonPrefix
  CompleteAfterDestruction
  OwnBegin
  ThreadOrder
PROPERTIES
  NoRecordingUnread
  KeepsPromise
  Drained
  DtorReturns
