\* Two threads log, or format the time, in one call and catch the signal anywhere.
SPECIFICATION FairSpec
CONSTANTS
  Thread = {t1, t2}
  Day = 1
  MaxClock = 1
  MaxCalls = 1
  HeadLines = 1
  TailLines = 1
  MaxFrames = 1
INVARIANTS
  TypeOK
  DumpSurvives
PROPERTIES
  EndsOrDies
\* A thread interrupted inside malloc or localtime really does stop.
CHECK_DEADLOCK FALSE
