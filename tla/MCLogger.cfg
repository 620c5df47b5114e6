\* A line is logged while another thread formats the time, about midnight.
SPECIFICATION LoggerSpec
CONSTANTS
  Thread = {t1, t2}
  Day = 2
  MaxClock = 3
  MaxCalls = 2
INVARIANTS
  FmtTimeIsCurrent
CHECK_DEADLOCK FALSE
