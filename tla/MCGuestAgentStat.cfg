\* The "stat" method in the first second of the process.
SPECIFICATION Spec
CONSTANTS
  Caller = {"c1", "c2"}
  File <- CsvFile
  Info <- StatInfo
  MaxNow = 2
  MaxLines = 7
  MaxCalls = 3
INVARIANTS
  UsageIsNumber
