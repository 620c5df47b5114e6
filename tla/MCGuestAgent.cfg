\* Two threads race for the instance with any configuration and read the file back; nobody
\* waits for the lock or the instance for ever.
SPECIFICATION FairSpec
CONSTANTS
  Caller = {"c1", "c2"}
  File <- BothFiles
  Info <- AllInfo
  MaxNow = 2
  MaxLines = 7
  MaxCalls = 3
INVARIANTS
  TypeOK
  SnapshotWhole
  OnlyLastGroupTorn
  DaemonHasStream
PROPERTIES
  SnapshotsGrow
  KeepsPromise
  ReaderServed
  CallerServed
