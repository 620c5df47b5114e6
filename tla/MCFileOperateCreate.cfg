\* Two threads create the same file.
SPECIFICATION Spec
CONSTANTS
  Thread = {t1, t2}
  Place <- APlace
  Initially <- ATree
  Denied <- Closed
  Request <- Creators
  Json <- Values
  FileNames <- ShortNames
  MaxDepth = 4
  MaxCalls = 3
INVARIANTS
  OneCreator
