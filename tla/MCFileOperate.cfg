\* Two threads call any of the methods on one tree.
SPECIFICATION Spec
CONSTANTS
  Thread = {t1, t2}
  Place <- APlace
  Initially <- ATree
  Denied <- Closed
  Request <- AllRequest
  Json <- Values
  FileNames <- ShortNames
  MaxDepth = 4
  MaxCalls = 3
INVARIANTS
  TypeOK
  ParentReady
  MkdirsTells
  SearchTells
  ListTells
  HandlesClosed
  PathsSplit
PROPERTIES
  FilesTell
SYMMETRY AnyThread
