\* MkdirsByPath of a relative path without a leading ./
SPECIFICATION Spec
CONSTANTS
  Thread = {t1, t2}
  Place <- APlace
  Initially <- ATree
  Denied <- Closed
  Request <- Relative
  Json <- Values
  FileNames <- ShortNames
  MaxDepth = 4
  MaxCalls = 3
INVARIANTS
  MkdirsComesBack
