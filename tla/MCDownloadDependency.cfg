\* Three runs that follow or overlap each other; folders inside another one's folder.
SPECIFICATION FairSpec
CONSTANTS
  Run = {r1, r2, r3}
  Require <- Nesting
  OtherRows <- Heading
  PlatformOf <- TwoPlatforms
  MaxTries = 5
INVARIANTS
  TypeOK
  NothingHalf
PROPERTIES
  ExitsTell
  KeepsComplete
  Ends
