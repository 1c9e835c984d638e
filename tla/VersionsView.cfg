SPECIFICATION FairSpec
CONSTANTS
  a = a
  Lines <- MCLines
  Starts <- MCStarts
  Page = 2
  GraphLimit = 2
  GraphCap = 3
  MaxVersions = 4
  MaxCalls = 2
  MaxSteps = 2
INVARIANTS ListingAgrees GraphInv
PROPERTY RebootIsFollowed
CHECK_DEADLOCK FALSE
