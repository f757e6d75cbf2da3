SPECIFICATION Spec
CONSTANTS
  Requests = {r1, r2, r3, r4}
  Old = Old
  Alerts = {a1, a2}
  Missing = Missing
  Patches <- MCPatches
  Posts <- MCPosts
  Widest = 9999
  MaxCrashes = 1
  None = None
INVARIANTS
  NumbersAreConsecutive
  StateFollowsTimeline
  LinksFollowTimeline
SYMMETRY Symmetry
CHECK_DEADLOCK FALSE
