SPECIFICATION Spec
CONSTANTS
  r1 = r1
  None = None
  Requests = {r1}
  Cases = {1}
  Alerts = {1, 2}
  First <- MCFirst
  Parts <- MCParts
  Size <- MCSize
  MaxItems = 8
  MaxChars = 12
  Posts <- MCPosts
  MaxNotes = 3
INVARIANTS
  LinksAreTold
  EvidenceHasItsParents
  CitesOnlyItsEvidence
CHECK_DEADLOCK FALSE
