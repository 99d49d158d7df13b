SPECIFICATION ObligationSpec
CONSTANTS
  s1 = s1
  s2 = s2
  s3 = s3
  c = c
  NoContent = NoContent
  Nowhere = Nowhere
  Keys = {s1, s2, s3}
  ContentKeys = {c}
  ContentOf <- MCContentOf
  Caps = {"released", "satisfied"}
  MaxCandidates = 2
  MaxRecords = 4
  MaxEpoch = 1
SYMMETRY MCRephrasings
CHECK_DEADLOCK FALSE
INVARIANTS
  InventoryReachable
  OneCandidatePerContent
PROPERTIES
  SurfaceMovesAsTold
  FollowsLifecycle
