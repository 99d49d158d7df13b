SPECIFICATION EpisodeSpec
CONSTANTS
  f = f
  g = g
  NoKey = NoKey
  Nil = Nil
  Paths = {f}
  TurnKeys = {f, g}
  Durability = 2
  MaxRecords = 6
  MaxEpoch = 1
CHECK_DEADLOCK FALSE
INVARIANTS
  EpisodesAgree
  RepairIsVerifiedByWrites
PROPERTIES
  OutcomesStand
  FollowsLifecycle
