SPECIFICATION Spec
CONSTANTS
  Alerts = {a1, a2, a3}
  Groups = {g1}
  Workers = {w1, w2}
  NoGroup = NoGroup
  Blank = Blank
  Team = Team
  User = User
  DM = DM
  Channel <- MCChannel
  ChannelList <- OneChannel
  ApiOf <- MCApiOf
  Threshold = 1
  FlushBatch = 1
  MaxEvents = 3
  MaxFaults = 1
  MaxCrashes = 1
SYMMETRY Symmetry
INVARIANTS TypeOK TargetsCoverCards BucketHasOneSetOfTargets
PROPERTIES BoardSpec
CHECK_DEADLOCK FALSE
