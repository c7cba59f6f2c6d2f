SPECIFICATION Spec
CONSTANTS
  Alerts = {a1, a2}
  Groups = {g1, g2}
  Workers = {w1, w2}
  NoGroup = NoGroup
  Blank = Blank
  Team = Team
  User = User
  DM = DM
  Channel <- MCChannel
  ChannelList <- TwoChannels
  ApiOf <- MCApiOf
  Threshold = 1
  FlushBatch = 2
  MaxEvents = 2
  MaxFaults = 1
  MaxCrashes = 1
SYMMETRY Symmetry
INVARIANTS OneTargetPerChannel NotifiedInEveryChannel SentBucketIsRebuilt IInv
CHECK_DEADLOCK FALSE
