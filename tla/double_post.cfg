SPECIFICATION Spec
CONSTANTS
  Alerts = {a1, a2}
  Groups = {g1}
  Workers = {w1, w2}
  NoGroup = NoGroup
  Blank = Blank
  Team = Team
  User = User
  DM = DM
  Channel <- MCChannel
  ChannelList <- OneChannel
  ApiOf <- MCApiOf
  Threshold = 1
  FlushBatch = 1
  MaxEvents = 3
  MaxFaults = 0
  MaxCrashes = 0
INVARIANTS NoDoublePost

CHECK_DEADLOCK FALSE
