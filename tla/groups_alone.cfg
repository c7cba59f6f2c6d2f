SPECIFICATION FairSpec
CONSTANTS
  Alerts = {a1, a2}
  Groups = {g1}
  Workers = {w1}
  NoGroup = NoGroup
  Blank = Blank
  Team = Team
  User = User
  DM = DM
  Channel <- MCChannel
  ChannelList <- TwoChannels
  ApiOf <- MCApiOf
  Threshold = 1
  FlushBatch = 1
  MaxEvents = 3
  MaxFaults = 1
  MaxCrashes = 0
INVARIANTS SettledRowIsNotified SettledRowIsShown FiringCardIsOnRecord NoDoublePost
PROPERTIES RecordedAlertIsNotified DirtyRowSettles 
CHECK_DEADLOCK FALSE
