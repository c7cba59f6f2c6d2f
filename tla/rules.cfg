SPECIFICATION FairSpec
CONSTANTS
  Instances = {i1, i2}
  Admins = {u1}
  MaxId = 5
  Alerts = {a1}
  LabelsOf <- MCLabels
  Alertname = alertname
  Blank = Blank
  Files <- TidyFiles
  Drafts <- MCDrafts
  MaxSaves = 2
  MaxEvents = 2
  MaxFaults = 1
  a1 = a1
  web = web
  alertname = alertname
  host = host
  v1 = v1
  v2 = v2
  C1 = C1
  C2 = C2
INVARIANTS TypeOK ResolveReachesItsGroup SeedingCompletes
PROPERTIES  DeletedStaysDeleted EditsTakeEffect
CHECK_DEADLOCK FALSE
