SPECIFICATION Spec
CONSTANTS
  Instances = {i1}
  Admins = {u1}
  MaxId = 2
  Alerts = {a1}
  LabelsOf <- MCLabels
  Alertname = alertname
  Blank = Blank
  Files <- UntidyFiles
  Drafts <- NoDrafts
  MaxSaves = 1
  MaxEvents = 2
  MaxFaults = 0
  a1 = a1
  web = web
  alertname = alertname
  host = host
  v1 = v1
  v2 = v2
  C1 = C1
  C2 = C2
INVARIANTS ResolveReachesItsGroup
CHECK_DEADLOCK FALSE
