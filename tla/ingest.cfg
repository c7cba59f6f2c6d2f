SPECIFICATION Spec
CONSTANTS
  a1 = a1
  a2 = a2
  users = users
  host = host
  summary = summary
  NoKey = NoKey
  Alerts = {a1, a2}
  Keys = {users, host, summary}
  MaxStart = 4
  Unit = 2
  Rules <- LoneField
  Payloads <- MCPayloads
  Handlers = {h1, h2}
  Budget = 2
  MaxRequests = 3
  MaxFaults = 1
SYMMETRY Symmetry
INVARIANTS  GroupsAgree AnsweredIsRecorded
PROPERTIES LoneFieldStays
CHECK_DEADLOCK FALSE
