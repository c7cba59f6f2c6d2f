SPECIFICATION Spec
CONSTANTS
  Tabs <- MCTabs
  BrowserOf <- MCBrowserOf
  SignedIn = "one"
  Plans <- MCPlans
  Lifetime = 1
  MaxTime = 2
  MaxTokens = 5
  MaxFaults = 1
  Senders = {s1}
  BearerTokens = {TRUE, FALSE}
  MaxHooks = 1
  MaxHookFaults = 1
  Workspaces = {w1, w2, w3}
  Connected = w1
  Unnamed = {w3}
INVARIANTS TypeOK LoginIsOwn SlackNamesItsWorkspace
PROPERTIES  EndedSessionIsOut ActsAsShown
CHECK_DEADLOCK FALSE
