---------------------------- MODULE MCWebAccess ----------------------------
(* A small instance of WebAccess for TLC: a browser with two tabs, and a   *)
(* second browser that is sent an address of the first.  Either one tab    *)
(* works with keys while the other one signs in and out, or both connect   *)
(* Slack.                                                                  *)
EXTENDS WebAccess

MCTabs == {"t1", "t2", "t3"}
MCBrowserOf == [t \in MCTabs |-> IF t = "t3" THEN "other" ELSE "one"]

KeysUses == [t \in MCTabs |->
               CASE t = "t1" -> {"page", "create_key", "delete_key"}
                 [] t = "t2" -> {"login", "callback", "logout"}
                 [] OTHER -> {"callback"}]
SlackUses == [t \in MCTabs |->
                IF t = "t3" THEN {} ELSE {"slack_authorize", "slack_callback"}]

MCPlans == {[uses |-> KeysUses, requests |-> 3], [uses |-> SlackUses, requests |-> 4]}
=============================================================================
