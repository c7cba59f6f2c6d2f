-------------------------- MODULE MCWorkflowRules --------------------------
(* Small instances of WorkflowRules for TLC: two files to seed from, the   *)
(* second without a name (its rule is seeded, and refused when its form is *)
(* saved), an alert both rules match, and an admin who reorders the        *)
(* group-by labels of the other rule or disables it.                       *)
EXTENDS WorkflowRules

CONSTANTS a1, web, alertname, host, v1, v2, C1, C2

MCLabels == [a \in {a1} |-> [k \in {Alertname, host} |-> IF k = host THEN v1 ELSE v2]]

Text(ids) == [ids |-> ids, tidy |-> TRUE]
Mail == [type |-> "email", channel |-> Text(<<C2>>)]
Slack(channel) == [type |-> "slack", channel |-> channel]
File(name, actions) ==
  [readable |-> TRUE, name |-> name, match |-> [k \in {host} |-> v1], actions |-> actions]

TidyFiles == <<File(web, <<Slack(Text(<<C1>>)), Mail>>), File(Blank, <<Slack(Text(<<C2>>))>>)>>
UntidyFiles == <<File(web, <<Slack([ids |-> <<C1, C2>>, tidy |-> FALSE])>>), File(Blank, <<Mail>>)>>

Draft(groupBy, channel, enabled) ==
  [name |-> web, match |-> [k \in {host} |-> v1], groupBy |-> groupBy,
   channel |-> channel, enabled |-> enabled]

MCDrafts == {Draft(<<alertname, host>>, Text(<<C1, C1>>), TRUE),
             Draft(<<host, Blank, alertname>>, Text(<<C1>>), TRUE),
             Draft(<< >>, Text(<<C1>>), FALSE)}
NoDrafts == {}
=============================================================================
