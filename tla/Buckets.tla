------------------------------ MODULE Buckets ------------------------------
(***************************************************************************)
(* The pure part of a flush (internal/workflows/batching.go and            *)
(* splitChannels of flush.go): which Slack messages represent the members  *)
(* of a group, which of them have to be sent again, and to which channels. *)
(*                                                                         *)
(* A group's members (a JSON object keyed by fingerprint) are a total      *)
(* function on Alerts; an alert the object has no key for has the status   *)
(* Absent.  A channel ID is a member of Channel, the empty string is Blank *)
(* and a Slack timestamp is the position of the message in the workspace.  *)
(* A timestamp is thereby unique in the workspace; Slack makes it unique   *)
(* in a channel, and the code always uses it together with the channel.    *)
(***************************************************************************)
EXTENDS Integers, FiniteSets, Sequences

CONSTANTS Alerts,     \* fingerprints
          Channel,    \* Slack channel, user and DM IDs
          Blank,      \* the empty string
          Threshold   \* MASS_ALERT_THRESHOLD

ASSUME BucketsAssumption ==
  /\ IsFiniteSet(Alerts)
  /\ Blank \notin Channel
  /\ Threshold \in Int

Absent == "none"
Reported == {"firing", "resolved"}
Status == Reported \cup {Absent}

(* NotifiedTarget.  apiChannel is Blank when Slack echoed the rule's ID.   *)
Target == [channel : Channel, apiChannel : Channel \cup {Blank}, ts : Nat \ {0}]

(* GroupMember without what is only displayed.                             *)
Member == [status : Status, targets : SUBSET Target, notified : Status]

NoMember == [status |-> Absent, targets |-> {}, notified |-> Absent]
NoMembers == [a \in Alerts |-> NoMember]

Live(m) == {a \in Alerts : m[a].status # Absent}
Unsent(m) == {a \in Live(m) : m[a].targets = {}}

-----------------------------------------------------------------------------
(* Mutant of SplitChannels: an ID named twice stays in the list twice.     *)
SplitChannelsKeepsDuplicates(raw) == {i \in DOMAIN raw : raw[i] # Blank}

(* splitChannels: the positions of the comma-separated list that survive,  *)
(* each the first one with its ID, in the order of the list.               *)
SplitChannels(raw) ==
  {i \in DOMAIN raw : /\ raw[i] # Blank
                      /\ \A j \in DOMAIN raw : j < i => raw[j] # raw[i]}

(* Mutant of TargetKey: the timestamp is left out of the key.              *)
TargetKeyWithoutTs(targets) == {t.channel : t \in targets}

(* targetKey: the API channel is not part of the key.                      *)
TargetKey(targets) == {<<t.channel, t.ts>> : t \in targets}

(* Mutant of ApiChannelOf: messages are edited by the ID the rule names.   *)
ApiChannelIgnored(t) == t.channel

(* The channel chat.update is called with.                                 *)
ApiChannelOf(t) == IF t.apiChannel = Blank THEN t.channel ELSE t.apiChannel

(* The members whose messages are the same as those of alert a.            *)
SentWith(m, a) ==
  {b \in Live(m) : /\ m[b].targets # {}
                   /\ TargetKey(m[b].targets) = TargetKey(m[a].targets)}

SentBuckets(m) == {SentWith(m, a) : a \in Live(m) \ Unsent(m)}

UnsentBuckets(m) ==
  IF Unsent(m) # {} /\ Cardinality(Unsent(m)) > Threshold
  THEN {Unsent(m)}
  ELSE {{a} : a \in Unsent(m)}

(* buildBuckets: a bucket is the set of the alerts of one message.         *)
BuildBuckets(m) == SentBuckets(m) \cup UnsentBuckets(m)

(* bucket.targets: the members of a bucket share their (channel, ts) pairs *)
(* and the code takes the targets of one of them.                          *)
TargetsOf(m, b) == UNION {m[a].targets : a \in b}

(* Mutant of BucketChanged: only what was never sent counts as a change.   *)
BucketChangedIfUnsent(m, b) == TargetsOf(m, b) = {}

BucketChanged(m, b) ==
  \/ TargetsOf(m, b) = {}
  \/ \E a \in b : m[a].notified # m[a].status

ChangedBuckets(m) == {b \in BuildBuckets(m) : BucketChanged(m, b)}

(* The number of alerts a message may stand for: "one alert, one message   *)
(* by default, merge only on a real burst" (batching.go:45).               *)
LegalSize(b) == Cardinality(b) = 1 \/ Cardinality(b) > Threshold
=============================================================================
