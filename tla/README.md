# alertory in TLA+

alertory takes Alertmanager's webhook calls, collects the alerts into groups in
Postgres, and sends and edits Slack messages for them. This directory models what
can go wrong there without a unit test showing it: several instances, each with
one flush worker, that read, send and write back the same rows while events keep
arriving, calls fail and processes end; and around them the rules that route an
alert and are edited meanwhile, the web UI whose tabs share cookies, the keys that
decide about webhook calls, and the tables that are filled, shown and trimmed.

## The system

| Component | State | Operations | Talks to | What makes it correct |
|---|---|---|---|---|
| Webhook ingestion (`internal/http/handlers.go`, `internal/workflows/rules.go`) | none of its own | `AlertsHandler`, `ProcessAlert`, `enrichAlert`, `computeGroupKey` | reads the rule cache and `active_alerts`; upserts group members, then `alert_events` and `active_alerts` | an answer of 200 means the alert is in its groups; enrichment runs once; a late event does not undo a newer one |
| Alert groups (`internal/db/groups.go`) | table `alert_groups`: members with status, targets and last notified status; `dirty`, `flush_after`, `max_flush_by`, `attempts`, `updated_at` | `UpsertGroupMember`, `ClaimDueGroups`, `SaveGroupProgress`, `SaveGroupProgressFailed`, `CleanupResolvedGroups` | called by handlers, workers and the cleanup loop of every instance | no event is lost, a dirty row becomes due in time, a row goes only when it is over |
| Flush worker (`internal/workflows/flush.go`) | its copy of the claimed groups | `RunFlushWorker`, `flushDueGroups`, `processGroup` | claims and saves groups; calls Slack once per message and channel | messages are sent once, to every channel, and edited in place |
| Bucketing (`internal/workflows/batching.go`) | none | `buildBuckets`, `targetKey`, `bucketChanged`, `splitChannels` | called by the worker | a message stands for one alert or for a burst, and keeps its alerts |
| Slack client (`internal/slack/client.go`) | none | `Post`, `Update` | HTTP with a ten second timeout | an error may hide a call that was done |
| Rendering (`internal/workflows/message.go`) | none | `RenderBucketMessage` | called by the worker | shows the members of the bucket |
| Rules (`internal/workflows/store.go`, `internal/db/rules.go`, `internal/http/webui.go`) | table `workflow_rules`, a cache per instance | seeding, save, delete, refresh every ten seconds | read by ingestion | edits take effect and are not clobbered; an edit that changes nothing does not orphan groups |
| Cleanup loop (`cmd/app/main.go`, `internal/db/alerts.go`) | none | `DeleteOldAlerts`, `CleanupResolvedGroups`, `CleanupExpiredSessions`, `VacuumAnalyze` | every instance, at start and every hour | all of what is too old is deleted, whatever failed before |
| Dashboard (`internal/http/webui.go`) | none | `dashboardHandler`, `ListActiveAlerts`, `buildHistoryBars` | reads the alert tables | page, total and links agree; a bar stands for a whole day |
| Web sessions (`internal/auth`, `internal/db/sessions.go`) | table `web_sessions`, cookies | login, callback, `RequireAuth`, logout, expiry | OIDC provider | a sign-in ends in the browser it began in; no session works after it ended; a form acts for the session it was shown to |
| API keys (`internal/db/apikeys.go`, `internal/http/handlers.go`) | table `api_keys` | create, delete, `checkWebhookAuth` | ingestion | a request is let in as the keys of one moment say |
| Slack connection (`internal/db/providers.go`) | table `providers` | OAuth callback, `GetProviderSetting` | the worker reads the token at each flush | the name shown is that of the workspace alerts go to |
| Start-up and packaging | - | migrations, connection, Helm chart | - | - |

The hard behaviour is in the second and third row: nothing is locked between the
commit of a claim and the save that follows the Slack calls, and the save writes
the whole members object that was read at the claim. `PROJECT.json` lists the
hazards line by line.

## The modules

| Module | Models |
|---|---|
| `Buckets` | `batching.go`, `splitChannels` and the API channel of a target, as operators |
| `AlertGroups` | the table, the workers of all instances and the Slack workspace; extends `Buckets` |
| `MessageBoard` | the abstract workspace that `AlertGroups` implements |
| `MCAlertGroups` | small instances of `AlertGroups` |
| `AlertGroupsProofs` | theorems about `AlertGroups` with any number of instances |
| `OneHolderProofs` | theorems about `AlertGroups` while no two instances hold one group; extends `AlertGroupsProofs` |
| `BucketsProofs` | theorems about the operators of `Buckets`, for any members and lists, and for what `AlertGroups` applies them to |
| `Ingest` | `AlertsHandler`, `ProcessAlert` and `active_alerts` for requests handled at the same time |
| `MCIngest` | small instances of `Ingest` |
| `GroupTimers` | when one row is claimed: debounce, window, ticker, lease, backoff, on a discrete clock |
| `GroupTimersProofs`, `IngestProofs`, `WorkflowRulesProofs`, `WebAccessProofs`, `RetentionProofs` | theorems about the module of that name |
| `WorkflowRules` | the rules table, seeding, rule forms, the cache of every instance and the group keys that follow |
| `MCWorkflowRules` | small instances of `WorkflowRules` |
| `WebSessions` | signing in and out: handshake and session cookies, `web_sessions`, `RequireAuth` |
| `WebhookAuth` | `checkWebhookAuth` over `api_keys` |
| `WebAccess` | composes the two with the handlers behind `RequireAuth`: API keys and the Slack connection |
| `MCWebAccess` | a small instance of `WebAccess` |
| `Retention` | the alert tables, the cleanup loop that trims them and the dashboard that shows them |

### AlertGroups

`rows[g]` is the row with key `g`: the members (a function on all fingerprints,
`Absent` where the JSON has no key), `dirty`, `due` for `flush_after <= now()`
and `quiet` for an `updated_at` of more than an hour ago. `workers[w]` is what the
goroutine of instance `w` has in memory; `slack` is the sequence of messages ever
posted, so that a timestamp is a position. A message (`Card`) shows each of its
alerts with a status and knows the ID it was sent to and the channel it is in:
Slack puts a message to a user into a channel with another ID, which the code
keeps as `APIChannel`.

One action is one statement or one call, because another process can act between
any two of them:

| Action | Code |
|---|---|
| `UpsertGroupMember` | one `INSERT .. ON CONFLICT`; any alert, either status, in any order |
| `TimerExpires`, `GoesQuiet` | the clock passes `flush_after`, or an hour since `updated_at` |
| `CleanupResolvedGroups` | one row of the `DELETE` |
| `ClaimDueGroups` | the claim's transaction; some of the due rows, up to `flushBatch` (`SKIP LOCKED`) |
| `BeginGroup`, `BeginBucket` | the loops of `flushDueGroups` and `processGroup`; groups and buckets in any order, as Go's maps and `RETURNING`-less claims give none, channels in the order of the list |
| `UpdateMessage`, `PostMessage` | one Slack call with its outcome: `ok`, `refused` (an error, nothing done) or `lost` (done, but the answer timed out or was unreadable) |
| `FinishBucket` | the members of the bucket get the new targets, and the status if no call failed |
| `SaveGroupProgress`, `SaveGroupProgressFailed` | the two `UPDATE`s, which do nothing when the row is gone |
| `SaveFails` | the update returns an error, which is only logged; also the shutdown that cancels the context during the sends |
| `Crash` | the process ends and is started again with nothing claimed |

A row that is dirty is quiet for an hour only if instances were down, since
workers claim every three seconds and the longest backoff is five minutes;
`GoesQuiet` therefore asks for a crash. A row that a worker holds is never quiet:
it was updated by the event that made it dirty, and sends take seconds.

### GroupTimers

One row with its real time columns, and the ticker of each worker. A flush is a
period of at most `MaxSend` at whose end it succeeded or failed; the worker may
also be busy with other groups for as long. `Interval` is the conversion
`fmt.Sprintf("%d seconds", int(d.Seconds()))`, which cuts fractions. `lastEvent`,
`waiting` and `lastFail` only record when things happened.

### Ingest

`handlers[h]` is a request in progress: its payload, the `starts_at` values it
read at its beginning, the pairs of alert and rule it has still to go through, the
annotations its enrichments have added to, and how many of these hung. `active` is
`active_alerts`; `members` has what requests write into groups, by rule and alert
(an alert's labels follow from its fingerprint, so the pair determines the group
key). The map of annotations is one per alert and shared by its rules, as in the
code: a later rule sees what an earlier one's enrichment stored.

| Action | Code |
|---|---|
| `Receive`, `ReceiveBlind` | the handler up to its loop, with `BatchGetActiveAlerts` answering or failing |
| `Enrich` | `enrichAlert` with one enrichment, which stores, fails at once or hangs for its five seconds |
| `UpsertGroupMember` | the rest of an iteration; fails when the context has expired, or by a fault; either is only logged |
| `BatchUpsertAlerts`, `BatchUpsertFails` | the batch, an implicit transaction, and the answer 200 or 500 |
| `Cancel`, `Crash` | the client leaves, the process ends |

Time is counted in enrichments that hang: `Budget` of them use up the deadline
(four in the code, 20 s / 5 s). Retries are requests like any other. `calls` and
`orderly` only record what happened: `orderly` stays true as long as requests come
one at a time, with no older `startsAt` than the last, without faults and with
answers of 200. `StoredStart` is what the `timestamptz` column keeps of a
`startsAt`: `Unit` is a microsecond, and an alert that starts between two units is
new at every repeat. Requests that are refused or carry no alerts change nothing
and are left out, as is `alert_events`, which is only appended to (`Retention` has
it).

### WorkflowRules

`table` is `workflow_rules` by id, a rule being what routing depends on: name,
match labels, group-by labels, channel list, enabled. A channel list is its IDs and
whether it is written as the form writes it, because the group key contains its
text. `instances[i]` is a process on its way through `main` (`down`, `seed`,
`load`, `up`) with the rules it has still to seed, the result of a refresh that is
not installed yet, and its cache; `forms[u]` is the form an admin has open, with the
rule as it was when the form was rendered. A handled alert is one step and a group
is the set of its firing alerts: `Ingest` and `AlertGroups` have the parts.

| Action | Code |
|---|---|
| `Start`, `SeedRule`, `SeedFails` | `LoadLegacyYAMLRules` and the count of `SeedWorkflowRulesFromYAML`, then one upsert per step |
| `FetchRules`, `InstallRules`, `RefreshFails` | `RuleStore.Refresh`: the query, the assignment; a refresh that finds nothing new is no step |
| `Stop` | the process ends, whatever it was at |
| `NewRuleForm`, `EditRuleForm`, `SaveRule`, `DeleteRule` | the handlers of the rule pages; what is saved is an edited draft or the form as it was opened |
| `Route` | `ProcessAlert` with the cache of one instance |

`steady` only records: since an alert fired, its incidents - rule name,
destinations and group-by values, as docs/RULES.md describes them - have been the
same in the table and in every instance that is up.

### WebSessions, WebhookAuth, WebAccess

A browser has a cookie jar that its tabs share. A request carries the cookies of
the moment it was sent; what its answer sets takes effect in a step of its own
(`AnswerArrives`), so that tabs interfere as they do in a browser. Random tokens
are drawn from one sequence, which makes them distinct. The state, nonce and PKCE
verifier cookies of a handshake are set, read and cleared together and are one
token, and so are a session and its CSRF token. The identity provider, Slack and the
browsers are external: a tab is sent back with the token it was sent away with, a
code is accepted once, an address may be opened in another browser.

A request behind `RequireAuth` is two steps at least: the session is looked up,
then the handler's statements run one by one (`InsertKey` and `ListKeys`,
`SaveToken` and `SaveTeam`), and everything else goes on in between. A webhook
request that carries a key is looked up and then, if the key is unknown and there
is no `BEARER_TOKEN`, the keys are counted; `could` records what the answer would
have been in each of the states of the table that the request has met.

### Retention

The clock, `active_alerts` with status and `last_seen`, `alert_events`, the number
of groups and sessions that the rest of a pass would delete, and the pass of every
process. A pass is the sequence of its statements: batches on one table, batches on
the other, groups, sessions, vacuum; an error in the first two ends it, one in the
next two does not. The dashboard only reads, so it is a set of operators on the
tables, evaluated for every filter, every order that `ORDER BY last_seen DESC`
allows and every page in every state.

## What the runs check

| Run | Instance | Shows |
|---|---|---|
| `groups_shared` | 3 alerts, 1 group, 2 workers, threshold 1, one user as destination; 3 events, 1 failed call, 1 crash | whichever copies overwrite each other: targets lead to messages of exactly the alerts that record them, in the channel they are edited by (`TargetsCoverCards`); the members of a bucket have the same (`BucketHasOneSetOfTargets`); the workspace is a `MessageBoard` (`BoardSpec`) |
| `groups_batch` | 2 alerts, 2 groups, 2 workers, claims of up to 2, the list "team, blank, user, team"; 2 events, 1 failed call, 1 crash | `OneTargetPerChannel`, `NotifiedInEveryChannel`, `SentBucketIsRebuilt`, and the inductive invariant `IInv` |
| `groups_alone` | 2 alerts, 1 group, 1 worker, two destinations; 3 events, 1 failed call, no crash | the promises of the documentation that hold for one instance that stays up: `SettledRowIsNotified`, `SettledRowIsShown`, `FiringCardIsOnRecord`, `NoDoublePost`, `ClosedGroupWasTold`, and under fairness `RecordedAlertIsNotified` and `DirtyRowSettles` |
| `timers` | 1 worker, debounce 1.5 s, window 3 s, ticks every second, backoff 1 s and 2 s, 20 half seconds, 5 events | `ClaimedInTime`, `DebounceOrWindow`, `BackoffIsKept` |
| `ingest` | 2 requests at a time, 3 in all, 2 rules, 2 alerts, one of them with a finer `startsAt` than the column, deadline of 2 hung enrichments, 1 fault | `AnsweredIsRecorded` and `LoneFieldStays` for overlapping requests; `EnrichedOnce` and `GroupsAgree` while `orderly` |
| `rules` | 2 instances, 1 admin, 2 files, 1 alert; 2 saves or deletions, 2 events, 1 fault | `SeedingCompletes`, `SeedKeepsWhatItFound`, `DeletedStaysDeleted`, unique names (`TypeOK`), `ResolveReachesItsGroup`, and under fairness `EditsTakeEffect` |
| `web` | 2 browsers, 3 tabs; 3 requests for keys and sign-in or 4 for Slack; 1 webhook request with and without a static token, sessions of 1 tick of 2, 3 workspaces of which one has no name, one fault on each side | `LoginIsOwn`, `EndedSessionIsOut`, `ActsAsShown`, `WebhookDecision`, `SlackNamesItsWorkspace` |
| `dashboard` | 3 alerts, pages of 2, batches of 1, days of 2 ticks and a retention of one day, 4 ticks, 3 events, 1 fault | `CleanupComplete`, `BarsAreComplete`, `PageIsRight`, `PagesCoverAlerts`, and under fairness `CleanupCatchesUp` |
| `lost_update` | 1 worker, no failure, no crash | the save overwrites an event |
| `lost_claim` | 1 worker, 1 crash, fairness | a claimed group is stuck after a crash |
| `double_post` | 2 workers, no failure, no crash | an alert is posted twice |
| `orphaned_group` | 1 instance, no fault, a seeded channel list "C1,C2" | a form saved unchanged rewrites the list and with it the group key, and a resolved event misses its group |

The last four end in a violation: each checks one sentence of the
repository's own documentation, and `PROJECT.json` quotes it with what the code
does. The other properties are stated for what the code does guarantee. Where a
property holds only without failed calls it says `faults = 0`; where it needs a
group to be in one instance's hands at a time, it is checked in `groups_alone` and
proved in `OneHolderProofs`.

Four more limits are known, are steps of the models, and are noted at their hazards:
a crash between a post and the save leaves a message that no row knows of
(`FiringCardIsOnRecord` with `MaxCrashes = 1`); a row that lives on has no window
for its later bursts; an enrichment that hangs on every retry keeps the alerts
behind it out of their groups; and an enriched field next to an ordinary one is
replaced by the next event.

Bounds. Two workers are enough for every race between a stale copy and a newer
one, since a third only adds another copy of the same kind. With threshold 1 two
alerts are a burst; the third alert of `groups_shared` gives a burst next to a
message sent before. Three events let an alert fire, be sent and resolve while
another one joins. One failed call per behaviour is enough for each partial
failure, as the code keeps no history of errors beyond `failed`; one crash lets
a lost claim or a lost timestamp meet everything else. The proofs below have none
of these bounds. In `timers` the horizon is longer than twice the longest delay,
the second backoff is at its cap and the debounce is not a whole number of
seconds. In `ingest` two requests overlap and a third one finds what they left; the
payloads have an alert that fires, resolves and fires again, alone and together
with another in both orders, and the second rule sees the first one's enrichment.
In `rules` two instances seed at once and one may stop or fail half way; two saves
let a form outlive a deletion, reorder the group-by labels between firing and
resolved, and disable a rule; one of the seeded rules has no name, which the form
refuses. In `web` three requests are enough for a sign-in in another tab and a form
of the old page posted after it; a browser is signed in with its pages open at
first, so that no request is spent on that. Four requests let two callbacks from
Slack overlap, or one of their addresses be sent twice, with a workspace connected
before. A plan (`Plans`) is the kinds of requests each tab is used for and their
number, and keeps these two apart. In `dashboard` the
clock gets past retention and a day's end, and three alerts are one page and one
more. A batch of one row makes every deletion several statements. The handlers
of `ingest` are interchangeable (symmetry).
Deadlock is not checked: when events are used up and rows are clean the
instance rests, and time in `GroupTimers` ends at the horizon.

Fairness. `FairSpec` asks for weak fairness of the clock, of each worker's next
step (a goroutine that is in `processGroup` goes on, and every Slack call ends
after at most ten seconds) and of claims of a row that stays due (the ticker, and
`ORDER BY flush_after`, so that a waiting row comes first in the end). In
`WorkflowRules` a process that is started gets through `main` and its ticker
refreshes the cache; in `Retention` the ticker begins pass after pass and a pass
goes on. Nothing is
assumed about events, outcomes, edits or crashes, but the bounds end them: "sooner
or later" means once they stop.

## What is proved

Every invariant and every action property of a passing run has a theorem, for all
values of the constants that satisfy the assumptions: any number of groups, alerts,
instances, requests, rules, tabs, any sizes and any bounds. (The types of `Ingest` and
`Retention` have a theorem and no run.) Each proof has the same shape: an inductive
invariant, a lemma per action that the step keeps it, and a theorem per property that
follows from it. Every inductive invariant was checked by TLC on the instance of its
component's run, or one like it, before it was proved; `IInv` still is
(`groups_batch`).

| Module | Inductive invariant | Properties |
|---|---|---|
| `AlertGroupsProofs` | `IInv` (`Invariance`) | `TypeOK`, `TargetsCoverCards`, `OneTargetPerChannel`, `NotifiedInEveryChannel`; `ImplementsBoard`: every step posts one message of a legal size, edits one, or leaves the workspace alone |
| `BucketsProofs` | `IInv` | `BucketHasOneSetOfTargets`, `SentBucketIsRebuilt`; for any arguments, `BuildBucketsDivide`, `MergedOnlyInABurst`, `NotifiedBucketIsRebuilt`, `SplitChannelsKeepsEach` |
| `OneHolderProofs` | `IInv /\ HInv` (`HolderInvariance`), `Apart` | `SettledRowIsNotified`, `SettledRowIsShown`, `FiringCardIsOnRecord`, `NoDoublePost`, `ClosedGroupWasTold` |
| `GroupTimersProofs` | `InTime` (`InTimeAlways`), `Debounced`, `BackedOff` | `TypeOK`, `ClaimedInTime`, `DebounceOrWindow`, `BackoffIsKept` |
| `IngestProofs` | `IInv` (`IInvAlways`) | `TypeOK`, `AnsweredIsRecorded`, `EnrichedOnce`, `GroupsAgree`, `LoneFieldStays` |
| `WorkflowRulesProofs` | `WInv` (`WInvAlways`), `ImportInv`, `FromInv` and `SteadyInv` | `TypeOK`, `DeletedStaysDeleted`, `SeedKeepsWhatItFound`, `SeedingCompletes`, `ResolveReachesItsGroup` |
| `WebAccessProofs` | `WInv` (`WInvAlways`) | `TypeOK`, `LoginIsOwn`, `EndedSessionIsOut`, `ActsAsShown`, `WebhookDecision`, `SlackNamesItsWorkspace` |
| `RetentionProofs` | `RInv` (`RInvAlways`) | `TypeOK`, `CleanupComplete`, `BarsAreComplete`, `PageIsRight`, `PagesCoverAlerts` |

### Assumptions

The `ASSUME`s say what the constants are: natural numbers, sequences, a batch or page
of at least one row, a finite set of alerts in `Buckets`. Those that exclude
something: there is at least one instance (`TimersAssumption`, `RulesAssumption`); a
workspace that is connected at first is one of `Workspaces` (`SlackAssumption`); a
payload names a fingerprint once and no alert starts before the first unit of the
column (`IngestAssumption`); and two random tokens can be drawn, because a browser is
signed in at first (`SessionsAssumption`).

Some theorems have a hypothesis of their own, as the properties are false
without it.

- `OneHolderProofs`: `[]Undisturbed`, that is, no two instances ever hold one group
  (`OneHolder`) and none has ended or failed to save (`crashes = 0`). It is a
  condition on what happens, not on the constants, and two theorems say when it is
  met. `AloneUndisturbed`: with one instance and `MaxCrashes = 0`, whatever else
  happens; this is the run `groups_alone`, and the corollaries `...Alone` state the
  properties for it. `EventsWaitKeepsApart`: any number of instances stay apart, even
  if they crash, when no event arrives for a group while it is flushed; together with
  `crashes = 0` that is `EventsWaitUndisturbed`. The hypothesis is needed: `double_post`
  ends in a violation with two instances that hold one group, `lost_claim` with a
  crash. (`lost_update` shows that even an undisturbed save overwrites the event that
  arrived during the flush: what is settled then is what the save wrote.)
- `BackoffIsKeptByOne`: one worker. A second one that claims the row when the lease
  of the first has passed can leave it with more attempts than it waited for.
- `ResolveReachesItsGroupIfSpeltAlike`: there is a set `U` with every rule that can
  get into the table - what is imported, and what the form makes of a draft or of a
  rule (`SavedIn(U)`) - in which rules that send an alert to the same incident have
  the same key for it (`SpellAlike(U)`). The run `rules` is such an instance;
  `orphaned_group` is not, and fails.

### The arguments

`AlertGroups`, any instances. None of the properties is inductive. The difficulty is
that a copy can be arbitrarily old when it is written back, so a property of the row
alone is lost at the next save. `IInv` asks the same of every copy, of the row and of
every worker (`CopyOK`): its targets lead to messages that show exactly the alerts
recording them, two alerts have the same messages or none in common
(`SameOrDisjoint`, which is what makes a bucket rebuilt from targets the bucket
that was sent), one target per channel, and all channels once notified. It is
stable because messages never change their alerts and new messages are in no old
copy. `BucketOK` and `SentOK` say how far a worker is inside a bucket: the
targets so far belong to the channels already done, each done channel has one
unless a call failed. `CardsLegal` carries the sizes for the refinement.

`Buckets`. Messages are not stored, only the targets of alerts are, so which alerts a
message stands for is worked out anew at every flush. Whatever the members record, they
are divided (`BuildBucketsDivide`): `SentWith` is an equivalence on those that were sent.
That the division found at a flush is the one of the messages needs the hypothesis of
`NotifiedBucketIsRebuilt`: no other member has the targets that the bucket is given. In
the system that follows from `IInv`, as a target leads to a message that shows exactly the
alerts recording it.

`AlertGroups`, one holder. Any number of instances may be at work, on copies of
different groups. While a group has one holder, the holder's copy is the newest; while
it has none, the row is. `RowOK` says that a row with something to send is dirty or
held, and that it is neither empty nor quiet, so the cleanup does not take it;
`FlushOK` that what the copy has not caught up with is in a bucket still to do, or an
error was noted that makes the row due again; `ShownIn` that messages show what their
alerts were notified with, and that one that shows an alert firing is a target of it -
of the row or of the holder's copy, its bucket under way included. With one target per
channel this leaves no room for a second message. A claim hands the newest copy from
the row to the worker, a save hands it back, and nobody else has it meanwhile.

What keeps instances apart is `Apart`: no two hold one group, and a row that is held is
not dirty. A claim takes dirty rows only and cleans them in the transaction in which it
locks them (`SKIP LOCKED`); nothing but an event or the save that ends the flush makes
the row dirty again. So the only way for a second instance to get at a group is an event
that arrives during the flush and a debounce that ends before it does.

`GroupTimers`. That a dirty row is claimed in time needs a bound on the timer
(`RowInTime`: no event moves it past the window, a failure moves it once) and on the
worker (`WorkerInTime`): since a row that is due stops workers from taking on anything
else at their next tick, whoever is busy now began before it was due.

`Ingest`. Requests overlap, so what has been recorded is said per request
(`RecordedSoFar`): while the deadline has not passed, every pair of alert and rule that
is no longer on its list is in its group. `OrderlyInv` is about requests one by one:
what the request read at its beginning is still what the table says, pairs that were
done have been written, tables and groups agree about all other alerts, and an
enrichment was called only for a start that is in the table or in the request.

`WorkflowRules`. Names are unique since both ways into the table look for the name,
and ids are never given out twice (`TableInv`). What is to be imported is in the table
or still on the list of some process (`ImportInv`), whichever of them inserts it.
`SteadyInv` is the routing: an alert whose incidents have not changed is open exactly
in the groups to which the table's rules send it, and equal incidents have equal keys
by hypothesis.

`WebAccess`. A cookie in a jar, on its way to the service or on its way back, belongs
to its browser (`CookieOK`, `TabOK`); tokens have one meaning (`StoredOK`,
`TokensOK`). `SlackOK` says which callback is between its two statements while none has
overlapped. `HooksOK` says of a webhook request that the answer called for by the keys
as they are now is among those it may give, and that one which asks for the number of
keys had a key that is unknown then and is unknown for good, as keys that are new
have new names.

`Retention`. A pass that is past a table has left nothing there older than its cutoff
(`AlertsDone`, `EventsDone`), new rows being no older than now; what was deleted was too
old to be kept (`KeptInv`), and a bar stands for days that are not. The rows
found are finitely many (`FinitelyMany`), so that a total is a number.

Two definitions are recursive in the community modules: `FlattenSeq`, which joins the
pages and the imported rules, and the maximum of a set. Induction over data with the
library's theorems is out of the prover's reach, but a least counterexample is not:
`WFMin` gives the first place at which the recursive function would differ, and the
step before refutes it (`FlattenIs`, `FlattenType`, `MaxOfBounded`).

### Only model-checked

Liveness: `RecordedAlertIsNotified`, `DirtyRowSettles`, `EditsTakeEffect`,
`CleanupCatchesUp`. They need fairness, and with it `ENABLED`, of which the prover
knows nothing. The runs that end in a violation have no theorems, being statements
that are false.

## Not modelled

The layout of messages and pages, HTTP and OIDC exchanges beyond their outcomes,
migrations, environment variables, health check and packaging are I/O or
configuration without state of their own; `DISABLE_AUTH` replaces `RequireAuth` by a
fixed session, and the web UI without OIDC settings answers 503. Members' display
data is left out: a save that overwrites an event also overwrites its title and
fields, which `StatusChangesByEvent` shows for the status. The list of alert names
and the number of open groups on the dashboard are plain reads. Match labels are
written to the form as lines and parsed again; names with "=" in them, which no
Prometheus label has, are not considered. A group-by label that is listed twice in a
form is kept twice (`parseCSV`) and is part of `ComputeGroupKey`, but not of the
drafts of `rules`.

## Plan

Done, in this order: `Buckets`, `AlertGroups`, `MCAlertGroups`, `MessageBoard`,
`AlertGroupsProofs`, `GroupTimers`, `Ingest`, `MCIngest`, `WorkflowRules`,
`WebSessions`, `WebhookAuth`, `WebAccess`, `Retention` and their instances;
`OneHolderProofs`, `BucketsProofs`, `GroupTimersProofs`, `WebAccessProofs`, `IngestProofs`,
`RetentionProofs`, `WorkflowRulesProofs`.

Worth doing next:

1. An abstract specification of webhook authorization (a request is decided by one
   look at the keys) which `WebAccess` implements, with `WebhookDecision` as its step.
2. An abstract rules table for `WorkflowRules`, as rules with unique names that are
   inserted, replaced and deleted one at a time.
