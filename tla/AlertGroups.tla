---------------------------- MODULE AlertGroups ----------------------------
(***************************************************************************)
(* The alert_groups table (internal/db/groups.go), the flush workers of    *)
(* the application's instances (internal/workflows/flush.go) and the Slack *)
(* workspace they post to (internal/slack/client.go).                      *)
(*                                                                         *)
(* A webhook upserts a member into a group's row and marks the row dirty.  *)
(* A worker claims due dirty rows, computes from its copy of the members   *)
(* which messages to post or edit, calls Slack once per message and        *)
(* channel, and writes its copy of the members back.  Nothing is locked    *)
(* between the claim's commit and that write.                              *)
(*                                                                         *)
(* Time is abstract here (GroupTimers has the clock): "due" stands for     *)
(* flush_after <= now() and "quiet" for updated_at older than an hour.     *)
(***************************************************************************)
EXTENDS Buckets

CONSTANTS Groups,        \* group keys
          NoGroup,       \* no group
          ChannelList,   \* the row's channel column, split at the commas
          ApiOf,         \* the channel Slack says a message was posted in
          Workers,       \* instances of the service, one flush worker each
          FlushBatch,    \* flushBatch
          MaxEvents,     \* bound: alerts upserted
          MaxFaults,     \* bound: Slack calls that return an error
          MaxCrashes     \* bound: instances killed and saves that failed

ASSUME GroupsAssumption ==
  /\ NoGroup \notin Groups
  /\ ChannelList \in [Groups -> Seq(Channel \cup {Blank})]
  /\ ApiOf \in [Channel -> Channel]
  /\ FlushBatch \in Nat \ {0}
  /\ MaxEvents \in Nat /\ MaxFaults \in Nat /\ MaxCrashes \in Nat

VARIABLES rows,      \* alert_groups: a function of the group key
          workers,   \* each worker's copy of what it claimed, and where it is
          slack,     \* the messages of the workspace, by timestamp
          events,    \* how many alerts were upserted
          faults,    \* how many Slack calls returned an error
          crashes    \* how many crashes and failed saves there were

vars == <<rows, workers, slack, events, faults, crashes>>

-----------------------------------------------------------------------------
Members == [Alerts -> Member]

Row == [members : Members, dirty : BOOLEAN, due : BOOLEAN, quiet : BOOLEAN]

(* A key the table has no row for.                                         *)
NoRow == [members |-> NoMembers, dirty |-> FALSE, due |-> FALSE, quiet |-> FALSE]

(* A row has at least the member it was inserted with.                     *)
Exists(g) == Live(rows[g].members) # {}

Channels(g) == SplitChannels(ChannelList[g])

(* What flushDueGroups and processGroup hold in memory: the claimed groups *)
(* still to do, the copy of the members of every claimed group, the group, *)
(* its changed buckets, the bucket and its channels still to do, newTargets, *)
(* and whether bucketErr and sendErr are set.                              *)
Worker == [queue : SUBSET Groups, snap : [Groups -> Members],
           group : Groups \cup {NoGroup}, todo : SUBSET SUBSET Alerts,
           bucket : SUBSET Alerts, left : SUBSET (Nat \ {0}), sent : SUBSET Target,
           failed : BOOLEAN, sendErr : BOOLEAN]

IdleWorker == [queue |-> {}, snap |-> [g \in Groups |-> NoMembers],
               group |-> NoGroup, todo |-> {}, bucket |-> {}, left |-> {},
               sent |-> {}, failed |-> FALSE, sendErr |-> FALSE]

Idle(w) == workers[w].queue = {} /\ workers[w].group = NoGroup

(* w has claimed g and has not finished with it.                           *)
Holds(w, g) == g \in workers[w].queue \/ workers[w].group = g

Held(g) == \E w \in Workers : Holds(w, g)

(* A message: the group it was sent for, the ID it was sent to, the channel *)
(* it is in, and the status it shows each of its alerts with.              *)
Card == [group : Groups, channel : Channel, where : Channel,
         shows : [Alerts -> Status]]

CardAlerts(shows) == {a \in Alerts : shows[a] # Absent}

(* RenderBucketMessage: the statuses of the bucket's members in the copy.  *)
Render(m, b) == [a \in Alerts |-> IF a \in b THEN m[a].status ELSE Absent]

Init == /\ rows = [g \in Groups |-> NoRow]
        /\ workers = [w \in Workers |-> IdleWorker]
        /\ slack = << >>
        /\ events = 0 /\ faults = 0 /\ crashes = 0

-----------------------------------------------------------------------------
(* The table.                                                              *)

(* UpsertGroupMember: the merge leaves the notification state of a member  *)
(* alone.  flush_after is set anew; when the window of the row is over it  *)
(* is already due again (TimerExpires may follow at once).                 *)
UpsertGroupMember(g, a, s) ==
  /\ events < MaxEvents
  /\ events' = events + 1
  /\ rows' = [rows EXCEPT ![g] =
       [members |-> [rows[g].members EXCEPT ![a].status = s],
        dirty |-> TRUE, due |-> FALSE, quiet |-> FALSE]]
  /\ UNCHANGED <<workers, slack, faults, crashes>>

(* flush_after passes: a debounce, a backoff or a lease runs out.          *)
TimerExpires(g) ==
  /\ Exists(g) /\ ~rows[g].due
  /\ rows' = [rows EXCEPT ![g].due = TRUE]
  /\ UNCHANGED <<workers, slack, events, faults, crashes>>

(* An hour passes without an upsert or a save.  Claims come every three    *)
(* seconds and backoffs end at five minutes, so a row is only that old     *)
(* when no worker has it and it is clean, or after instances went down.    *)
GoesQuiet(g) ==
  /\ Exists(g) /\ ~rows[g].quiet /\ ~Held(g)
  /\ rows[g].dirty => crashes > 0
  /\ rows' = [rows EXCEPT ![g].quiet = TRUE]
  /\ UNCHANGED <<workers, slack, events, faults, crashes>>

(* Mutant of CleanupResolvedGroups: one resolved member is enough.         *)
CleanupPartlyResolvedGroups(g) ==
  /\ Exists(g) /\ rows[g].quiet
  /\ \E a \in Live(rows[g].members) : rows[g].members[a].status = "resolved"
  /\ rows' = [rows EXCEPT ![g] = NoRow]
  /\ UNCHANGED <<workers, slack, events, faults, crashes>>

(* Mutant of CleanupResolvedGroups: the age of the row is not looked at.   *)
CleanupResolvedGroupsAtOnce(g) ==
  /\ Exists(g)
  /\ \A a \in Live(rows[g].members) : rows[g].members[a].status = "resolved"
  /\ rows' = [rows EXCEPT ![g] = NoRow]
  /\ UNCHANGED <<workers, slack, events, faults, crashes>>

(* CleanupResolvedGroups does not look at dirty.                           *)
CleanupResolvedGroups(g) ==
  /\ Exists(g) /\ rows[g].quiet
  /\ \A a \in Live(rows[g].members) : rows[g].members[a].status = "resolved"
  /\ rows' = [rows EXCEPT ![g] = NoRow]
  /\ UNCHANGED <<workers, slack, events, faults, crashes>>

Due(g) == rows[g].dirty /\ rows[g].due

Becomes(w, self) == workers' = [workers EXCEPT ![w] = self]

(* ClaimDueGroups: SKIP LOCKED leaves out a due row that another statement *)
(* has locked, so a claim takes some of the due rows, up to the limit.     *)
ClaimDueGroups(w, claimed) ==
  /\ Idle(w)
  /\ claimed # {} /\ Cardinality(claimed) <= FlushBatch
  /\ \A g \in claimed : Due(g)
  /\ Becomes(w, [workers[w] EXCEPT
       !.queue = claimed,
       !.snap = [g \in Groups |-> IF g \in claimed THEN rows[g].members ELSE NoMembers]])
  /\ rows' = [g \in Groups |-> IF g \in claimed
                               THEN [rows[g] EXCEPT !.dirty = FALSE, !.due = FALSE]
                               ELSE rows[g]]
  /\ UNCHANGED <<slack, events, faults, crashes>>

-----------------------------------------------------------------------------
(* processGroup.                                                           *)

Snap(w) == workers[w].snap[workers[w].group]

BeginGroup(w, g) ==
  LET self == workers[w] IN
  /\ self.group = NoGroup /\ g \in self.queue
  /\ Becomes(w, [self EXCEPT !.queue = self.queue \ {g}, !.group = g, !.sendErr = FALSE,
                             !.todo = ChangedBuckets(self.snap[g])])
  /\ UNCHANGED <<rows, slack, events, faults, crashes>>

BeginBucket(w, b) ==
  LET self == workers[w] IN
  /\ self.group # NoGroup /\ self.bucket = {} /\ b \in self.todo
  /\ Becomes(w, [self EXCEPT !.todo = self.todo \ {b}, !.bucket = b, !.sent = {},
                             !.failed = FALSE, !.left = Channels(self.group)])
  /\ UNCHANGED <<rows, slack, events, faults, crashes>>

(* The channel the loop over channels is at.                               *)
AtChannel(w, n) == /\ workers[w].bucket # {} /\ n \in workers[w].left
                   /\ \A i \in workers[w].left : n <= i

(* Mutant of Existing: messages are looked up by the channel they are in.  *)
ExistingByApiChannel(w, ch) ==
  {t \in TargetsOf(Snap(w), workers[w].bucket) : ApiChannelOf(t) = ch}

Existing(w, ch) ==
  {t \in TargetsOf(Snap(w), workers[w].bucket) : t.channel = ch}

(* What a Slack call comes to: "ok"; "refused" - an error and nothing done *)
(* (no token, ok = false, no connection); "lost" - done, but the answer    *)
(* timed out or could not be read, which the code takes for an error.      *)
Outcomes == {"ok", "refused", "lost"}

Charge(outcome) == /\ outcome # "ok" => faults < MaxFaults
                   /\ faults' = IF outcome = "ok" THEN faults ELSE faults + 1

(* slack.Update: chat.update replaces the message, if there is one with    *)
(* this timestamp in this channel.  The target is kept in any case.        *)
UpdateMessage(w, outcome) ==
  LET self == workers[w] IN
  \E n \in self.left :
    /\ AtChannel(w, n)
    /\ \E t \in Existing(w, ChannelList[self.group][n]) :
         /\ outcome # "refused" => /\ t.ts \in DOMAIN slack
                                   /\ slack[t.ts].where = ApiChannelOf(t)
         /\ slack' = IF outcome = "refused" THEN slack
                     ELSE [slack EXCEPT ![t.ts].shows = Render(Snap(w), self.bucket)]
         /\ Becomes(w, [self EXCEPT !.left = self.left \ {n}, !.sent = self.sent \cup {t},
                                    !.failed = self.failed \/ outcome # "ok"])
    /\ Charge(outcome)
    /\ UNCHANGED <<rows, events, crashes>>

(* Mutants of NewTarget: the timestamp of the answer is not decoded; the   *)
(* channel of the answer is not kept.                                      *)
NewTargetWithoutTs(ch, ts) ==
  [channel |-> ch, apiChannel |-> IF ApiOf[ch] = ch THEN Blank ELSE ApiOf[ch], ts |-> 0]

NewTargetAsNamed(ch, ts) == [channel |-> ch, apiChannel |-> Blank, ts |-> ts]

NewTarget(ch, ts) ==
  [channel |-> ch, apiChannel |-> IF ApiOf[ch] = ch THEN Blank ELSE ApiOf[ch], ts |-> ts]

(* slack.Post: without an answer there is no timestamp, hence no target.   *)
PostMessage(w, outcome) ==
  LET self == workers[w] IN
  \E n \in self.left :
    LET ch == ChannelList[self.group][n]
        new == [group |-> self.group, channel |-> ch, where |-> ApiOf[ch],
                shows |-> Render(Snap(w), self.bucket)]
        answered == IF outcome = "ok" THEN {NewTarget(ch, Len(slack) + 1)} ELSE {}
    IN
    /\ AtChannel(w, n)
    /\ Existing(w, ch) = {}
    /\ slack' = IF outcome = "refused" THEN slack ELSE Append(slack, new)
    /\ Becomes(w, [self EXCEPT !.left = self.left \ {n}, !.sent = self.sent \cup answered,
                               !.failed = self.failed \/ outcome # "ok"])
    /\ Charge(outcome)
    /\ UNCHANGED <<rows, events, crashes>>

(* Mutant of Notify: one channel that failed is forgotten.                 *)
NotifyInSpiteOfErrors(m, b, targets, failed) ==
  [a \in Alerts |-> IF a \in b
                    THEN [status |-> m[a].status, targets |-> targets, notified |-> m[a].status]
                    ELSE m[a]]

(* Mutant of Notify: newTargets are only kept when no channel failed.      *)
NotifyWithoutErrors(m, b, targets, failed) ==
  [a \in Alerts |-> IF a \in b /\ ~failed
                    THEN [status |-> m[a].status, targets |-> targets, notified |-> m[a].status]
                    ELSE m[a]]

(* Every member of the bucket gets newTargets; only a bucket without an    *)
(* error marks its members caught up.                                      *)
Notify(m, b, targets, failed) ==
  [a \in Alerts |->
     IF a \in b
     THEN [status |-> m[a].status, targets |-> targets,
           notified |-> IF failed THEN m[a].notified ELSE m[a].status]
     ELSE m[a]]

FinishBucket(w) ==
  LET self == workers[w] IN
  /\ self.bucket # {} /\ self.left = {}
  /\ Becomes(w, [self EXCEPT
       !.snap = [self.snap EXCEPT
                   ![self.group] = Notify(Snap(w), self.bucket, self.sent, self.failed)],
       !.bucket = {}, !.sent = {}, !.failed = FALSE,
       !.sendErr = self.sendErr \/ self.failed])
  /\ UNCHANGED <<rows, slack, events, faults, crashes>>

(* All buckets are done: the save is next.                                 *)
AtSave(w) == workers[w].group # NoGroup /\ workers[w].bucket = {} /\ workers[w].todo = {}

Leaves(w) ==
  LET self == workers[w] IN
  Becomes(w, [self EXCEPT !.snap = [self.snap EXCEPT ![self.group] = NoMembers],
                          !.group = NoGroup, !.sendErr = FALSE])

(* Mutant of SaveGroupProgress: dirty is set instead of reset.             *)
SaveGroupProgressStaysDirty(w) ==
  LET g == workers[w].group IN
  /\ AtSave(w) /\ ~workers[w].sendErr
  /\ rows' = IF Exists(g)
             THEN [rows EXCEPT ![g] = [members |-> Snap(w), dirty |-> TRUE,
                                       due |-> FALSE, quiet |-> FALSE]]
             ELSE rows
  /\ Leaves(w)
  /\ UNCHANGED <<slack, events, faults, crashes>>

(* Both saves write the whole copy of the members over the row, if there   *)
(* still is one; SaveGroupProgress leaves flush_after as it is.            *)
SaveGroupProgress(w) ==
  LET g == workers[w].group IN
  /\ AtSave(w) /\ ~workers[w].sendErr
  /\ rows' = IF Exists(g)
             THEN [rows EXCEPT ![g] = [members |-> Snap(w), dirty |-> FALSE,
                                       due |-> rows[g].due, quiet |-> FALSE]]
             ELSE rows
  /\ Leaves(w)
  /\ UNCHANGED <<slack, events, faults, crashes>>

(* Mutant of SaveGroupProgressFailed: the row is not marked for a retry.   *)
SaveGroupProgressGivesUp(w) ==
  LET g == workers[w].group IN
  /\ AtSave(w) /\ workers[w].sendErr
  /\ rows' = IF Exists(g)
             THEN [rows EXCEPT ![g] = [members |-> Snap(w), dirty |-> FALSE,
                                       due |-> FALSE, quiet |-> FALSE]]
             ELSE rows
  /\ Leaves(w)
  /\ UNCHANGED <<slack, events, faults, crashes>>

SaveGroupProgressFailed(w) ==
  LET g == workers[w].group IN
  /\ AtSave(w) /\ workers[w].sendErr
  /\ rows' = IF Exists(g)
             THEN [rows EXCEPT ![g] = [members |-> Snap(w), dirty |-> TRUE,
                                       due |-> FALSE, quiet |-> FALSE]]
             ELSE rows
  /\ Leaves(w)
  /\ UNCHANGED <<slack, events, faults, crashes>>

(* The save returns an error, which processGroup only logs: the database   *)
(* is gone, or the context was cancelled by a shutdown during the sends.   *)
SaveFails(w) ==
  /\ AtSave(w)
  /\ crashes < MaxCrashes /\ crashes' = crashes + 1
  /\ Leaves(w)
  /\ UNCHANGED <<rows, slack, events, faults>>

(* The process ends with whatever it had claimed, and is started again.    *)
Crash(w) ==
  /\ ~Idle(w)
  /\ crashes < MaxCrashes /\ crashes' = crashes + 1
  /\ Becomes(w, IdleWorker)
  /\ UNCHANGED <<rows, slack, events, faults>>

-----------------------------------------------------------------------------
Save(w) == SaveGroupProgress(w) \/ SaveGroupProgressFailed(w)

Next ==
  \/ \E g \in Groups, a \in Alerts, s \in Reported : UpsertGroupMember(g, a, s)
  \/ \E g \in Groups : TimerExpires(g) \/ GoesQuiet(g) \/ CleanupResolvedGroups(g)
  \/ \E w \in Workers, claimed \in SUBSET Groups : ClaimDueGroups(w, claimed)
  \/ \E w \in Workers, g \in Groups : BeginGroup(w, g)
  \/ \E w \in Workers, b \in SUBSET Alerts : BeginBucket(w, b)
  \/ \E w \in Workers, o \in Outcomes : UpdateMessage(w, o) \/ PostMessage(w, o)
  \/ \E w \in Workers : FinishBucket(w) \/ Save(w) \/ SaveFails(w) \/ Crash(w)

Spec == Init /\ [][Next]_vars

(* Time passes, the ticker makes an idle worker claim, in the order of     *)
(* flush_after, and a worker that has claimed something keeps working:     *)
(* every Slack call ends after ten seconds at the latest.                  *)
WorkerStep(w) ==
  \/ \E g \in Groups : BeginGroup(w, g)
  \/ \E b \in SUBSET Alerts : BeginBucket(w, b)
  \/ \E o \in Outcomes : UpdateMessage(w, o) \/ PostMessage(w, o)
  \/ FinishBucket(w) \/ Save(w)

ClaimWith(w, g) == \E claimed \in SUBSET Groups : g \in claimed /\ ClaimDueGroups(w, claimed)

Fairness == /\ \A g \in Groups : WF_vars(TimerExpires(g))
            /\ \A w \in Workers : WF_vars(WorkerStep(w))
            /\ \A w \in Workers, g \in Groups : WF_vars(ClaimWith(w, g))

FairSpec == Spec /\ Fairness

-----------------------------------------------------------------------------
(* Properties.                                                             *)

(* The types of the variables.                                             *)
TypeOK == /\ rows \in [Groups -> Row]
          /\ workers \in [Workers -> Worker]
          /\ slack \in Seq(Card)
          /\ events \in Nat /\ faults \in Nat /\ crashes \in Nat

(* Every copy of a group's members: the row and what workers hold of it.   *)
Copies(g) == {rows[g].members} \cup {workers[w].snap[g] : w \in Workers}

(* A recorded target leads to a message of its group, in the channel that  *)
(* chat.update will be called with and for the channel the rule names, and *)
(* that message shows exactly the alerts that record it: editing it for    *)
(* these alerts loses none and adds none (the code groups alerts back into *)
(* a message by their targets, whichever worker recorded them and whatever *)
(* was written over in between).                                           *)
Addresses(cards, g, t) ==
  /\ t.ts \in DOMAIN cards
  /\ cards[t.ts].group = g
  /\ cards[t.ts].channel = t.channel
  /\ cards[t.ts].where = ApiChannelOf(t)

Recording(m, t) == {a \in Alerts : t \in m[a].targets}

CoversCards(cards, g, m) ==
  \A a \in Alerts : \A t \in m[a].targets :
     /\ Addresses(cards, g, t)
     /\ CardAlerts(cards[t.ts].shows) = Recording(m, t)

TargetsCoverCards == \A g \in Groups : \A m \in Copies(g) : CoversCards(slack, g, m)

(* buildBuckets takes for the targets of a bucket those of the member that *)
(* comes first in Go's map (batching.go:61): any other has the same.       *)
BucketHasOneSetOfTargets ==
  \A g \in Groups : \A m \in Copies(g) : \A b \in BuildBuckets(m) : \A a \in b :
     m[a].targets = TargetsOf(m, b)

(* A message is not stored, only the targets of its alerts are.  When at   *)
(* least one call succeeded, these are enough: buildBuckets puts the same  *)
(* alerts together from then on, as it does those of other messages, and   *)
(* if no call failed it finds nothing to send for them.                    *)
SentBucketIsRebuilt ==
  \A w \in Workers :
    LET self == workers[w]
        after == Notify(Snap(w), self.bucket, self.sent, self.failed) IN
    self.bucket # {} /\ self.left = {} /\ self.sent # {} =>
      /\ self.bucket \in SentBuckets(after) /\ TargetsOf(after, self.bucket) = self.sent
      /\ \A b \in SentBuckets(Snap(w)) : b \cap self.bucket = {} => b \in SentBuckets(after)
      /\ ~self.failed => ~BucketChanged(after, self.bucket)

(* No alert has two targets for one channel: the second would never be     *)
(* edited again (existingByChannel keeps one of them).                     *)
OneTarget(m) ==
  \A a \in Alerts : \A t, u \in m[a].targets : t.channel = u.channel => t = u

OneTargetPerChannel == \A g \in Groups : \A m \in Copies(g) : OneTarget(m)

(* A member that was ever marked caught up has a message in every channel  *)
(* of its rule: a partial failure never lets a channel be forgotten        *)
(* (flush.go:140-144).                                                     *)
InEveryChannel(g, m) ==
  \A a \in Alerts : m[a].notified # Absent =>
     \A n \in Channels(g) : \E t \in m[a].targets : t.channel = ChannelList[g][n]

NotifiedInEveryChannel == \A g \in Groups : \A m \in Copies(g) : InEveryChannel(g, m)

(* A clean row that no worker is at has every member marked caught up with *)
(* its present status, and, when no Slack call failed, the messages show   *)
(* those statuses.  Holds for one instance that never crashes.             *)
Settled(g) == Exists(g) /\ ~rows[g].dirty /\ ~Held(g)

SettledRowIsNotified ==
  \A g \in Groups : Settled(g) =>
     \A a \in Live(rows[g].members) : rows[g].members[a].notified = rows[g].members[a].status

SettledRowIsShown ==
  faults = 0 => \A g \in Groups : Settled(g) =>
    \A a \in Live(rows[g].members) : \A t \in rows[g].members[a].targets :
       slack[t.ts].shows[a] = rows[g].members[a].status

(* "A group row is deleted once every member has resolved and every        *)
(* member's last notification reflects that" (migrate.go:95-97), though    *)
(* the DELETE only looks at the statuses and the age of the row: whatever  *)
(* was still to be sent when the last member resolved has been sent by     *)
(* then.  Holds while instances stay up; after an outage the clean-up at   *)
(* start-up may come before the flush.                                     *)
ClosedGroupWasTold ==
  [][\A g \in Groups : Exists(g) /\ ~Exists(g)' =>
       \A a \in Live(rows[g].members) : rows[g].members[a].notified = "resolved"]_vars

(* A message that shows an alert firing is still on record for it - in the *)
(* row, or with the worker that is sending it - so a later resolved event  *)
(* can reach it.  Holds for one instance without crashes and failed calls. *)
OnRecord(i, a) ==
  LET g == slack[i].group IN
  \/ \E m \in Copies(g) : \E t \in m[a].targets : t.ts = i
  \/ \E w \in Workers : /\ workers[w].group = g /\ a \in workers[w].bucket
                        /\ \E t \in workers[w].sent : t.ts = i

FiringCardIsOnRecord ==
  faults = 0 => \A i \in DOMAIN slack : \A a \in Alerts :
                   slack[i].shows[a] = "firing" => OnRecord(i, a)

(* No two messages in one channel say that the same alert of a group is    *)
(* firing: nothing is sent twice (groups.go:159-161).                      *)
NoDoublePost ==
  faults = 0 => \A i, j \in DOMAIN slack : \A a \in Alerts :
     /\ slack[i].group = slack[j].group /\ slack[i].channel = slack[j].channel
     /\ slack[i].shows[a] = "firing" /\ slack[j].shows[a] = "firing"
     => i = j

(* Only an event changes what a row says of an alert (groups.go:218: a     *)
(* save "persists each member's updated notification state").              *)
StatusChangesByEvent ==
  [][\A g \in Groups : Exists(g) /\ Exists(g)' /\ events' = events =>
       \A a \in Alerts : rows'[g].members[a].status = rows[g].members[a].status]_vars

(* An alert in a row is sent to Slack sooner or later, as long as the row  *)
(* has it (groups.go:162-164, flush.go:17-19).                             *)
RecordedAlertIsNotified ==
  \A g \in Groups, a \in Alerts :
     rows[g].members[a].status # Absent ~>
        \/ rows[g].members[a].status = Absent
        \/ rows[g].members[a].notified # Absent

(* A dirty row does not stay dirty: events come to an end and so do the    *)
(* failed calls.                                                           *)
DirtyRowSettles == \A g \in Groups : rows[g].dirty ~> ~rows[g].dirty /\ ~Held(g)

(* The workspace behaves like a MessageBoard: bursts of the size the       *)
(* threshold asks for, messages that keep their alerts.                    *)
Board == INSTANCE MessageBoard WITH messages <- slack

BoardSpec == Board!Spec

-----------------------------------------------------------------------------
(* The inductive invariant of the proofs (AlertGroupsProofs).              *)

(* Two members have the same messages or none in common.                   *)
SameOrDisjoint(m) ==
  \A a, b \in Alerts : m[a].targets = m[b].targets \/ m[a].targets \cap m[b].targets = {}

(* What is true of every copy of a group's members, however old.           *)
CopyOK(cards, g, m) ==
  /\ \A a \in Alerts : m[a].status = Absent => m[a].targets = {}
  /\ CoversCards(cards, g, m)
  /\ OneTarget(m)
  /\ SameOrDisjoint(m)
  /\ InEveryChannel(g, m)

(* A bucket of m that has not been worked on: its members have the same    *)
(* messages, and nobody else has one of them.                              *)
BucketOK(m, b) ==
  /\ b # {} /\ b \subseteq Live(m) /\ LegalSize(b)
  /\ \A a, c \in b : m[a].targets = m[c].targets
  /\ \A a \in b, c \in Alerts : m[a].targets \cap m[c].targets # {} => c \in b

(* newTargets so far: messages that show the bucket, one for each channel  *)
(* that is done, and all of those unless a call failed.                    *)
SentOK(cards, k) ==
  LET done == Channels(k.group) \ k.left IN
  /\ k.left \subseteq Channels(k.group)
  /\ \A t \in k.sent : /\ Addresses(cards, k.group, t)
                       /\ CardAlerts(cards[t.ts].shows) = k.bucket
                       /\ \E n \in done : ChannelList[k.group][n] = t.channel
  /\ \A t, u \in k.sent : t.channel = u.channel => t = u
  /\ \A n \in done :
       \/ \E t \in k.sent : t.channel = ChannelList[k.group][n]
       \/ /\ k.failed
          /\ \A t \in TargetsOf(k.snap[k.group], k.bucket) : t.channel # ChannelList[k.group][n]

WorkerOK(cards, k) ==
  /\ \A g \in Groups : CopyOK(cards, g, k.snap[g])
  /\ k.group = NoGroup => k.bucket = {} /\ k.todo = {}
  /\ \A b \in k.todo : BucketOK(k.snap[k.group], b) /\ b \cap k.bucket = {}
  /\ \A b, c \in k.todo : b = c \/ b \cap c = {}
  /\ k.bucket # {} => BucketOK(k.snap[k.group], k.bucket) /\ SentOK(cards, k)

CardsLegal(cards) == \A i \in DOMAIN cards : LegalSize(CardAlerts(cards[i].shows))

(* Rows, workers' copies and messages fit together.                        *)
IInv == /\ TypeOK
        /\ \A g \in Groups : CopyOK(slack, g, rows[g].members)
        /\ \A w \in Workers : WorkerOK(slack, workers[w])
        /\ CardsLegal(slack)
=============================================================================
