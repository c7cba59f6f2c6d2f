---------------------------- MODULE OneHolderProofs ----------------------------
(***************************************************************************)
(* Proofs about AlertGroups for as long as no two instances are at one     *)
(* group and none is killed or fails to save, with any number of           *)
(* instances, groups, alerts and channels: what is to be sent is never     *)
(* lost, messages show what they were sent with, no group is closed before *)
(* its end was told, and nothing is posted twice.  When two instances are  *)
(* at one group, or one crashes between claim and save, none of these      *)
(* holds (runs lost_claim, lost_update, double_post).                      *)
(*                                                                         *)
(* Two things keep instances apart, and both are proved to: that there is  *)
(* only one, and that no event arrives for a group while it is flushed.    *)
(*                                                                         *)
(* Several workers may have copies of one group, which is all that IInv    *)
(* speaks of.  With one holder at a time one of the copies is the newest:  *)
(* the holder's while there is one, and the row otherwise.                 *)
(***************************************************************************)
EXTENDS AlertGroupsProofs

USE DEF Absent, Reported, Status

(* No group is claimed by two instances at once.                           *)
OneHolder == \A g \in Groups : \A v, w \in Workers : Holds(v, g) /\ Holds(w, g) => v = w

(* ... and every claim ends with a save.                                   *)
Undisturbed == OneHolder /\ crashes = 0

(* No event arrives for a group that an instance is at.                    *)
EventsWait ==
  [][\A g \in Groups, a \in Alerts, s \in Reported : UpsertGroupMember(g, a, s) => ~Held(g)]_vars

(* The instance is w, and neither ends nor fails to save.                  *)
Alone(w) == Workers = {w} /\ MaxCrashes = 0

Has(k, g) == g \in k.queue \/ k.group = g

CaughtUp(member) == member.notified = member.status

(* A row that is dirty or held is neither old nor empty, and when it is    *)
(* neither, everything has been sent for it.                               *)
RowOK(row, held) ==
  /\ row.dirty \/ held => Live(row.members) # {} /\ ~row.quiet
  /\ row.dirty \/ held \/ \A a \in Live(row.members) : CaughtUp(row.members[a])

(* What is not caught up is in a bucket still to do, or had an error; the  *)
(* targets of a bucket are in newTargets as soon as their channel is done. *)
FlushOK(k) ==
  LET m == k.snap[k.group] IN
  /\ k.group \notin k.queue
  /\ \A g \in k.queue : Live(k.snap[g]) # {}
  /\ k.group # NoGroup =>
       /\ Live(m) # {}
       /\ \A a \in Live(m) :
            CaughtUp(m[a]) \/ k.sendErr \/ a \in k.bucket \/ \E b \in k.todo : a \in b
  /\ k.bucket # {} => \A t \in TargetsOf(m, k.bucket) :
       t \in k.sent \/ \E n \in k.left : ChannelList[k.group][n] = t.channel

(* Messages are only in channels of the rule.                              *)
Listed(g, m) ==
  \A a \in Alerts : \A t \in m[a].targets : \E n \in Channels(g) : ChannelList[g][n] = t.channel

(* The messages of group g show what the alerts of the copy m were         *)
(* notified with - those of the bucket b, whose new targets are sent, the  *)
(* status they have in it - and one that shows an alert firing is a target *)
(* of it.                                                                  *)
ShownIn(cards, g, m, b, sent) ==
  /\ \A a \in Alerts \ b : \A t \in m[a].targets : cards[t.ts].shows[a] = m[a].notified
  /\ \A a \in b : \A t \in sent : cards[t.ts].shows[a] = m[a].status
  /\ \A i \in DOMAIN cards, a \in Alerts :
       cards[i].group = g /\ cards[i].shows[a] = "firing" =>
         \/ \E t \in m[a].targets : t.ts = i
         \/ a \in b /\ \E t \in sent : t.ts = i

(* So it is for every group a worker has.                                  *)
ShownBy(cards, k) ==
  /\ ~k.failed
  /\ \A g \in k.queue : ShownIn(cards, g, k.snap[g], {}, {})
  /\ k.group # NoGroup => ShownIn(cards, k.group, k.snap[k.group], k.bucket, k.sent)

RowsOK == \A g \in Groups : RowOK(rows[g], Held(g)) /\ Listed(g, rows[g].members)

WorkOK(k) == FlushOK(k) /\ \A g \in Groups : Listed(g, k.snap[g])

AllShown ==
  /\ \A g \in Groups : ~Held(g) => ShownIn(slack, g, rows[g].members, {}, {})
  /\ \A w \in Workers : ShownBy(slack, workers[w])

HInv == /\ RowsOK
        /\ \A w \in Workers : WorkOK(workers[w])
        /\ faults = 0 => AllShown

-----------------------------------------------------------------------------
(* What the steps of a worker leave in its fields.                         *)

LEMMA BeginsFields ==
  ASSUME NEW k \in Worker, NEW g
  PROVE  LET n == Begins(k, g) IN
         /\ n.queue = k.queue \ {g} /\ n.snap = k.snap /\ n.group = g
         /\ n.todo = ChangedBuckets(k.snap[g]) /\ n.bucket = k.bucket
         /\ n.left = k.left /\ n.sent = k.sent /\ n.failed = k.failed /\ n.sendErr = FALSE
BY DEF Begins, Worker

LEMMA TakesFields ==
  ASSUME NEW k \in Worker, NEW b
  PROVE  LET n == Takes(k, b) IN
         /\ n.queue = k.queue /\ n.snap = k.snap /\ n.group = k.group
         /\ n.todo = k.todo \ {b} /\ n.bucket = b /\ n.left = Channels(k.group)
         /\ n.sent = {} /\ n.failed = FALSE /\ n.sendErr = k.sendErr
BY DEF Takes, Worker

LEMMA SendsFields ==
  ASSUME NEW k \in Worker, NEW i, NEW got, NEW o
  PROVE  LET n == Sends(k, i, got, o) IN
         /\ n.queue = k.queue /\ n.snap = k.snap /\ n.group = k.group
         /\ n.todo = k.todo /\ n.bucket = k.bucket /\ n.left = k.left \ {i}
         /\ n.sent = k.sent \cup got /\ n.sendErr = k.sendErr
         /\ n.failed = (k.failed \/ o # "ok")
BY DEF Sends, Worker

LEMMA FinishesFields ==
  ASSUME NEW k \in Worker, k.group \in Groups
  PROVE  LET n == Finishes(k) IN
         /\ n.queue = k.queue /\ n.group = k.group /\ n.todo = k.todo /\ n.bucket = {}
         /\ n.left = k.left /\ n.sent = {} /\ n.failed = FALSE
         /\ n.sendErr = (k.sendErr \/ k.failed)
         /\ n.snap[k.group] = Notify(k.snap[k.group], k.bucket, k.sent, k.failed)
         /\ \A h \in Groups : h # k.group => n.snap[h] = k.snap[h]
<1> DEFINE m == Notify(k.snap[k.group], k.bucket, k.sent, k.failed)
           s == [k.snap EXCEPT ![k.group] = m]
<1>1. s[k.group] = m /\ \A h \in Groups : h # k.group => s[h] = k.snap[h]
  BY WorkerFields
<1> HIDE DEF s, m
<1> DEFINE n == [k EXCEPT !.snap = s, !.bucket = {}, !.sent = {}, !.failed = FALSE,
                          !.sendErr = k.sendErr \/ k.failed]
<1>2. /\ n.queue = k.queue /\ n.group = k.group /\ n.todo = k.todo /\ n.bucket = {}
      /\ n.left = k.left /\ n.sent = {} /\ n.failed = FALSE
      /\ n.sendErr = (k.sendErr \/ k.failed) /\ n.snap = s
  BY DEF Worker
<1> QED BY <1>1, <1>2 DEF Finishes, s, m

LEMMA DropsFields ==
  ASSUME NEW k \in Worker, k.group \in Groups
  PROVE  LET n == Drops(k) IN
         /\ n.queue = k.queue /\ n.group = NoGroup /\ n.todo = k.todo
         /\ n.bucket = k.bucket /\ n.left = k.left /\ n.sent = k.sent
         /\ n.failed = k.failed /\ n.sendErr = FALSE
         /\ \A h \in Groups : n.snap[h] = IF h = k.group THEN NoMembers ELSE k.snap[h]
<1> DEFINE s == [k.snap EXCEPT ![k.group] = NoMembers]
<1>1. \A h \in Groups : s[h] = IF h = k.group THEN NoMembers ELSE k.snap[h]
  BY WorkerFields
<1> HIDE DEF s
<1> DEFINE n == [k EXCEPT !.snap = s, !.group = NoGroup, !.sendErr = FALSE]
<1>2. /\ n.queue = k.queue /\ n.group = NoGroup /\ n.todo = k.todo /\ n.bucket = k.bucket
      /\ n.left = k.left /\ n.sent = k.sent /\ n.failed = k.failed
      /\ n.sendErr = FALSE /\ n.snap = s
  BY DEF Worker
<1> QED BY <1>1, <1>2 DEF Drops, s

LEMMA ClaimsFields ==
  ASSUME NEW k \in Worker, NEW c, NEW s
  PROVE  LET n == Claims(k, c, s) IN
         /\ n.queue = c /\ n.snap = s /\ n.group = k.group /\ n.todo = k.todo
         /\ n.bucket = k.bucket /\ n.left = k.left /\ n.sent = k.sent
         /\ n.failed = k.failed /\ n.sendErr = k.sendErr
BY DEF Claims, Worker
-----------------------------------------------------------------------------
(* Who has what.                                                           *)

LEMMA HoldsHas ==
  ASSUME NEW w, NEW g PROVE Holds(w, g) <=> Has(workers[w], g)
BY DEF Holds, Has

(* What a step of w that leaves it as k does to who has what.              *)
LEMMA HoldersStep ==
  ASSUME IInv, NEW w \in Workers, NEW k \in Worker, Becomes(w, k)
  PROVE  /\ workers'[w] = k
         /\ \A v \in Workers : v # w => workers'[v] = workers[v]
         /\ \A g : Holds(w, g)' <=> Has(k, g)
         /\ \A v \in Workers, g \in Groups : v # w => (Holds(v, g)' <=> Holds(v, g))
         /\ \A g \in Groups : Held(g)' <=> Has(k, g) \/ \E v \in Workers \ {w} : Holds(v, g)
<1>1. /\ workers'[w] = k
      /\ \A v \in Workers : v # w => workers'[v] = workers[v]
  BY BecomesType DEF IInv, TypeOK
<1>2. \A g : Holds(w, g)' <=> Has(k, g)
  BY <1>1 DEF Holds, Has
<1>3. \A v \in Workers, g \in Groups : v # w => (Holds(v, g)' <=> Holds(v, g))
  BY <1>1 DEF Holds
<1>4. \A g \in Groups : Held(g)' <=> Has(k, g) \/ \E v \in Workers \ {w} : Holds(v, g)
  BY <1>2, <1>3 DEF Held
<1> QED BY <1>1, <1>2, <1>3, <1>4

(* A worker's groups are groups, and it has a group at most once.          *)
LEMMA HasFacts ==
  ASSUME GroupsAssumption, IInv, NEW w \in Workers
  PROVE  LET k == workers[w] IN
         /\ k \in Worker /\ WorkerOK(slack, k) /\ NoGroup \notin Groups
         /\ k.queue \subseteq Groups /\ k.group \in Groups \cup {NoGroup}
         /\ \A g \in Groups : k.snap[g] \in Members /\ CopyOK(slack, g, k.snap[g])
BY WorkerFields DEF IInv, TypeOK, WorkerOK, GroupsAssumption

LEMMA RowFacts ==
  ASSUME IInv, NEW g \in Groups
  PROVE  /\ rows \in [Groups -> Row] /\ rows[g] \in Row
         /\ rows[g].members \in Members /\ CopyOK(slack, g, rows[g].members)
BY DEF IInv, TypeOK, Row

LEMMA CardGroup ==
  ASSUME IInv, NEW i \in DOMAIN slack
  PROVE  slack[i].group \in Groups /\ slack[i].shows \in [Alerts -> Status]
<1>1. slack \in Seq(Card)
  BY DEF IInv, TypeOK
<1>2. slack[i] \in Card
  BY <1>1
<1> QED BY <1>2 DEF Card

-----------------------------------------------------------------------------
(* What the messages show.                                                 *)

(* A copy with the same targets, notified as before.                       *)
LEMMA ShownSame ==
  ASSUME NEW cards, NEW g, NEW m, NEW m2, ShownIn(cards, g, m, {}, {}),
         \A a \in Alerts : m2[a].targets = m[a].targets /\ m2[a].notified = m[a].notified
  PROVE  ShownIn(cards, g, m2, {}, {})
BY DEF ShownIn

(* Outside of buckets it does not matter what was sent.                    *)
LEMMA ShownNoBucket ==
  ASSUME NEW cards, NEW g, NEW m, NEW s, NEW s2, ShownIn(cards, g, m, {}, s)
  PROVE  ShownIn(cards, g, m, {}, s2)
BY DEF ShownIn

(* The messages of g are the same.                                         *)
SameCards(cards, more, g) ==
  /\ \A i \in DOMAIN cards : cards[i].group = g => i \in DOMAIN more /\ more[i] = cards[i]
  /\ \A i \in DOMAIN more : more[i].group = g => i \in DOMAIN cards /\ more[i] = cards[i]

LEMMA ShownBeside ==
  ASSUME NEW cards, NEW more, NEW g, SameCards(cards, more, g),
         NEW m, NEW b, NEW sent, ShownIn(cards, g, m, b, sent), CopyOK(cards, g, m),
         b # {} => \A t \in sent : Addresses(cards, g, t)
  PROVE  ShownIn(more, g, m, b, sent)
<1>1. \A a \in Alerts : \A t \in m[a].targets : more[t.ts] = cards[t.ts]
  BY DEF CopyOK, CoversCards, Addresses, SameCards
<1>2. b # {} => \A t \in sent : more[t.ts] = cards[t.ts]
  BY DEF Addresses, SameCards
<1>3. \A i \in DOMAIN more : more[i].group = g => i \in DOMAIN cards /\ more[i] = cards[i]
  BY DEF SameCards
<1>4. \A a \in Alerts \ b : \A t \in m[a].targets : more[t.ts].shows[a] = m[a].notified
  BY <1>1 DEF ShownIn
<1>5. \A a \in b : \A t \in sent : more[t.ts].shows[a] = m[a].status
  BY <1>2 DEF ShownIn
<1>6. \A i \in DOMAIN more, a \in Alerts :
        more[i].group = g /\ more[i].shows[a] = "firing" =>
          \/ \E t \in m[a].targets : t.ts = i
          \/ a \in b /\ \E t \in sent : t.ts = i
  BY <1>3 DEF ShownIn
<1> QED BY <1>4, <1>5, <1>6 DEF ShownIn

(* A worker's groups, when only messages of other groups change.           *)
LEMMA ShownByBeside ==
  ASSUME NEW cards, NEW more, NEW k, ShownBy(cards, k), WorkerOK(cards, k),
         k.queue \subseteq Groups, k.group \in Groups \cup {NoGroup},
         \A g \in Groups : Has(k, g) => SameCards(cards, more, g)
  PROVE  ShownBy(more, k)
<1>1. ASSUME NEW g \in k.queue PROVE ShownIn(more, g, k.snap[g], {}, {})
  <2>1. g \in Groups /\ SameCards(cards, more, g) /\ CopyOK(cards, g, k.snap[g])
    BY <1>1 DEF Has, WorkerOK
  <2> QED BY <1>1, <2>1, ShownBeside DEF ShownBy
<1>2. ASSUME k.group # NoGroup PROVE ShownIn(more, k.group, k.snap[k.group], k.bucket, k.sent)
  <2>1. k.group \in Groups
    BY <1>2
  <2>2. SameCards(cards, more, k.group) /\ CopyOK(cards, k.group, k.snap[k.group])
    BY <2>1 DEF Has, WorkerOK
  <2>3. k.bucket # {} => \A t \in k.sent : Addresses(cards, k.group, t)
    BY DEF WorkerOK, SentOK
  <2>4. ShownIn(cards, k.group, k.snap[k.group], k.bucket, k.sent)
    BY <1>2 DEF ShownBy
  <2> QED BY <2>2, <2>3, <2>4, ShownBeside
<1> QED BY <1>1, <1>2 DEF ShownBy
-----------------------------------------------------------------------------
(* Steps of the table.                                                     *)

LEMMA HolderInit == ASSUME GroupsAssumption, Init PROVE OneHolder /\ HInv
<1>1. /\ \A w \in Workers : workers[w] = IdleWorker
      /\ slack = << >> /\ \A g \in Groups : rows[g] = NoRow
  BY DEF Init
<1>2. /\ IdleWorker.queue = {} /\ IdleWorker.group = NoGroup /\ IdleWorker.bucket = {}
      /\ IdleWorker.failed = FALSE
      /\ \A g \in Groups : IdleWorker.snap[g] = NoMembers
  BY DEF IdleWorker
<1>3. /\ NoRow.dirty = FALSE /\ NoRow.members = NoMembers /\ Live(NoMembers) = {}
      /\ \A a \in Alerts : NoMembers[a].targets = {}
  BY DEF NoRow, NoMembers, NoMember, Live
<1>4. \A w \in Workers, g \in Groups : ~Holds(w, g)
  BY <1>1, <1>2 DEF Holds, GroupsAssumption
<1>5. RowsOK
  BY <1>1, <1>3, <1>4 DEF RowsOK, RowOK, Held, Listed
<1>6. \A w \in Workers : WorkOK(workers[w])
  <2>1. FlushOK(IdleWorker)
    BY <1>2 DEF FlushOK
  <2>2. \A g \in Groups : Listed(g, IdleWorker.snap[g])
    BY <1>2, <1>3 DEF Listed
  <2> QED BY <1>1, <2>1, <2>2 DEF WorkOK
<1>7. AllShown
  <2>1. \A g \in Groups : ShownIn(slack, g, rows[g].members, {}, {})
    BY <1>1, <1>3 DEF ShownIn
  <2>2. ShownBy(slack, IdleWorker)
    BY <1>2 DEF ShownBy
  <2> QED BY <1>1, <2>1, <2>2 DEF AllShown
<1> QED BY <1>4, <1>5, <1>6, <1>7 DEF OneHolder, HInv

(* A step of the table keeps the invariant if it does for the rows.        *)
LEMMA TableStep ==
  ASSUME HInv, workers' = workers, slack' = slack, faults' = faults,
         \A g \in Groups : RowOK(rows'[g], Held(g)) /\ Listed(g, rows'[g].members),
         AllShown => \A g \in Groups : ~Held(g) => ShownIn(slack, g, rows'[g].members, {}, {})
  PROVE  HInv'
<1>1. \A g \in Groups : Held(g)' <=> Held(g)
  BY DEF Held, Holds
<1>2. RowsOK'
  BY <1>1 DEF RowsOK, RowOK
<1>3. AllShown => AllShown'
  BY <1>1 DEF AllShown
<1> QED BY <1>2, <1>3 DEF HInv

(* An event keeps what is on record and makes the row dirty.               *)
LEMMA HolderUpsert ==
  ASSUME IInv, HInv, NEW g \in Groups, NEW a \in Alerts, NEW s \in Reported,
         UpsertGroupMember(g, a, s)
  PROVE  HInv'
<1> DEFINE m == rows[g].members
           new == [m EXCEPT ![a].status = s]
<1>1. m \in Members /\ rows \in [Groups -> Row]
  BY DEF IInv, TypeOK, Row
<1>2. /\ workers' = workers /\ slack' = slack /\ faults' = faults
      /\ rows'[g] = [members |-> new, dirty |-> TRUE, due |-> FALSE, quiet |-> FALSE]
      /\ \A h \in Groups : h # g => rows'[h] = rows[h]
  BY <1>1 DEF UpsertGroupMember
<1>3. \A b \in Alerts : /\ new[b].targets = m[b].targets /\ new[b].notified = m[b].notified
                        /\ b = a => new[b].status = s
  BY <1>1 DEF Members, Member
<1> HIDE DEF new
<1>4. a \in Live(new)
  BY <1>3 DEF Live
<1>5. RowOK(rows'[g], Held(g)) /\ Listed(g, rows'[g].members)
  <2>1. Listed(g, m)
    BY DEF HInv, RowsOK
  <2> QED BY <1>2, <1>3, <1>4, <2>1 DEF RowOK, Listed
<1>6. ASSUME NEW h \in Groups PROVE RowOK(rows'[h], Held(h)) /\ Listed(h, rows'[h].members)
  BY <1>2, <1>5 DEF HInv, RowsOK
<1>7. ASSUME AllShown, NEW h \in Groups, ~Held(h)
      PROVE  ShownIn(slack, h, rows'[h].members, {}, {})
  <2>1. ShownIn(slack, h, rows[h].members, {}, {})
    BY <1>7 DEF AllShown
  <2>2. \A b \in Alerts : /\ rows'[h].members[b].targets = rows[h].members[b].targets
                          /\ rows'[h].members[b].notified = rows[h].members[b].notified
    BY <1>2, <1>3
  <2> QED BY <2>1, <2>2, ShownSame
<1> QED BY <1>2, <1>6, <1>7, TableStep

LEMMA HolderTimer ==
  ASSUME IInv, HInv, crashes = 0, NEW g \in Groups, TimerExpires(g) \/ GoesQuiet(g)
  PROVE  HInv'
<1>1. rows \in [Groups -> Row]
  BY DEF IInv, TypeOK
<1>2. /\ workers' = workers /\ slack' = slack /\ faults' = faults
      /\ \A h \in Groups : /\ rows'[h].members = rows[h].members
                           /\ rows'[h].dirty = rows[h].dirty
                           /\ h # g => rows'[h] = rows[h]
  BY <1>1 DEF TimerExpires, GoesQuiet, Row
<1>3. rows'[g].quiet = rows[g].quiet \/ (~rows[g].dirty /\ ~Held(g))
  <2>1. CASE TimerExpires(g)
    BY <1>1, <2>1 DEF TimerExpires, Row
  <2>2. CASE GoesQuiet(g)
    <3>1. ~(0 > 0)
      OBVIOUS
    <3> QED BY <2>2, <3>1 DEF GoesQuiet
  <2> QED BY <2>1, <2>2
<1>4. \A h \in Groups : RowOK(rows'[h], Held(h)) /\ Listed(h, rows'[h].members)
  <2>1. \A h \in Groups : RowOK(rows[h], Held(h)) /\ Listed(h, rows[h].members)
    BY DEF HInv, RowsOK
  <2>2. RowOK(rows'[g], Held(g))
    BY <1>2, <1>3, <2>1 DEF RowOK
  <2> QED BY <1>2, <2>1, <2>2
<1>5. AllShown => \A h \in Groups : ~Held(h) => ShownIn(slack, h, rows'[h].members, {}, {})
  BY <1>2 DEF AllShown
<1> QED BY <1>2, <1>4, <1>5, TableStep

Told(g) == \A a \in Live(rows[g].members) : rows[g].members[a].notified = "resolved"

(* The row that is deleted has been quiet, hence is caught up, and as all  *)
(* of it is resolved no message shows one of its alerts firing.            *)
LEMMA HolderCleanup ==
  ASSUME IInv, HInv, NEW g \in Groups, CleanupResolvedGroups(g)
  PROVE  HInv' /\ Told(g)
<1> DEFINE m == rows[g].members
<1>1. rows \in [Groups -> Row] /\ CopyOK(slack, g, m)
  BY DEF IInv, TypeOK
<1>2. /\ workers' = workers /\ slack' = slack /\ faults' = faults
      /\ rows'[g] = NoRow
      /\ \A h \in Groups : h # g => rows'[h] = rows[h]
  BY <1>1 DEF CleanupResolvedGroups
<1>3. rows[g].quiet /\ \A a \in Live(m) : m[a].status = "resolved"
  BY DEF CleanupResolvedGroups
<1>4. RowOK(rows[g], Held(g))
  BY DEF HInv, RowsOK
<1>5. ~rows[g].dirty /\ ~Held(g) /\ \A a \in Live(m) : m[a].notified = "resolved"
  BY <1>3, <1>4 DEF RowOK, CaughtUp
<1>6. /\ NoRow.dirty = FALSE /\ NoRow.members = NoMembers /\ Live(NoMembers) = {}
      /\ \A a \in Alerts : NoMembers[a].targets = {}
  BY DEF NoRow, NoMembers, NoMember, Live
<1>7. \A h \in Groups : RowOK(rows'[h], Held(h)) /\ Listed(h, rows'[h].members)
  <2>1. RowOK(NoRow, Held(g)) /\ Listed(g, NoMembers)
    BY <1>5, <1>6 DEF RowOK, Listed
  <2> QED BY <1>2, <1>6, <2>1 DEF HInv, RowsOK
<1>8. ASSUME AllShown PROVE ShownIn(slack, g, NoMembers, {}, {})
  <2>1. ShownIn(slack, g, m, {}, {})
    BY <1>5, <1>8 DEF AllShown
  <2>2. ASSUME NEW i \in DOMAIN slack, NEW a \in Alerts,
               slack[i].group = g, slack[i].shows[a] = "firing"
        PROVE  FALSE
    <3>1. PICK t \in m[a].targets : t.ts = i
      BY <2>1, <2>2 DEF ShownIn
    <3>2. slack[i].shows[a] = m[a].notified
      BY <2>1, <3>1 DEF ShownIn
    <3>3. a \in Live(m)
      BY <1>1, <3>1 DEF CopyOK, Live
    <3> QED BY <1>5, <2>2, <3>2, <3>3
  <2> QED BY <1>6, <2>2 DEF ShownIn
<1>9. AllShown => \A h \in Groups : ~Held(h) => ShownIn(slack, h, rows'[h].members, {}, {})
  BY <1>2, <1>6, <1>8 DEF AllShown
<1> QED BY <1>2, <1>5, <1>7, <1>9, TableStep DEF Told
-----------------------------------------------------------------------------
(* Steps of a worker.                                                      *)

(* A step of w that changes neither the rows nor which groups it has, and  *)
(* no messages but those of the group it is at.                            *)
LEMMA HolderLocal ==
  ASSUME GroupsAssumption, IInv, OneHolder, HInv, NEW w \in Workers, NEW k \in Worker,
         Becomes(w, k), rows' = rows,
         \A g \in Groups : Has(k, g) <=> Has(workers[w], g),
         WorkOK(k),
         faults' = 0 => faults = 0 /\ ShownBy(slack', k),
         \A g \in Groups : g # workers[w].group => SameCards(slack, slack', g)
  PROVE  HInv'
<1>1. /\ workers'[w] = k
      /\ \A v \in Workers : v # w => workers'[v] = workers[v]
      /\ \A g \in Groups : Held(g)' <=> Held(g)
  BY HoldersStep, HoldsHas DEF Held
<1>2. RowsOK'
  BY <1>1 DEF HInv, RowsOK, RowOK
<1>3. \A v \in Workers : WorkOK(workers'[v])
  BY <1>1 DEF HInv
<1>4. ASSUME faults' = 0 PROVE AllShown'
  <2>1. AllShown
    BY <1>4 DEF HInv
  <2>2. ASSUME NEW g \in Groups, ~Held(g)
        PROVE  ShownIn(slack', g, rows[g].members, {}, {})
    <3>1. g # workers[w].group
      BY <2>2 DEF Held, Holds
    <3>2. SameCards(slack, slack', g) /\ CopyOK(slack, g, rows[g].members)
      BY <3>1 DEF IInv
    <3>3. ShownIn(slack, g, rows[g].members, {}, {})
      BY <2>1, <2>2 DEF AllShown
    <3> QED BY <3>2, <3>3, ShownBeside
  <2>3. ASSUME NEW v \in Workers, v # w PROVE ShownBy(slack', workers[v])
    <3>1. /\ WorkerOK(slack, workers[v]) /\ workers[v].queue \subseteq Groups
          /\ workers[v].group \in Groups \cup {NoGroup}
      BY HasFacts
    <3>2. ASSUME NEW g \in Groups, Has(workers[v], g) PROVE SameCards(slack, slack', g)
      <4>1. ~Holds(w, g)
        BY <2>3, <3>2, HoldsHas DEF OneHolder
      <4> QED BY <4>1 DEF Holds
    <3>3. ShownBy(slack, workers[v])
      BY <2>1 DEF AllShown
    <3> QED BY <3>1, <3>2, <3>3, ShownByBeside
  <2>4. \A v \in Workers : ShownBy(slack', workers'[v])
    BY <1>1, <1>4, <2>3
  <2> QED BY <1>1, <2>2, <2>4 DEF AllShown
<1> QED BY <1>2, <1>3, <1>4 DEF HInv

LEMMA HolderClaim ==
  ASSUME GroupsAssumption, IInv, OneHolder', HInv, NEW w \in Workers, NEW c \in SUBSET Groups,
         ClaimDueGroups(w, c)
  PROVE  HInv'
<1> DEFINE k == workers[w]
           copy == [g \in Groups |-> IF g \in c THEN rows[g].members ELSE NoMembers]
           n == Claims(k, c, copy)
<1>1. /\ k \in Worker /\ WorkerOK(slack, k) /\ NoGroup \notin Groups /\ rows \in [Groups -> Row]
      /\ copy \in [Groups -> Members]
  BY HasFacts, NoMembersType DEF IInv, TypeOK, Row
<1>2. /\ slack' = slack /\ faults' = faults /\ k.queue = {} /\ k.group = NoGroup
      /\ \A g \in c : rows[g].dirty
  BY DEF ClaimDueGroups, Idle, Due
<1>3. \A g \in Groups : /\ rows'[g].members = rows[g].members /\ rows'[g].quiet = rows[g].quiet
                        /\ rows'[g].dirty = (rows[g].dirty /\ g \notin c)
  <2> SUFFICES ASSUME NEW g \in Groups
               PROVE  /\ rows'[g].members = rows[g].members /\ rows'[g].quiet = rows[g].quiet
                      /\ rows'[g].dirty = (rows[g].dirty /\ g \notin c)
    OBVIOUS
  <2>1. rows'[g] = IF g \in c THEN [rows[g] EXCEPT !.dirty = FALSE, !.due = FALSE] ELSE rows[g]
    BY DEF ClaimDueGroups
  <2>2. rows[g] \in Row
    BY <1>1
  <2> HIDE DEF k, copy
  <2>3. CASE g \in c
    BY <2>1, <2>2, <2>3 DEF Row
  <2>4. CASE g \notin c
    BY <2>1, <2>2, <2>4 DEF Row
  <2> QED BY <2>3, <2>4
<1>4. \A g \in Groups : copy[g] = IF g \in c THEN rows[g].members ELSE NoMembers
  OBVIOUS
<1>5. Becomes(w, n)
  BY DEF ClaimDueGroups, Claims
<1> HIDE DEF copy
<1>6. /\ n.queue = c /\ n.snap = copy /\ n.group = NoGroup /\ n.bucket = k.bucket
      /\ n.failed = k.failed /\ n \in Worker
  BY <1>1, <1>2, ClaimsFields, ClaimsType
<1> HIDE DEF n
<1>7. /\ workers'[w] = n /\ \A v \in Workers : v # w => workers'[v] = workers[v]
      /\ \A g : Holds(w, g)' <=> Has(n, g)
      /\ \A v \in Workers, g \in Groups : v # w => (Holds(v, g)' <=> Holds(v, g))
      /\ \A g \in Groups : Held(g)' <=> Has(n, g) \/ \E v \in Workers \ {w} : Holds(v, g)
  BY <1>5, <1>6, HoldersStep
<1>8. \A g \in Groups : ~Has(k, g) /\ (Has(n, g) <=> g \in c)
  BY <1>1, <1>2, <1>6 DEF Has
<1>9. \A g \in Groups : Held(g)' <=> Held(g) \/ g \in c
  BY <1>7, <1>8, HoldsHas DEF Held
<1>10. \A g \in c : ~Held(g)
  <2> SUFFICES ASSUME NEW g \in c, NEW v \in Workers, Holds(v, g) PROVE FALSE
    BY DEF Held
  <2>1. v # w
    BY <1>8, HoldsHas
  <2>2. Holds(v, g)' /\ Holds(w, g)'
    BY <1>7, <1>8, <2>1
  <2> QED BY <2>1, <2>2 DEF OneHolder
<1> HIDE DEF k
<1>11. RowsOK'
  <2> SUFFICES ASSUME NEW g \in Groups
               PROVE  RowOK(rows'[g], Held(g)') /\ Listed(g, rows'[g].members)
    BY DEF RowsOK
  <2>1. RowOK(rows[g], Held(g)) /\ Listed(g, rows[g].members)
    BY DEF HInv, RowsOK
  <2>2. RowOK(rows'[g], Held(g)')
    BY <1>2, <1>3, <1>9, <2>1 DEF RowOK
  <2> QED BY <1>3, <2>1, <2>2
<1>12. WorkOK(n)
  <2>1. \A g \in c : Live(n.snap[g]) # {}
    <3> SUFFICES ASSUME NEW g \in c PROVE Live(n.snap[g]) # {}
      OBVIOUS
    <3>1. RowOK(rows[g], Held(g)) /\ rows[g].dirty /\ n.snap[g] = rows[g].members
      BY <1>2, <1>4, <1>6 DEF HInv, RowsOK
    <3> QED BY <3>1 DEF RowOK
  <2>2. k.bucket = {}
    BY <1>1, <1>2 DEF WorkerOK
  <2>3. FlushOK(n)
    BY <1>1, <1>6, <2>1, <2>2 DEF FlushOK
  <2>4. \A g \in Groups : Listed(g, NoMembers) /\ Listed(g, rows[g].members)
    BY DEF HInv, RowsOK, Listed, NoMembers, NoMember
  <2>5. \A g \in Groups : Listed(g, n.snap[g])
    BY <1>4, <1>6, <2>4
  <2> QED BY <2>3, <2>5 DEF WorkOK
<1>13. ASSUME faults = 0 PROVE AllShown'
  <2>1. AllShown
    BY <1>13 DEF HInv
  <2>2. ShownBy(slack, n)
    <3>1. ~n.failed
      BY <1>6, <2>1 DEF AllShown, ShownBy, k
    <3>2. \A g \in c : ShownIn(slack, g, n.snap[g], {}, {})
      BY <1>4, <1>6, <1>10, <2>1 DEF AllShown
    <3> QED BY <1>6, <3>1, <3>2 DEF ShownBy
  <2>3. \A v \in Workers : ShownBy(slack, workers'[v])
    BY <1>7, <2>1, <2>2 DEF AllShown
  <2>4. \A g \in Groups : ~Held(g)' => ShownIn(slack, g, rows'[g].members, {}, {})
    BY <1>3, <1>9, <2>1 DEF AllShown
  <2> QED BY <1>2, <2>3, <2>4 DEF AllShown
<1>14. \A v \in Workers : WorkOK(workers'[v])
  BY <1>7, <1>12 DEF HInv
<1> QED BY <1>2, <1>11, <1>13, <1>14 DEF HInv

(* Every alert of a copy is in one of its buckets, and a bucket that is    *)
(* not to be sent is caught up.                                            *)
LEMMA Bucketed ==
  ASSUME NEW m, NEW a \in Live(m)
  PROVE  CaughtUp(m[a]) \/ \E b \in ChangedBuckets(m) : a \in b
<1>1. \E b \in BuildBuckets(m) : a \in b
  <2>1. CASE a \in Unsent(m)
    <3>1. \E b \in UnsentBuckets(m) : a \in b
      BY <2>1 DEF UnsentBuckets
    <3> QED BY <3>1 DEF BuildBuckets
  <2>2. CASE a \notin Unsent(m)
    <3>1. SentWith(m, a) \in SentBuckets(m)
      BY <2>2 DEF SentBuckets
    <3>2. a \in SentWith(m, a)
      BY <2>2 DEF SentWith, Unsent
    <3> QED BY <3>1, <3>2 DEF BuildBuckets
  <2> QED BY <2>1, <2>2
<1> QED BY <1>1 DEF ChangedBuckets, BucketChanged, CaughtUp

LEMMA HolderBeginGroup ==
  ASSUME GroupsAssumption, IInv, OneHolder, HInv, NEW w \in Workers, NEW g \in Groups,
         BeginGroup(w, g)
  PROVE  HInv'
<1> DEFINE k == workers[w]
           n == Begins(k, g)
<1>1. /\ k \in Worker /\ WorkerOK(slack, k) /\ NoGroup \notin Groups
      /\ k.group = NoGroup /\ g \in k.queue /\ Becomes(w, n)
      /\ UNCHANGED <<rows, slack, faults>>
  BY HasFacts DEF BeginGroup, Begins
<1>2. /\ n.queue = k.queue \ {g} /\ n.snap = k.snap /\ n.group = g
      /\ n.todo = ChangedBuckets(k.snap[g]) /\ n.bucket = k.bucket /\ n.sent = k.sent
      /\ n.failed = k.failed /\ n \in Worker
  <2>1. n \in Worker
    BY <1>1, BeginsType
  <2>2. k \in Worker
    BY <1>1
  <2> HIDE DEF k
  <2>3. /\ n.queue = k.queue \ {g} /\ n.snap = k.snap /\ n.group = g
        /\ n.todo = ChangedBuckets(k.snap[g]) /\ n.bucket = k.bucket /\ n.sent = k.sent
        /\ n.failed = k.failed
    BY <2>2 DEF Begins, Worker
  <2> QED BY <2>1, <2>3
<1>3. k.bucket = {}
  BY <1>1 DEF WorkerOK
<1>4. WorkOK(k) /\ (faults = 0 => ShownBy(slack, k))
  BY DEF HInv, AllShown
<1> HIDE DEF n, k
<1>5. \A h \in Groups : Has(n, h) <=> Has(k, h)
  BY <1>1, <1>2 DEF Has
<1>6. WorkOK(n)
  <2>1. Live(n.snap[g]) # {} /\ \A h \in n.queue : Live(n.snap[h]) # {}
    BY <1>1, <1>2, <1>4 DEF WorkOK, FlushOK
  <2>2. \A a \in Live(n.snap[g]) : CaughtUp(n.snap[g][a]) \/ \E b \in n.todo : a \in b
    BY <1>2, Bucketed
  <2>3. FlushOK(n)
    BY <1>2, <1>3, <2>1, <2>2 DEF FlushOK
  <2> QED BY <1>2, <1>4, <2>3 DEF WorkOK
<1>7. faults = 0 => ShownBy(slack, n)
  <2> SUFFICES ASSUME ShownBy(slack, k) PROVE ShownBy(slack, n)
    BY <1>4
  <2>1. ShownIn(slack, g, k.snap[g], {}, k.sent)
    BY <1>1, ShownNoBucket DEF ShownBy
  <2> QED BY <1>2, <1>3, <2>1 DEF ShownBy
<1>8. \A h \in Groups : SameCards(slack, slack', h)
  BY <1>1 DEF SameCards
<1> QED BY <1>1, <1>2, <1>5, <1>6, <1>7, <1>8, HolderLocal DEF k

LEMMA HolderBeginBucket ==
  ASSUME GroupsAssumption, IInv, OneHolder, HInv, NEW w \in Workers, NEW b \in SUBSET Alerts,
         BeginBucket(w, b)
  PROVE  HInv'
<1> DEFINE k == workers[w]
           n == Takes(k, b)
<1>1. /\ k \in Worker /\ k.group # NoGroup /\ k.bucket = {} /\ b \in k.todo
      /\ Becomes(w, n) /\ UNCHANGED <<rows, slack, faults>>
  BY HasFacts DEF BeginBucket, Takes
<1>2. k.group \in Groups
  BY <1>1, WorkerFields
<1>3. /\ n.queue = k.queue /\ n.snap = k.snap /\ n.group = k.group /\ n.todo = k.todo \ {b}
      /\ n.bucket = b /\ n.left = Channels(k.group) /\ n.sent = {} /\ n.failed = FALSE
      /\ n.sendErr = k.sendErr
  <2>1. k \in Worker
    BY <1>1
  <2> HIDE DEF k
  <2> QED BY <2>1 DEF Takes, Worker
<1>4. n \in Worker
  BY <1>1, <1>2, TakesType
<1>5. WorkOK(k) /\ (faults = 0 => ShownBy(slack, k))
  BY DEF HInv, AllShown
<1> HIDE DEF n, k
<1>6. \A h \in Groups : Has(n, h) <=> Has(k, h)
  BY <1>3 DEF Has
<1>7. WorkOK(n)
  <2>1. \A t \in TargetsOf(k.snap[k.group], b) :
          \E i \in Channels(k.group) : ChannelList[k.group][i] = t.channel
    <3>1. b \subseteq Alerts /\ Listed(k.group, k.snap[k.group])
      BY <1>2, <1>5 DEF WorkOK
    <3> QED BY <3>1 DEF TargetsOf, Listed
  <2>2. /\ n.group \notin n.queue /\ \A g \in n.queue : Live(n.snap[g]) # {}
        /\ Live(k.snap[k.group]) # {}
    BY <1>1, <1>3, <1>5 DEF WorkOK, FlushOK
  <2>3. \A a \in Live(k.snap[k.group]) :
          \/ CaughtUp(k.snap[k.group][a]) \/ n.sendErr \/ a \in n.bucket
          \/ \E d \in n.todo : a \in d
    BY <1>1, <1>3, <1>5 DEF WorkOK, FlushOK
  <2>4. FlushOK(n)
    BY <1>3, <2>1, <2>2, <2>3 DEF FlushOK
  <2> QED BY <1>3, <1>5, <2>4 DEF WorkOK
<1>8. faults = 0 => ShownBy(slack, n)
  <2> SUFFICES ASSUME ShownBy(slack, k) PROVE ShownBy(slack, n)
    BY <1>5
  <2> DEFINE m == k.snap[k.group]
  <2>1. ShownIn(slack, k.group, m, {}, k.sent)
    BY <1>1 DEF ShownBy
  <2> HIDE DEF m
  <2>2. ShownIn(slack, k.group, m, b, {})
    BY <2>1 DEF ShownIn
  <2>3. \A g \in k.queue : ShownIn(slack, g, k.snap[g], {}, {})
    BY DEF ShownBy
  <2> QED BY <1>3, <2>2, <2>3 DEF ShownBy, m
<1>9. \A h \in Groups : SameCards(slack, slack', h)
  BY <1>1 DEF SameCards
<1> QED BY <1>1, <1>4, <1>6, <1>7, <1>8, <1>9, HolderLocal DEF k

(* A send leaves which groups the worker has and its copies as they are.   *)
LEMMA HolderSend ==
  ASSUME GroupsAssumption, IInv, OneHolder, HInv, NEW w \in Workers, workers[w].bucket # {},
         NEW i \in workers[w].left, NEW got \in SUBSET Target, NEW o,
         Becomes(w, Sends(workers[w], i, got, o)),
         \A t \in TargetsOf(Snap(w), workers[w].bucket) :
           t.channel = ChannelList[workers[w].group][i] => t \in got,
         rows' = rows,
         faults' = 0 => faults = 0 /\ ShownBy(slack', Sends(workers[w], i, got, o)),
         \A g \in Groups : g # workers[w].group => SameCards(slack, slack', g)
  PROVE  HInv'
<1> DEFINE k == workers[w]
           n == Sends(k, i, got, o)
<1>1. k \in Worker
  BY HasFacts
<1>2. /\ n.queue = k.queue /\ n.snap = k.snap /\ n.group = k.group
      /\ n.todo = k.todo /\ n.bucket = k.bucket /\ n.left = k.left \ {i}
      /\ n.sent = k.sent \cup got /\ n.sendErr = k.sendErr
  BY <1>1, SendsFields
<1>3. n \in Worker
  BY <1>1, SendsType
<1> HIDE DEF n
<1>4. WorkOK(k)
  BY DEF HInv
<1>5. FlushOK(n)
  <2>1. \A t \in TargetsOf(k.snap[k.group], k.bucket) :
          t \in n.sent \/ \E j \in n.left : ChannelList[k.group][j] = t.channel
    <3> SUFFICES ASSUME NEW t \in TargetsOf(k.snap[k.group], k.bucket)
                 PROVE  t \in n.sent \/ \E j \in n.left : ChannelList[k.group][j] = t.channel
      OBVIOUS
    <3>1. t \in k.sent \/ \E j \in k.left : ChannelList[k.group][j] = t.channel
      BY <1>4 DEF FlushOK, WorkOK
    <3>2. t.channel = ChannelList[k.group][i] => t \in got
      BY DEF Snap
    <3> HIDE DEF k
    <3> QED BY <1>2, <3>1, <3>2
  <2> HIDE DEF k
  <2> QED BY <1>2, <1>4, <2>1 DEF FlushOK, WorkOK
<1>6. WorkOK(n) /\ \A h \in Groups : Has(n, h) <=> Has(k, h)
  BY <1>2, <1>4, <1>5 DEF Has, WorkOK
<1> QED BY <1>3, <1>6, HolderLocal DEF n

(* A message of the bucket, new or edited, shows the bucket as it is in    *)
(* the copy; all others are as before.                                     *)
LEMMA ShownSend ==
  ASSUME GroupsAssumption, IInv, NEW w \in Workers, workers[w].bucket # {},
         ShownBy(slack, workers[w]), workers[w].group \notin workers[w].queue,
         NEW i, NEW t \in Target, t.ts \in DOMAIN slack',
         slack'[t.ts].group = workers[w].group,
         slack'[t.ts].shows = Render(Snap(w), workers[w].bucket),
         \A j \in DOMAIN slack' : j # t.ts => j \in DOMAIN slack /\ slack'[j] = slack[j],
         DOMAIN slack \subseteq DOMAIN slack',
         t.ts \in DOMAIN slack => /\ slack[t.ts].group = workers[w].group
                                 /\ CardAlerts(slack[t.ts].shows) = workers[w].bucket
  PROVE  /\ ShownBy(slack', Sends(workers[w], i, {t}, "ok"))
         /\ \A g \in Groups : g # workers[w].group => SameCards(slack, slack', g)
<1> DEFINE k == workers[w]
           m == Snap(w)
           n == Sends(k, i, {t}, "ok")
<1>1. /\ k \in Worker /\ k.group \in Groups /\ m = k.snap[k.group]
      /\ CopyOK(slack, k.group, m) /\ SentOK(slack, k) /\ k.bucket \in SUBSET Alerts
  BY Sending
<1>2. /\ n.queue = k.queue /\ n.snap = k.snap /\ n.group = k.group /\ n.bucket = k.bucket
      /\ n.sent = k.sent \cup {t} /\ n.failed = k.failed
  <2>1. k.failed \in BOOLEAN
    BY <1>1, WorkerFields
  <2> QED BY <1>1, <2>1, SendsFields
<1>3. \A a \in Alerts : slack'[t.ts].shows[a] = IF a \in k.bucket THEN m[a].status ELSE Absent
  BY DEF Render
<1>4. \A g \in Groups : g # k.group => SameCards(slack, slack', g)
  BY DEF SameCards
<1>5. k.group # NoGroup /\ k.queue \subseteq Groups /\ WorkerOK(slack, k)
  BY <1>1, HasFacts
<1>6. /\ ~k.failed /\ ShownIn(slack, k.group, m, k.bucket, k.sent)
      /\ \A g \in k.queue : ShownIn(slack, g, k.snap[g], {}, {})
  BY <1>1, <1>5 DEF ShownBy
<1>7. \A g \in k.queue : ShownIn(slack', g, k.snap[g], {}, {})
  <2> SUFFICES ASSUME NEW g \in k.queue PROVE ShownIn(slack', g, k.snap[g], {}, {})
    OBVIOUS
  <2>1. g \in Groups /\ g # k.group /\ CopyOK(slack, g, k.snap[g])
    BY <1>5 DEF WorkerOK
  <2> QED BY <1>4, <1>6, <2>1, ShownBeside
<1> HIDE DEF n, m
<1>8. ASSUME NEW a \in Alerts \ k.bucket, NEW u \in m[a].targets
      PROVE  slack'[u.ts].shows[a] = m[a].notified
  <2>1. Addresses(slack, k.group, u) /\ a \in CardAlerts(slack[u.ts].shows)
    BY <1>1, <1>8 DEF CopyOK, CoversCards, Recording
  <2>2. u.ts # t.ts
    BY <1>8, <2>1 DEF Addresses
  <2>3. slack'[u.ts] = slack[u.ts]
    BY <2>1, <2>2 DEF Addresses
  <2> QED BY <1>6, <1>8, <2>3 DEF ShownIn
<1>9. ASSUME NEW a \in k.bucket, NEW u \in n.sent
      PROVE  slack'[u.ts].shows[a] = m[a].status
  <2>1. CASE u.ts = t.ts
    BY <1>1, <1>3, <2>1
  <2>2. CASE u.ts # t.ts
    <3>1. u \in k.sent
      BY <1>2, <1>9, <2>2
    <3>2. u.ts \in DOMAIN slack
      BY <1>1, <3>1 DEF SentOK, Addresses
    <3>3. slack[u.ts].shows[a] = m[a].status
      BY <1>6, <3>1 DEF ShownIn
    <3> QED BY <2>2, <3>2, <3>3
  <2> QED BY <2>1, <2>2
<1>10. ASSUME NEW j \in DOMAIN slack', NEW a \in Alerts,
              slack'[j].group = k.group, slack'[j].shows[a] = "firing"
       PROVE  \/ \E u \in m[a].targets : u.ts = j
              \/ a \in k.bucket /\ \E u \in n.sent : u.ts = j
  <2>1. CASE j = t.ts
    BY <1>2, <1>3, <1>10, <2>1
  <2>2. CASE j # t.ts
    <3>1. j \in DOMAIN slack /\ slack'[j] = slack[j]
      BY <2>2
    <3>2. \/ \E u \in m[a].targets : u.ts = j
          \/ a \in k.bucket /\ \E u \in k.sent : u.ts = j
      BY <1>6, <1>10, <3>1 DEF ShownIn
    <3> QED BY <1>2, <3>2
  <2> QED BY <2>1, <2>2
<1>11. ShownIn(slack', k.group, m, k.bucket, n.sent)
  BY <1>8, <1>9, <1>10 DEF ShownIn
<1>12. ShownBy(slack', n)
  BY <1>1, <1>2, <1>6, <1>7, <1>11 DEF ShownBy
<1> QED BY <1>4, <1>12 DEF n

(* While no call has failed, this one has not.                             *)
LEMMA NoFaultSoFar ==
  ASSUME TypeOK, NEW o, Charge(o), faults' = 0
  PROVE  o = "ok" /\ faults = 0
<1>1. faults \in Nat /\ faults' = IF o = "ok" THEN faults ELSE faults + 1
  BY DEF TypeOK, Charge
<1> QED BY <1>1

LEMMA HolderUpdate ==
  ASSUME GroupsAssumption, IInv, OneHolder, HInv, NEW w \in Workers, NEW o \in Outcomes,
         UpdateMessage(w, o)
  PROVE  HInv'
<1> DEFINE k == workers[w]
           m == Snap(w)
<1>1. PICK n \in k.left :
        /\ AtChannel(w, n)
        /\ \E t \in Existing(w, ChannelList[k.group][n]) :
             /\ slack' = IF o = "refused" THEN slack
                         ELSE [slack EXCEPT ![t.ts].shows = Render(m, k.bucket)]
             /\ Becomes(w, Sends(k, n, {t}, o))
        /\ Charge(o) /\ UNCHANGED <<rows, events, crashes>>
  BY DEF UpdateMessage, Sends
<1>2. PICK t \in Existing(w, ChannelList[k.group][n]) :
             /\ slack' = IF o = "refused" THEN slack
                         ELSE [slack EXCEPT ![t.ts].shows = Render(m, k.bucket)]
             /\ Becomes(w, Sends(k, n, {t}, o))
  BY <1>1
<1>3. k.bucket # {}
  BY <1>1 DEF AtChannel
<1>4. /\ k.group \in Groups /\ m \in Members /\ CopyOK(slack, k.group, m)
      /\ BucketOK(m, k.bucket) /\ k.bucket \in SUBSET Alerts /\ k.bucket \subseteq Live(m)
  BY <1>3, Sending
<1>5. t \in TargetsOf(m, k.bucket) /\ t.channel = ChannelList[k.group][n]
  BY <1>2 DEF Existing
<1>6. t \in Target
  BY <1>4, <1>5 DEF TargetsOf, Members, Member
<1>7. Addresses(slack, k.group, t) /\ CardAlerts(slack[t.ts].shows) = k.bucket
  BY <1>4, <1>5, BucketTarget
<1>8. \A u \in TargetsOf(m, k.bucket) : u.channel = ChannelList[k.group][n] => u \in {t}
  BY <1>4, <1>5, BucketOneTarget
<1>9. slack \in Seq(Card) /\ CardsLegal(slack) /\ t.ts \in DOMAIN slack
      /\ slack[t.ts].group = k.group
  BY <1>7 DEF IInv, TypeOK, Addresses
<1>10. CASE o = "refused"
  <2>1. faults' # 0
    BY <1>1, <1>10, NoFaultSoFar DEF IInv
  <2>2. \A g \in Groups : SameCards(slack, slack', g)
    BY <1>2, <1>10 DEF SameCards
  <2>3. {t} \in SUBSET Target
    BY <1>6
  <2> HIDE DEF k, m
  <2> QED BY <1>1, <1>2, <1>3, <1>8, <2>1, <2>2, <2>3, HolderSend DEF k, m
<1>11. CASE o # "refused"
  <2>1. slack' = [slack EXCEPT ![t.ts].shows = Render(m, k.bucket)]
    BY <1>2, <1>11
  <2>2. /\ Keeps(slack, slack') /\ slack'[t.ts].shows = Render(m, k.bucket)
    BY <1>4, <1>7, <1>9, <2>1, EditKeeps
  <2>3. /\ DOMAIN slack' = DOMAIN slack
        /\ \A j \in DOMAIN slack' : j # t.ts => slack'[j] = slack[j]
    BY <1>9, <2>1
  <2>4. slack'[t.ts].group = k.group
    BY <1>9, <2>2 DEF Keeps
  <2>5. \A g \in Groups : g # k.group => SameCards(slack, slack', g)
    BY <1>9, <2>3, <2>4 DEF SameCards
  <2>6. ASSUME faults' = 0 PROVE faults = 0 /\ ShownBy(slack', Sends(k, n, {t}, o))
    <3>1. o = "ok" /\ faults = 0
      BY <1>1, <2>6, NoFaultSoFar DEF IInv
    <3>2. ShownBy(slack, k) /\ k.group \notin k.queue
      BY <3>1 DEF HInv, AllShown, WorkOK, FlushOK
    <3> HIDE DEF k, m
    <3>3. ShownBy(slack', Sends(k, n, {t}, "ok"))
      BY <1>3, <1>6, <1>7, <1>9, <2>2, <2>3, <2>4, <3>2, ShownSend DEF k, m
    <3> QED BY <3>1, <3>3
  <2>7. {t} \in SUBSET Target
    BY <1>6
  <2> HIDE DEF k, m
  <2> QED BY <1>1, <1>2, <1>3, <1>8, <2>5, <2>6, <2>7, HolderSend DEF k, m
<1> QED BY <1>10, <1>11

LEMMA HolderPost ==
  ASSUME GroupsAssumption, IInv, OneHolder, HInv, NEW w \in Workers, NEW o \in Outcomes,
         PostMessage(w, o)
  PROVE  HInv'
<1> DEFINE k == workers[w]
           m == Snap(w)
           ts == Len(slack) + 1
<1>1. PICK n \in k.left :
        LET ch == ChannelList[k.group][n]
            new == [group |-> k.group, channel |-> ch, where |-> ApiOf[ch],
                    shows |-> Render(m, k.bucket)]
        IN  /\ AtChannel(w, n) /\ Existing(w, ch) = {}
            /\ slack' = IF o = "refused" THEN slack ELSE Append(slack, new)
            /\ Becomes(w, Sends(k, n, IF o = "ok" THEN {NewTarget(ch, ts)} ELSE {}, o))
            /\ Charge(o) /\ UNCHANGED <<rows, events, crashes>>
  BY DEF PostMessage, Sends
<1> DEFINE ch == ChannelList[k.group][n]
           new == [group |-> k.group, channel |-> ch, where |-> ApiOf[ch],
                   shows |-> Render(m, k.bucket)]
           got == IF o = "ok" THEN {NewTarget(ch, ts)} ELSE {}
<1>2. k.bucket # {}
  BY <1>1 DEF AtChannel
<1>3. /\ k.group \in Groups /\ m \in Members /\ k.bucket \in SUBSET Alerts /\ ch \in Channel
  BY <1>2, Sending
<1>4. slack \in Seq(Card) /\ ts \in Nat \ {0} /\ ts \notin DOMAIN slack /\ ApiOf[ch] \in Channel
  BY <1>3 DEF IInv, TypeOK, GroupsAssumption
<1>5. new \in Card
  BY <1>3, <1>4, RenderType DEF Card
<1>6. NewTarget(ch, ts) \in Target /\ NewTarget(ch, ts).ts = ts
  BY <1>3, <1>4, NewTargetType DEF NewTarget
<1>7. \A t \in TargetsOf(m, k.bucket) : t.channel = ch => t \in got
  BY <1>1 DEF Existing
<1>8. /\ Becomes(w, Sends(k, n, got, o)) /\ Charge(o) /\ rows' = rows
      /\ slack' = IF o = "refused" THEN slack ELSE Append(slack, new)
  BY <1>1
<1>9. new.group = k.group /\ new.shows = Render(m, k.bucket)
  OBVIOUS
<1> HIDE DEF new
<1>10. \A g \in Groups : g # k.group => SameCards(slack, slack', g)
  <2>1. CASE o = "refused"
    BY <1>8, <2>1 DEF SameCards
  <2>2. CASE o # "refused"
    <3>1. /\ slack'[ts] = new /\ DOMAIN slack' = DOMAIN slack \cup {ts}
          /\ \A j \in DOMAIN slack : slack'[j] = slack[j]
      BY <1>4, <1>5, <1>8, <2>2
    <3> HIDE DEF k, ts
    <3> QED BY <1>4, <1>9, <3>1 DEF SameCards
  <2> QED BY <2>1, <2>2
<1>11. ASSUME faults' = 0 PROVE faults = 0 /\ ShownBy(slack', Sends(k, n, got, o))
  <2>1. o = "ok" /\ faults = 0
    BY <1>8, <1>11, NoFaultSoFar DEF IInv
  <2>2. ShownBy(slack, k) /\ k.group \notin k.queue
    BY <2>1 DEF HInv, AllShown, WorkOK, FlushOK
  <2>3. slack' = Append(slack, new)
    BY <1>8, <2>1
  <2>4. /\ ts \in DOMAIN slack' /\ slack'[ts] = new
        /\ DOMAIN slack \subseteq DOMAIN slack'
        /\ \A j \in DOMAIN slack' : j # ts => j \in DOMAIN slack /\ slack'[j] = slack[j]
    BY <1>4, <1>5, <2>3
  <2> DEFINE t == NewTarget(ch, ts)
  <2> HIDE DEF k, m, ts, t
  <2>5. t \in Target /\ t.ts = ts
    BY <1>6 DEF t
  <2>6. ShownBy(slack', Sends(k, n, {t}, "ok"))
    BY <1>2, <1>4, <1>9, <2>2, <2>4, <2>5, ShownSend DEF k, m
  <2>7. got = {t}
    BY <2>1 DEF t
  <2> QED BY <2>1, <2>6, <2>7
<1>12. got \in SUBSET Target
  BY <1>6
<1> HIDE DEF k, m, got
<1> QED BY <1>2, <1>7, <1>8, <1>10, <1>11, <1>12, HolderSend DEF k, m

LEMMA HolderFinish ==
  ASSUME GroupsAssumption, IInv, OneHolder, HInv, NEW w \in Workers, FinishBucket(w)
  PROVE  HInv'
<1> DEFINE k == workers[w]
           m == Snap(w)
           n == Finishes(k)
           new == Notify(m, k.bucket, k.sent, k.failed)
<1>1. /\ Becomes(w, n) /\ k.bucket # {} /\ k.left = {}
      /\ UNCHANGED <<rows, slack, faults>>
  BY DEF FinishBucket, Finishes, Snap
<1>2. /\ k \in Worker /\ k.group \in Groups /\ m = k.snap[k.group]
      /\ k.bucket \in SUBSET Alerts /\ SentOK(slack, k)
  BY <1>1, Sending
<1>3. /\ n.queue = k.queue /\ n.group = k.group /\ n.todo = k.todo /\ n.bucket = {}
      /\ n.snap[k.group] = new
      /\ \A h \in Groups : h # k.group => n.snap[h] = k.snap[h]
  BY <1>2, FinishesFields
<1>4. n.sendErr = (k.sendErr \/ k.failed) /\ n.failed = FALSE
  BY <1>2, FinishesFields
<1>5. n \in Worker
  BY <1>2, FinishesType
<1>6. \A a \in Alerts : /\ new[a].status = m[a].status
                        /\ new[a].targets = IF a \in k.bucket THEN k.sent ELSE m[a].targets
                        /\ new[a].notified = IF a \in k.bucket /\ ~k.failed THEN m[a].status
                                                                          ELSE m[a].notified
  BY DEF Notify
<1>7. WorkOK(k) /\ (faults = 0 => ShownBy(slack, k)) /\ k.queue \subseteq Groups
      /\ k.group # NoGroup
  BY <1>2, HasFacts DEF HInv, AllShown
<1> HIDE DEF n, new, k, m
<1>8. Live(new) = Live(m)
  BY <1>6 DEF Live
<1>9. \A h \in Groups : Has(n, h) <=> Has(k, h)
  BY <1>3 DEF Has
<1>10. \A h \in Groups : Listed(h, n.snap[h])
  <2>1. \A t \in k.sent : \E j \in Channels(k.group) : ChannelList[k.group][j] = t.channel
    BY <1>2 DEF SentOK
  <2>2. \A h \in Groups : Listed(h, k.snap[h])
    BY <1>7 DEF WorkOK
  <2>3. Listed(k.group, new)
    BY <1>2, <1>6, <2>1, <2>2 DEF Listed
  <2> QED BY <1>3, <2>2, <2>3
<1>11. FlushOK(n)
  <2>1. \A a \in Live(m) :
          \/ CaughtUp(m[a]) \/ k.sendErr \/ a \in k.bucket \/ \E b \in k.todo : a \in b
    BY <1>2, <1>7 DEF FlushOK, WorkOK
  <2>2. \A a \in Live(new) :
          \/ CaughtUp(new[a]) \/ n.sendErr \/ \E b \in n.todo : a \in b
    <3> SUFFICES ASSUME NEW a \in Live(new), ~n.sendErr, ~\E b \in n.todo : a \in b
                 PROVE  CaughtUp(new[a])
      OBVIOUS
    <3>1. a \in Alerts /\ a \in Live(m) /\ ~k.failed /\ ~k.sendErr
      BY <1>4, <1>8 DEF Live
    <3> QED BY <1>3, <1>6, <2>1, <3>1 DEF CaughtUp
  <2>3. n.group \notin n.queue /\ Live(m) # {}
    BY <1>2, <1>3, <1>7 DEF FlushOK, WorkOK
  <2>4. \A h \in n.queue : Live(n.snap[h]) # {}
    <3>1. \A h \in k.queue : h \in Groups /\ h # k.group /\ Live(k.snap[h]) # {}
      BY <1>7 DEF FlushOK, WorkOK
    <3> QED BY <1>3, <3>1
  <2> QED BY <1>3, <1>8, <2>2, <2>3, <2>4 DEF FlushOK
<1>12. ASSUME faults = 0 PROVE ShownBy(slack, n)
  <2>1. /\ ~k.failed /\ ShownIn(slack, k.group, m, k.bucket, k.sent)
        /\ \A h \in k.queue : ShownIn(slack, h, k.snap[h], {}, {})
    BY <1>2, <1>7, <1>12 DEF ShownBy
  <2>2. \A h \in n.queue : ShownIn(slack, h, n.snap[h], {}, {})
    <3>1. \A h \in k.queue : h \in Groups /\ h # k.group
      BY <1>7 DEF FlushOK, WorkOK
    <3> QED BY <1>3, <2>1, <3>1
  <2>3. ASSUME NEW a \in Alerts, NEW t \in new[a].targets
        PROVE  slack[t.ts].shows[a] = new[a].notified
    <3>1. CASE a \in k.bucket
      <4>1. t \in k.sent /\ new[a].notified = m[a].status
        BY <1>6, <2>1, <2>3, <3>1
      <4> QED BY <2>1, <3>1, <4>1 DEF ShownIn
    <3>2. CASE a \notin k.bucket
      <4>1. t \in m[a].targets /\ new[a].notified = m[a].notified
        BY <1>6, <2>3, <3>2
      <4> QED BY <2>1, <3>2, <4>1 DEF ShownIn
    <3> QED BY <3>1, <3>2
  <2>4. ASSUME NEW i \in DOMAIN slack, NEW a \in Alerts,
               slack[i].group = k.group, slack[i].shows[a] = "firing"
        PROVE  \E t \in new[a].targets : t.ts = i
    <3>1. \/ \E t \in m[a].targets : t.ts = i
          \/ a \in k.bucket /\ \E t \in k.sent : t.ts = i
      BY <2>1, <2>4 DEF ShownIn
    <3>2. a \in k.bucket => m[a].targets \subseteq k.sent
      <4> SUFFICES ASSUME a \in k.bucket, NEW t \in m[a].targets PROVE t \in k.sent
        OBVIOUS
      <4>1. k.left = {} /\ t \in TargetsOf(m, k.bucket)
        BY <1>1 DEF TargetsOf, k
      <4> QED BY <1>2, <1>7, <4>1 DEF FlushOK, WorkOK
    <3> QED BY <1>6, <3>1, <3>2
  <2>5. ShownIn(slack, k.group, new, {}, n.sent)
    BY <2>3, <2>4 DEF ShownIn
  <2> QED BY <1>2, <1>3, <1>4, <2>2, <2>5 DEF ShownBy
<1>13. WorkOK(n)
  BY <1>10, <1>11 DEF WorkOK
<1>14. \A h \in Groups : SameCards(slack, slack', h)
  BY <1>1 DEF SameCards
<1> QED BY <1>1, <1>5, <1>9, <1>12, <1>13, <1>14, HolderLocal DEF k

LEMMA HolderSave ==
  ASSUME GroupsAssumption, IInv, OneHolder, HInv, NEW w \in Workers, Save(w)
  PROVE  /\ HInv'
         /\ \A h \in Groups : Live(rows'[h].members) # {} \/ rows'[h] = rows[h]
<1> DEFINE k == workers[w]
           g == k.group
           m == Snap(w)
           n == Drops(k)
<1>1. /\ k \in Worker /\ rows \in [Groups -> Row] /\ AtSave(w) /\ Becomes(w, n)
      /\ UNCHANGED <<slack, faults>>
  BY DEF IInv, TypeOK, Save, SaveGroupProgress, SaveGroupProgressFailed, Leaves, Drops
<1>2. /\ g \in Groups /\ g # NoGroup /\ k.bucket = {} /\ k.todo = {} /\ m = k.snap[g]
      /\ k.sendErr \in BOOLEAN
  BY <1>1, WorkerFields DEF AtSave, Snap
<1>3. /\ n.queue = k.queue /\ n.group = NoGroup /\ n.bucket = {} /\ n.failed = k.failed
      /\ \A h \in Groups : n.snap[h] = IF h = g THEN NoMembers ELSE k.snap[h]
  BY <1>1, <1>2, DropsFields
<1>4. n \in Worker
  BY <1>1, <1>2, DropsType
<1>5. /\ WorkOK(k) /\ (faults = 0 => ShownBy(slack, k)) /\ k.queue \subseteq Groups
      /\ NoGroup \notin Groups
  BY HasFacts DEF HInv, AllShown
<1>6. Held(g) /\ RowOK(rows[g], Held(g))
  BY <1>2 DEF Held, Holds, HInv, RowsOK
<1>7. Live(m) # {} /\ Exists(g) /\ g \notin k.queue
  BY <1>2, <1>5, <1>6 DEF RowOK, Exists, FlushOK, WorkOK
<1>8. /\ rows'[g].members = m /\ ~rows'[g].quiet /\ (rows'[g].dirty \/ ~k.sendErr)
      /\ \A h \in Groups : h # g => rows'[h] = rows[h]
  BY <1>1, <1>2, <1>7 DEF Save, SaveGroupProgress, SaveGroupProgressFailed
<1> HIDE DEF n
<1>9. /\ workers'[w] = n /\ \A v \in Workers : v # w => workers'[v] = workers[v]
      /\ \A h \in Groups : Held(h)' <=> Has(n, h) \/ \E v \in Workers \ {w} : Holds(v, h)
  BY <1>1, <1>4, HoldersStep
<1>10. \A v \in Workers \ {w} : ~Holds(v, g)
  BY <1>2 DEF OneHolder, Holds
<1>11. \A h \in Groups : Held(h)' <=> h # g /\ Held(h)
  <2>1. \A h \in Groups : Has(n, h) <=> h # g /\ Has(k, h)
    BY <1>2, <1>3, <1>5, <1>7 DEF Has
  <2>2. \A h \in Groups : Held(h) <=> Has(k, h) \/ \E v \in Workers \ {w} : Holds(v, h)
    BY HoldsHas DEF Held
  <2> QED BY <1>9, <1>10, <2>1, <2>2
<1> HIDE DEF k, g, m
<1>12. RowsOK'
  <2>1. ~k.sendErr => \A a \in Live(m) : CaughtUp(m[a])
    BY <1>2, <1>5 DEF FlushOK, WorkOK, g
  <2>2. \A h \in Groups : Listed(h, rows'[h].members)
    BY <1>2, <1>5, <1>8 DEF HInv, RowsOK, WorkOK
  <2> SUFFICES ASSUME NEW h \in Groups PROVE RowOK(rows'[h], Held(h)')
    BY <2>2 DEF RowsOK
  <2>3. CASE h = g
    BY <1>7, <1>8, <1>11, <2>1, <2>3 DEF RowOK
  <2>4. CASE h # g
    BY <1>8, <1>11, <2>4 DEF HInv, RowsOK, RowOK
  <2> QED BY <2>3, <2>4
<1>13. WorkOK(n)
  <2>1. \A h \in Groups : Listed(h, NoMembers)
    BY DEF Listed, NoMembers, NoMember
  <2>2. \A h \in Groups : Listed(h, n.snap[h])
    BY <1>3, <1>5, <2>1 DEF WorkOK
  <2>3. \A h \in k.queue : Live(n.snap[h]) # {}
    BY <1>3, <1>5, <1>7 DEF WorkOK, FlushOK
  <2>4. FlushOK(n)
    BY <1>3, <1>5, <2>3 DEF FlushOK
  <2> QED BY <2>2, <2>4 DEF WorkOK
<1>14. ASSUME faults = 0 PROVE AllShown'
  <2>1. AllShown /\ ShownBy(slack, k)
    BY <1>5, <1>14 DEF HInv
  <2>2. ASSUME NEW h \in Groups, ~Held(h)' PROVE ShownIn(slack, h, rows'[h].members, {}, {})
    <3>1. CASE h = g
      <4>1. ShownIn(slack, g, m, {}, k.sent)
        BY <1>2, <2>1 DEF ShownBy, g
      <4> QED BY <1>8, <3>1, <4>1, ShownNoBucket
    <3>2. CASE h # g
      BY <1>8, <1>11, <2>1, <2>2, <3>2 DEF AllShown
    <3> QED BY <3>1, <3>2
  <2>3. ShownBy(slack, n)
    BY <1>3, <1>5, <1>7, <2>1 DEF ShownBy
  <2>4. \A v \in Workers : ShownBy(slack, workers'[v])
    BY <1>9, <2>1, <2>3 DEF AllShown
  <2> QED BY <1>1, <2>2, <2>4 DEF AllShown
<1>15. \A v \in Workers : WorkOK(workers'[v])
  BY <1>9, <1>13 DEF HInv
<1>16. HInv'
  BY <1>1, <1>12, <1>14, <1>15 DEF HInv
<1> QED BY <1>7, <1>8, <1>16

(* Every step; and a row is deleted only when Slack was told.              *)
LEMMA HolderNext ==
  ASSUME IInv, HInv, Undisturbed, Undisturbed', [Next]_vars
  PROVE  HInv' /\ \A g \in Groups : Exists(g) /\ ~Exists(g)' => Told(g)
<1> DEFINE Step == HInv' /\ \A g \in Groups : Exists(g) /\ ~Exists(g)' => Told(g)
<1> HIDE DEF Step
<1>0. GroupsAssumption /\ OneHolder /\ OneHolder' /\ crashes = 0 /\ crashes' = 0
  BY GroupsAssumption DEF Undisturbed
<1>1. ASSUME HInv', \A h \in Groups : Live(rows'[h].members) # {} \/ rows'[h] = rows[h]
      PROVE  Step
  BY <1>1 DEF Step, Exists
<1>2. ASSUME HInv', \A h \in Groups : rows'[h].members = rows[h].members
      PROVE  Step
  BY <1>2 DEF Step, Exists
<1>3. ASSUME NEW g \in Groups, NEW a \in Alerts, NEW s \in Reported, UpsertGroupMember(g, a, s)
      PROVE  Step
  <2>1. HInv'
    BY <1>3, HolderUpsert
  <2>2. rows \in [Groups -> Row] /\ rows[g].members \in Members
    BY DEF IInv, TypeOK, Row
  <2>3. /\ rows'[g].members = [rows[g].members EXCEPT ![a].status = s]
        /\ \A h \in Groups : h # g => rows'[h] = rows[h]
    BY <1>3, <2>2 DEF UpsertGroupMember
  <2>4. rows'[g].members[a].status = s
    BY <2>2, <2>3 DEF Members, Member
  <2>5. a \in Live(rows'[g].members)
    BY <2>4 DEF Live
  <2> QED BY <1>1, <2>1, <2>3, <2>5
<1>4. ASSUME NEW g \in Groups, TimerExpires(g) \/ GoesQuiet(g) PROVE Step
  <2>1. rows \in [Groups -> Row]
    BY DEF IInv, TypeOK
  <2>2. \A h \in Groups : rows'[h].members = rows[h].members
    BY <1>4, <2>1 DEF TimerExpires, GoesQuiet, Row
  <2> QED BY <1>0, <1>2, <1>4, <2>2, HolderTimer
<1>5. ASSUME NEW g \in Groups, CleanupResolvedGroups(g) PROVE Step
  <2>1. rows \in [Groups -> Row]
    BY DEF IInv, TypeOK
  <2>2. \A h \in Groups : h # g => rows'[h] = rows[h]
    BY <1>5, <2>1 DEF CleanupResolvedGroups
  <2>3. HInv' /\ Told(g)
    BY <1>5, HolderCleanup
  <2> QED BY <2>2, <2>3 DEF Step, Exists
<1>6. ASSUME NEW w \in Workers, NEW c \in SUBSET Groups, ClaimDueGroups(w, c) PROVE Step
  <2>1. \A h \in Groups : rows'[h].members = rows[h].members
    BY <1>6 DEF ClaimDueGroups, IInv, TypeOK, Row
  <2> QED BY <1>0, <1>2, <1>6, <2>1, HolderClaim
<1>7. ASSUME HInv', rows' = rows PROVE Step
  BY <1>2, <1>7
<1>8. ASSUME NEW w \in Workers, NEW g \in Groups, BeginGroup(w, g) PROVE Step
  <2>1. rows' = rows
    BY <1>8 DEF BeginGroup
  <2> QED BY <1>0, <1>7, <1>8, <2>1, HolderBeginGroup
<1>9. ASSUME NEW w \in Workers, NEW b \in SUBSET Alerts, BeginBucket(w, b) PROVE Step
  <2>1. rows' = rows
    BY <1>9 DEF BeginBucket
  <2> QED BY <1>0, <1>7, <1>9, <2>1, HolderBeginBucket
<1>10. ASSUME NEW w \in Workers, NEW o \in Outcomes, UpdateMessage(w, o) \/ PostMessage(w, o)
       PROVE  Step
  <2>1. rows' = rows
    BY <1>10 DEF UpdateMessage, PostMessage
  <2> QED BY <1>0, <1>7, <1>10, <2>1, HolderUpdate, HolderPost
<1>11. ASSUME NEW w \in Workers, FinishBucket(w) PROVE Step
  <2>1. rows' = rows
    BY <1>11 DEF FinishBucket
  <2> QED BY <1>0, <1>7, <1>11, <2>1, HolderFinish
<1>12. ASSUME NEW w \in Workers, Save(w) PROVE Step
  BY <1>0, <1>1, <1>12, HolderSave
<1>13. ASSUME NEW w \in Workers, SaveFails(w) \/ Crash(w) PROVE Step
  <2>1. crashes' = crashes + 1
    BY <1>13 DEF SaveFails, Crash
  <2> QED BY <1>0, <2>1
<1>14. ASSUME UNCHANGED vars PROVE Step
  <2>1. UNCHANGED <<rows, workers, slack, faults>>
    BY <1>14 DEF vars
  <2>2. \A g \in Groups : Held(g)' <=> Held(g)
    BY <2>1 DEF Held, Holds
  <2>3. RowsOK' /\ (AllShown => AllShown')
    BY <2>1, <2>2 DEF HInv, RowsOK, AllShown, RowOK
  <2>4. HInv'
    BY <2>1, <2>3 DEF HInv
  <2> QED BY <1>7, <2>1, <2>4
<1>15. Step
  BY <1>3, <1>4, <1>5, <1>6, <1>8, <1>9, <1>10, <1>11, <1>12, <1>13, <1>14 DEF Next
<1> QED BY <1>15 DEF Step
-----------------------------------------------------------------------------
(* Theorems, for as long as nothing is disturbed.                          *)

(* The newest copy of every group is what is, or will be, in its row: HInv *)
(* is inductive relative to IInv while no group has two holders and no     *)
(* instance is killed.                                                     *)
THEOREM HolderInvariance == Spec /\ []Undisturbed => [](IInv /\ HInv /\ Undisturbed)
<1>1. Init => HInv
  BY HolderInit, GroupsAssumption
<1>2. IInv /\ HInv /\ Undisturbed /\ Undisturbed' /\ [Next]_vars => HInv'
  BY HolderNext
<1> QED BY <1>1, <1>2, Invariance, PTL DEF Spec

(* Nothing is left unsent: a clean row nobody is at is caught up.          *)
THEOREM UndisturbedRowIsNotified == Spec /\ []Undisturbed => []SettledRowIsNotified
<1>1. HInv => SettledRowIsNotified
  BY DEF HInv, RowsOK, SettledRowIsNotified, Settled, RowOK, CaughtUp
<1> QED BY <1>1, HolderInvariance, PTL

(* The messages of a settled row show the statuses of its alerts, as long  *)
(* as no call failed.                                                      *)
THEOREM UndisturbedRowIsShown == Spec /\ []Undisturbed => []SettledRowIsShown
<1>1. HInv => SettledRowIsShown
  <2> SUFFICES ASSUME HInv, faults = 0, NEW g \in Groups, Settled(g),
                      NEW a \in Live(rows[g].members), NEW t \in rows[g].members[a].targets
               PROVE  slack[t.ts].shows[a] = rows[g].members[a].status
    BY DEF SettledRowIsShown
  <2>1. CaughtUp(rows[g].members[a])
    BY DEF HInv, RowsOK, RowOK, Settled
  <2>2. a \in Alerts /\ ShownIn(slack, g, rows[g].members, {}, {})
    BY DEF Live, HInv, AllShown, Settled
  <2>3. slack[t.ts].shows[a] = rows[g].members[a].notified
    BY <2>2 DEF ShownIn
  <2> QED BY <2>1, <2>3 DEF CaughtUp
<1> QED BY <1>1, HolderInvariance, PTL

(* The bucket of g that a worker is sending, as the copy m has it.         *)
SendsFrom(g, m, b, s) ==
  \E w \in Workers :
    /\ workers[w].group = g /\ workers[w].bucket = b /\ workers[w].sent = s
    /\ m = workers[w].snap[g]
    /\ SentOK(slack, workers[w]) /\ FlushOK(workers[w])

(* The newest copy of a group, and what is being sent from it.             *)
LEMMA NewestCopy ==
  ASSUME GroupsAssumption, IInv, HInv, faults = 0, NEW g \in Groups
  PROVE  \E m \in Copies(g), b \in SUBSET Alerts, s \in SUBSET Target :
           /\ CopyOK(slack, g, m) /\ ShownIn(slack, g, m, b, s)
           /\ b # {} => SendsFrom(g, m, b, s)
<1>1. CASE ~Held(g)
  <2>1. /\ CopyOK(slack, g, rows[g].members) /\ rows[g].members \in Copies(g)
        /\ ShownIn(slack, g, rows[g].members, {}, {})
    BY <1>1 DEF HInv, AllShown, Copies, IInv
  <2>2. {} # {} => SendsFrom(g, rows[g].members, {}, {})
    OBVIOUS
  <2>3. {} \in SUBSET Alerts /\ {} \in SUBSET Target
    OBVIOUS
  <2> QED BY <2>1, <2>2, <2>3, Zenon
<1>2. ASSUME NEW w \in Workers, workers[w].group = g
      PROVE  \E m \in Copies(g), b \in SUBSET Alerts, s \in SUBSET Target :
               /\ CopyOK(slack, g, m) /\ ShownIn(slack, g, m, b, s)
               /\ b # {} => SendsFrom(g, m, b, s)
  <2> DEFINE k == workers[w]
  <2>1. k \in Worker /\ WorkerOK(slack, k) /\ CopyOK(slack, g, k.snap[g]) /\ g # NoGroup
    BY HasFacts
  <2>2. k.snap[g] \in Copies(g) /\ FlushOK(k) /\ ShownBy(slack, k)
    BY DEF Copies, HInv, WorkOK, AllShown
  <2>3. k.bucket # {} => SendsFrom(g, k.snap[g], k.bucket, k.sent)
    BY <1>2, <2>1, <2>2 DEF WorkerOK, SendsFrom
  <2>4. ShownIn(slack, g, k.snap[g], k.bucket, k.sent)
    BY <1>2, <2>1, <2>2 DEF ShownBy
  <2>5. k.bucket \in SUBSET Alerts /\ k.sent \in SUBSET Target
    BY <2>1, WorkerFields
  <2> QED BY <2>1, <2>2, <2>3, <2>4, <2>5
<1>3. ASSUME NEW w \in Workers, g \in workers[w].queue
      PROVE  \E m \in Copies(g), b \in SUBSET Alerts, s \in SUBSET Target :
               /\ CopyOK(slack, g, m) /\ ShownIn(slack, g, m, b, s)
               /\ b # {} => SendsFrom(g, m, b, s)
  <2>1. CopyOK(slack, g, workers[w].snap[g]) /\ workers[w].snap[g] \in Copies(g)
    BY HasFacts DEF Copies
  <2>2. ShownIn(slack, g, workers[w].snap[g], {}, {})
    BY <1>3 DEF HInv, AllShown, ShownBy
  <2>3. {} # {} => SendsFrom(g, workers[w].snap[g], {}, {})
    OBVIOUS
  <2>4. {} \in SUBSET Alerts /\ {} \in SUBSET Target
    OBVIOUS
  <2> QED BY <2>1, <2>2, <2>3, <2>4, Zenon
<1> QED BY <1>1, <1>2, <1>3 DEF Held, Holds

(* A message that shows an alert firing stays on record for it, as long as *)
(* no call failed.                                                         *)
THEOREM UndisturbedCardIsOnRecord == Spec /\ []Undisturbed => []FiringCardIsOnRecord
<1>1. IInv /\ HInv => FiringCardIsOnRecord
  <2> SUFFICES ASSUME IInv, HInv, faults = 0, NEW i \in DOMAIN slack, NEW a \in Alerts,
                      slack[i].shows[a] = "firing"
               PROVE  OnRecord(i, a)
    BY DEF FiringCardIsOnRecord
  <2> DEFINE g == slack[i].group
  <2>1. g \in Groups
    BY CardGroup
  <2>2. PICK m \in Copies(g), b \in SUBSET Alerts, s \in SUBSET Target :
           /\ CopyOK(slack, g, m) /\ ShownIn(slack, g, m, b, s)
           /\ b # {} => SendsFrom(g, m, b, s)
    BY <2>1, NewestCopy, GroupsAssumption
  <2>3. (\E t \in m[a].targets : t.ts = i) \/ (a \in b /\ \E t \in s : t.ts = i)
    BY <2>2 DEF ShownIn
  <2> QED BY <2>2, <2>3 DEF OnRecord, SendsFrom
<1> QED BY <1>1, HolderInvariance, PTL

(* Two messages that show an alert of a group firing are in different      *)
(* channels: the targets on record for it, and those just sent, are one    *)
(* for each channel.                                                       *)
THEOREM UndisturbedNoDoublePost == Spec /\ []Undisturbed => []NoDoublePost
<1>1. IInv /\ HInv => NoDoublePost
  <2> SUFFICES ASSUME IInv, HInv, faults = 0, NEW i \in DOMAIN slack, NEW j \in DOMAIN slack,
                      NEW a \in Alerts,
                      slack[i].group = slack[j].group, slack[i].channel = slack[j].channel,
                      slack[i].shows[a] = "firing", slack[j].shows[a] = "firing"
               PROVE  i = j
    BY DEF NoDoublePost
  <2> DEFINE g == slack[i].group
  <2>1. g \in Groups /\ GroupsAssumption
    BY CardGroup, GroupsAssumption
  <2>2. PICK m \in Copies(g), b \in SUBSET Alerts, s \in SUBSET Target :
           /\ CopyOK(slack, g, m) /\ ShownIn(slack, g, m, b, s)
           /\ b # {} => SendsFrom(g, m, b, s)
    BY <2>1, NewestCopy
  <2> HIDE DEF g
  <2> DEFINE known == m[a].targets \cup IF a \in b THEN s ELSE {}
  <2>3. /\ \E t \in known : t.ts = i
        /\ \E t \in known : t.ts = j
    BY <2>2 DEF ShownIn, g
  <2>4. \A t \in m[a].targets : t.ts \in DOMAIN slack /\ slack[t.ts].channel = t.channel
    BY <2>2 DEF CopyOK, CoversCards, Addresses
  <2>5. \A t, u \in m[a].targets : t.channel = u.channel => t = u
    BY <2>2 DEF CopyOK, OneTarget
  <2>6. ASSUME a \in b
        PROVE  /\ \A t \in s : slack[t.ts].channel = t.channel
               /\ \A t, u \in s : t.channel = u.channel => t = u
               /\ \A t \in m[a].targets, u \in s : t.channel = u.channel => t = u
    <3>1. PICK w \in Workers :
            /\ workers[w].group = g /\ workers[w].bucket = b /\ workers[w].sent = s
            /\ m = workers[w].snap[g]
            /\ SentOK(slack, workers[w]) /\ FlushOK(workers[w])
      BY <2>2, <2>6 DEF SendsFrom
    <3> DEFINE k == workers[w]
    <3>2. k.group = g /\ k.bucket = b /\ k.sent = s /\ m = k.snap[g] /\ b # {}
          /\ SentOK(slack, k) /\ FlushOK(k) /\ m[a].targets \subseteq TargetsOf(m, b)
      BY <2>6, <3>1 DEF TargetsOf
    <3> HIDE DEF k
    <3>3. /\ \A t \in s : slack[t.ts].channel = t.channel
          /\ \A t, u \in s : t.channel = u.channel => t = u
          /\ k.left \subseteq Channels(g)
      BY <3>2 DEF SentOK, Addresses
    <3>4. ASSUME NEW t \in m[a].targets, NEW u \in s, t.channel = u.channel
          PROVE  t = u
      <4>1. PICK n \in Channels(g) \ k.left : ChannelList[g][n] = u.channel
        BY <3>2 DEF SentOK
      <4>2. ~\E l \in k.left : ChannelList[g][l] = t.channel
        BY <2>1, <3>3, <3>4, <4>1, ChannelsKept
      <4>3. t \in k.sent
        BY <3>2, <4>2 DEF FlushOK
      <4> QED BY <3>2, <3>3, <3>4, <4>3
    <3> QED BY <3>3, <3>4
  <2>7. \A t \in known : slack[t.ts].channel = t.channel
    BY <2>4, <2>6
  <2>8. \A t, u \in known : t.channel = u.channel => t = u
    BY <2>5, <2>6
  <2> HIDE DEF known
  <2> QED BY <2>3, <2>7, <2>8
<1> QED BY <1>1, HolderInvariance, PTL

(* A group is only closed when Slack was told that all of it is resolved.  *)
THEOREM UndisturbedGroupWasTold == Spec /\ []Undisturbed => ClosedGroupWasTold
<1> DEFINE Closes == \A g \in Groups : Exists(g) /\ ~Exists(g)' =>
                       \A a \in Live(rows[g].members) : rows[g].members[a].notified = "resolved"
<1>1. IInv /\ HInv /\ Undisturbed /\ Undisturbed' /\ [Next]_vars => Closes
  BY HolderNext DEF Told
<1>2. IInv /\ HInv /\ Undisturbed /\ (IInv /\ HInv /\ Undisturbed)' /\ [Next]_vars => [Closes]_vars
  BY <1>1
<1> HIDE DEF Closes
<1>3. Spec /\ []Undisturbed => [][Closes]_vars
  BY <1>2, HolderInvariance, PTL DEF Spec
<1> QED BY <1>3 DEF Closes, ClosedGroupWasTold
-----------------------------------------------------------------------------
(* What keeps instances apart.                                             *)

(* A row that is held is clean, and a worker has a group once.             *)
HeldIsClean ==
  /\ \A g \in Groups : Held(g) => ~rows[g].dirty
  /\ \A w \in Workers : workers[w].group \notin workers[w].queue

Apart == OneHolder /\ HeldIsClean

(* A step that gives no worker a group and makes no row dirty that is held *)
(* afterwards.                                                             *)
LEMMA NobodyNew ==
  ASSUME Apart,
         \A w \in Workers, g \in Groups : Holds(w, g)' => Holds(w, g),
         \A g \in Groups : Held(g)' /\ rows'[g].dirty => rows[g].dirty,
         \A w \in Workers : workers'[w].group \notin workers'[w].queue
  PROVE  Apart'
<1>1. OneHolder'
  BY DEF Apart, OneHolder
<1>2. \A g \in Groups : Held(g)' => Held(g)
  BY DEF Held
<1>3. HeldIsClean'
  BY <1>2 DEF Apart, HeldIsClean
<1> QED BY <1>1, <1>3 DEF Apart

(* A step of a worker that gives it no group, and makes no row dirty but   *)
(* that of a group it leaves.                                              *)
LEMMA KeepsApart ==
  ASSUME IInv, Apart, NEW w \in Workers, NEW k \in Worker, Becomes(w, k),
         \A g \in Groups : Has(k, g) => Has(workers[w], g), k.group \notin k.queue,
         \A g \in Groups : rows'[g].dirty =>
            rows[g].dirty \/ (Has(workers[w], g) /\ ~Has(k, g))
  PROVE  Apart'
<1>1. /\ workers'[w] = k
      /\ \A v \in Workers : v # w => workers'[v] = workers[v]
      /\ \A g : Holds(w, g)' <=> Has(k, g)
      /\ \A v \in Workers, g \in Groups : v # w => (Holds(v, g)' <=> Holds(v, g))
      /\ \A g \in Groups : Held(g)' <=> Has(k, g) \/ \E v \in Workers \ {w} : Holds(v, g)
  BY HoldersStep
<1>2. \A v \in Workers, g \in Groups : Holds(v, g)' => Holds(v, g)
  BY <1>1, HoldsHas
<1>3. \A v \in Workers : workers'[v].group \notin workers'[v].queue
  BY <1>1 DEF Apart, HeldIsClean
<1>4. ASSUME NEW g \in Groups, Held(g)', rows'[g].dirty PROVE rows[g].dirty
  <2> SUFFICES ASSUME Has(workers[w], g), ~Has(k, g) PROVE FALSE
    BY <1>4
  <2>1. PICK v \in Workers \ {w} : Holds(v, g)
    BY <1>1, <1>4
  <2>2. Holds(w, g)
    BY HoldsHas
  <2> QED BY <2>1, <2>2 DEF Apart, OneHolder
<1> QED BY <1>2, <1>3, <1>4, NobodyNew

(* Only a claim gives a worker a group, and it takes no group that is held *)
(* as none of these is dirty.                                              *)
LEMMA ClaimKeepsApart ==
  ASSUME GroupsAssumption, IInv, Apart, NEW w \in Workers, NEW c \in SUBSET Groups,
         ClaimDueGroups(w, c)
  PROVE  Apart'
<1> DEFINE k == workers[w]
           copy == [g \in Groups |-> IF g \in c THEN rows[g].members ELSE NoMembers]
           n == Claims(k, c, copy)
<1>1. /\ k \in Worker /\ k.queue = {} /\ k.group = NoGroup /\ Becomes(w, n)
      /\ NoGroup \notin Groups /\ copy \in [Groups -> Members]
  BY HasFacts, NoMembersType DEF ClaimDueGroups, Claims, Idle, IInv, TypeOK, Row
<1> HIDE DEF copy
<1>2. n.queue = c /\ n.group = NoGroup /\ n \in Worker
  BY <1>1, ClaimsFields, ClaimsType
<1> HIDE DEF n, k
<1>3. /\ \A v \in Workers : v # w => workers'[v] = workers[v]
      /\ workers'[w] = n
      /\ \A v \in Workers, g \in Groups : v # w => (Holds(v, g)' <=> Holds(v, g))
      /\ \A g \in Groups : Holds(w, g)' <=> g \in c
  BY <1>1, <1>2, HoldersStep DEF Has
<1>4. \A g \in c : rows[g].dirty /\ ~Held(g)
  BY DEF ClaimDueGroups, Due, Apart, HeldIsClean
<1>5. OneHolder'
  BY <1>3, <1>4 DEF Apart, OneHolder, Held
<1>6. \A g \in Groups : Held(g)' => g \in c \/ Held(g)
  BY <1>3 DEF Held
<1>7. ASSUME NEW g \in Groups, Held(g)' PROVE ~rows'[g].dirty
  <2>1. rows'[g] = IF g \in c THEN [rows[g] EXCEPT !.dirty = FALSE, !.due = FALSE] ELSE rows[g]
    BY DEF ClaimDueGroups
  <2>2. rows[g] \in Row
    BY RowFacts
  <2>3. CASE g \in c
    BY <2>1, <2>2, <2>3 DEF Row
  <2>4. CASE g \notin c
    BY <1>6, <1>7, <2>1, <2>4 DEF Apart, HeldIsClean
  <2> QED BY <2>3, <2>4
<1>8. \A v \in Workers : workers'[v].group \notin workers'[v].queue
  BY <1>1, <1>2, <1>3 DEF Apart, HeldIsClean
<1> QED BY <1>5, <1>7, <1>8 DEF Apart, HeldIsClean

LEMMA SaveKeepsApart ==
  ASSUME GroupsAssumption, IInv, Apart, NEW w \in Workers, Save(w) \/ SaveFails(w)
  PROVE  Apart'
<1> DEFINE k == workers[w]
           n == Drops(k)
<1>1. /\ k \in Worker /\ rows \in [Groups -> Row] /\ Becomes(w, n)
      /\ k.group \in Groups /\ NoGroup \notin Groups /\ k.queue \subseteq Groups
  BY HasFacts DEF IInv, TypeOK, Save, SaveGroupProgress, SaveGroupProgressFailed, SaveFails,
                  Leaves, Drops, AtSave
<1>2. n.queue = k.queue /\ n.group = NoGroup /\ n \in Worker
  BY <1>1, DropsFields, DropsType
<1>3. \A g \in Groups : g # k.group => rows'[g] = rows[g]
  BY <1>1 DEF Save, SaveGroupProgress, SaveGroupProgressFailed, SaveFails
<1>4. k.group \notin k.queue
  BY DEF Apart, HeldIsClean
<1> HIDE DEF n, k
<1>5. \A g \in Groups : Has(n, g) <=> Has(k, g) /\ g # k.group
  BY <1>1, <1>2, <1>4 DEF Has
<1>6. n.group \notin n.queue
  BY <1>1, <1>2
<1>7. \A g \in Groups : rows'[g].dirty => rows[g].dirty \/ (Has(k, g) /\ ~Has(n, g))
  BY <1>3, <1>5 DEF Has
<1> QED BY <1>1, <1>2, <1>5, <1>6, <1>7, KeepsApart DEF k

(* A step of a worker that leaves the rows alone and gives it no group.    *)
LEMMA LocalKeepsApart ==
  ASSUME IInv, Apart, NEW w \in Workers, NEW k \in Worker, Becomes(w, k), rows' = rows,
         \A g \in Groups : Has(k, g) => Has(workers[w], g), k.group \notin k.queue
  PROVE  Apart'
BY KeepsApart

LEMMA BeginKeepsApart ==
  ASSUME GroupsAssumption, IInv, Apart, NEW w \in Workers, NEW g \in Groups, BeginGroup(w, g)
  PROVE  Apart'
<1> DEFINE k == workers[w]
           n == Begins(k, g)
<1>1. /\ k \in Worker /\ k.group = NoGroup /\ g \in k.queue /\ Becomes(w, n) /\ rows' = rows
  BY HasFacts DEF BeginGroup, Begins
<1>2. n \in Worker
  BY <1>1, BeginsType
<1>3. n.queue = k.queue \ {g} /\ n.group = g
  <2>1. k \in Worker
    BY <1>1
  <2> HIDE DEF k
  <2> QED BY <2>1, BeginsFields
<1> HIDE DEF n, k
<1>4. \A h \in Groups : Has(n, h) => Has(k, h)
  BY <1>1, <1>3 DEF Has
<1>5. n.group \notin n.queue
  BY <1>3
<1> QED BY <1>1, <1>2, <1>4, <1>5, LocalKeepsApart DEF k

(* Taking and finishing a bucket and sending it leave which groups the     *)
(* worker has as they are.                                                 *)
LEMMA FlushKeepsApart ==
  ASSUME IInv, Apart, NEW w \in Workers, NEW k \in Worker, Becomes(w, k), rows' = rows,
         k.queue = workers[w].queue, k.group = workers[w].group
  PROVE  Apart'
<1>1. k.group \notin k.queue
  BY DEF Apart, HeldIsClean
<1>2. \A g \in Groups : Has(k, g) => Has(workers[w], g)
  BY DEF Has
<1> QED BY <1>1, <1>2, LocalKeepsApart

LEMMA SendingKeepsApart ==
  ASSUME GroupsAssumption, IInv, Apart, NEW w \in Workers, NEW o \in Outcomes,
         UpdateMessage(w, o) \/ PostMessage(w, o)
  PROVE  Apart'
<1> DEFINE k == workers[w]
<1>1. k \in Worker
  BY HasFacts
<1>2. \E i \in k.left, got \in SUBSET Target : Becomes(w, Sends(k, i, got, o)) /\ rows' = rows
  <2>1. CASE UpdateMessage(w, o)
    <3>1. PICK i \in k.left : /\ AtChannel(w, i)
                              /\ \E t \in Existing(w, ChannelList[k.group][i]) :
                                    Becomes(w, Sends(k, i, {t}, o))
                              /\ rows' = rows
      BY <2>1 DEF UpdateMessage, Sends
    <3>2. PICK t \in Existing(w, ChannelList[k.group][i]) : Becomes(w, Sends(k, i, {t}, o))
      BY <3>1
    <3>3. k.bucket # {}
      BY <3>1 DEF AtChannel
    <3>4. Snap(w) \in Members /\ k.bucket \in SUBSET Alerts
      BY <3>3, Sending
    <3>5. {t} \in SUBSET Target
      BY <3>4 DEF Existing, TargetsOf, Members, Member
    <3> QED BY <3>1, <3>2, <3>5
  <2>2. CASE PostMessage(w, o)
    <3> DEFINE ts == Len(slack) + 1
    <3>1. PICK i \in k.left :
            LET ch == ChannelList[k.group][i] IN
            /\ AtChannel(w, i) /\ rows' = rows
            /\ Becomes(w, Sends(k, i, IF o = "ok" THEN {NewTarget(ch, ts)} ELSE {}, o))
      BY <2>2 DEF PostMessage, Sends
    <3> DEFINE ch == ChannelList[k.group][i]
               got == IF o = "ok" THEN {NewTarget(ch, ts)} ELSE {}
    <3>2. k.bucket # {}
      BY <3>1 DEF AtChannel
    <3>3. ch \in Channel
      BY <3>2, Sending
    <3>4. ts \in Nat \ {0} /\ ApiOf[ch] \in Channel
      BY <3>3 DEF IInv, TypeOK, GroupsAssumption
    <3>5. got \in SUBSET Target
      BY <3>3, <3>4, NewTargetType
    <3> QED BY <3>1, <3>5
  <2> QED BY <2>1, <2>2
<1>3. PICK i \in k.left, got \in SUBSET Target : Becomes(w, Sends(k, i, got, o)) /\ rows' = rows
  BY <1>2
<1> DEFINE n == Sends(k, i, got, o)
<1>4. n \in Worker
  BY <1>1, SendsType
<1>5. n.queue = k.queue /\ n.group = k.group
  <2> HIDE DEF k
  <2> QED BY <1>1, SendsFields
<1> HIDE DEF n, k
<1> QED BY <1>3, <1>4, <1>5, FlushKeepsApart DEF n, k

(* Every step that brings no event for a group that is held.               *)
LEMMA ApartNext ==
  ASSUME IInv, Apart, [Next]_vars,
         \A g \in Groups, a \in Alerts, s \in Reported : UpsertGroupMember(g, a, s) => ~Held(g)
  PROVE  Apart'
<1>0. GroupsAssumption
  BY GroupsAssumption
<1>1. ASSUME workers' = workers, \A g \in Groups : Held(g) /\ rows'[g].dirty => rows[g].dirty
      PROVE  Apart'
  <2>1. \A w \in Workers, g \in Groups : Holds(w, g)' <=> Holds(w, g)
    BY <1>1 DEF Holds
  <2>2. \A g \in Groups : Held(g)' <=> Held(g)
    BY <2>1 DEF Held
  <2> QED BY <1>1, <2>1, <2>2, NobodyNew DEF Apart, HeldIsClean
<1>2. rows \in [Groups -> Row]
  BY DEF IInv, TypeOK
<1>3. ASSUME NEW g \in Groups, NEW a \in Alerts, NEW s \in Reported, UpsertGroupMember(g, a, s)
      PROVE  Apart'
  <2>1. ~Held(g)
    BY <1>3
  <2>2. workers' = workers /\ \A h \in Groups : h # g => rows'[h] = rows[h]
    BY <1>2, <1>3 DEF UpsertGroupMember
  <2> QED BY <1>1, <2>1, <2>2
<1>4. ASSUME NEW g \in Groups, TimerExpires(g) \/ GoesQuiet(g) \/ CleanupResolvedGroups(g)
      PROVE  Apart'
  <2>1. workers' = workers /\ \A h \in Groups : rows'[h].dirty => rows[h].dirty
    BY <1>2, <1>4 DEF TimerExpires, GoesQuiet, CleanupResolvedGroups, NoRow, Row
  <2> QED BY <1>1, <2>1
<1>5. ASSUME NEW w \in Workers, NEW b \in SUBSET Alerts, BeginBucket(w, b) PROVE Apart'
  <2> DEFINE k == workers[w]
             n == Takes(k, b)
  <2>1. k \in Worker /\ k.group \in Groups /\ Becomes(w, n) /\ rows' = rows /\ b \in k.todo
    BY <1>0, <1>5, HasFacts DEF BeginBucket, Takes
  <2>2. n \in Worker
    BY <1>0, <2>1, TakesType
  <2>3. n.queue = k.queue /\ n.group = k.group
    <3> HIDE DEF k
    <3> QED BY <2>1, TakesFields
  <2> HIDE DEF n, k
  <2> QED BY <2>1, <2>2, <2>3, FlushKeepsApart DEF k
<1>6. ASSUME NEW w \in Workers, FinishBucket(w) PROVE Apart'
  <2> DEFINE k == workers[w]
             n == Finishes(k)
  <2>1. Becomes(w, n) /\ rows' = rows /\ k.bucket # {}
    BY <1>6 DEF FinishBucket, Finishes, Snap
  <2>2. k \in Worker /\ k.group \in Groups
    BY <1>0, <2>1, Sending
  <2>3. n \in Worker /\ n.queue = k.queue /\ n.group = k.group
    BY <2>2, FinishesType, FinishesFields
  <2> HIDE DEF n, k
  <2> QED BY <2>1, <2>3, FlushKeepsApart DEF k
<1>7. ASSUME NEW w \in Workers, Crash(w) PROVE Apart'
  <2>1. Becomes(w, IdleWorker) /\ rows' = rows
    BY <1>7 DEF Crash
  <2>2. IdleWorker.queue = {} /\ IdleWorker.group = NoGroup
    BY DEF IdleWorker
  <2>3. \A g \in Groups : ~Has(IdleWorker, g)
    BY <1>0, <2>2 DEF Has, GroupsAssumption
  <2> QED BY <2>1, <2>2, <2>3, IdleType, LocalKeepsApart
<1>8. ASSUME UNCHANGED vars PROVE Apart'
  BY <1>1, <1>8 DEF vars
<1>9. ASSUME NEW w \in Workers, NEW c \in SUBSET Groups, ClaimDueGroups(w, c) PROVE Apart'
  BY <1>0, <1>9, ClaimKeepsApart
<1>10. ASSUME NEW w \in Workers, NEW g \in Groups, BeginGroup(w, g) PROVE Apart'
  BY <1>0, <1>10, BeginKeepsApart
<1>11. ASSUME NEW w \in Workers, NEW o \in Outcomes, UpdateMessage(w, o) \/ PostMessage(w, o)
       PROVE  Apart'
  BY <1>0, <1>11, SendingKeepsApart
<1>12. ASSUME NEW w \in Workers, Save(w) \/ SaveFails(w) PROVE Apart'
  BY <1>0, <1>12, SaveKeepsApart
<1> QED BY <1>3, <1>4, <1>5, <1>6, <1>7, <1>8, <1>9, <1>10, <1>11, <1>12 DEF Next
-----------------------------------------------------------------------------
(* Two instances are at one group only if an event for it arrived while    *)
(* one of them was flushing it: SKIP LOCKED and the dirty flag keep them   *)
(* apart otherwise (crashes or not).                                       *)
THEOREM EventsWaitKeepsApart == Spec /\ EventsWait => []OneHolder
<1> DEFINE Waits == \A g \in Groups, a \in Alerts, s \in Reported :
                      UpsertGroupMember(g, a, s) => ~Held(g)
<1>1. Init => Apart
  <2> SUFFICES ASSUME Init PROVE Apart
    OBVIOUS
  <2>1. OneHolder
    BY HolderInit, GroupsAssumption
  <2>2. \A w \in Workers : workers[w].queue = {} /\ workers[w].group = NoGroup
    BY DEF Init, IdleWorker
  <2>3. \A g \in Groups : ~rows[g].dirty
    BY DEF Init, NoRow
  <2> QED BY <2>1, <2>2, <2>3 DEF Apart, HeldIsClean
<1>2. IInv /\ Apart /\ [Next]_vars /\ [Waits]_vars => Apart'
  <2> SUFFICES ASSUME IInv, Apart, [Next]_vars, [Waits]_vars PROVE Apart'
    OBVIOUS
  <2>1. CASE Waits
    BY <2>1, ApartNext
  <2>2. CASE UNCHANGED vars
    <3>1. UNCHANGED <<rows, workers>>
      BY <2>2 DEF vars
    <3> QED BY <3>1 DEF Apart, OneHolder, HeldIsClean, Held, Holds
  <2> QED BY <2>1, <2>2
<1>3. Apart => OneHolder
  BY DEF Apart
<1>4. EventsWait => [][Waits]_vars
  BY DEF EventsWait
<1> HIDE DEF Waits
<1> QED BY <1>1, <1>2, <1>3, <1>4, Invariance, PTL DEF Spec

(* ... so while all instances stay up nothing is disturbed.                *)
COROLLARY EventsWaitUndisturbed ==
  Spec /\ EventsWait /\ [](crashes = 0) => []Undisturbed
<1>1. OneHolder /\ crashes = 0 => Undisturbed
  BY DEF Undisturbed
<1> QED BY <1>1, EventsWaitKeepsApart, PTL

(* One instance that stays up is never disturbed.                          *)
THEOREM AloneUndisturbed ==
  ASSUME NEW w, Alone(w) PROVE Spec => []Undisturbed
<1> DEFINE NoCrash == crashes = 0
<1>1. Workers = {w} /\ MaxCrashes = 0
  BY DEF Alone
<1>2. Init => NoCrash
  BY DEF Init
<1>3. NoCrash /\ [Next]_vars => NoCrash'
  <2> SUFFICES ASSUME crashes = 0, [Next]_vars PROVE crashes' = 0
    OBVIOUS
  <2>1. ASSUME NEW v \in Workers, SaveFails(v) \/ Crash(v) PROVE FALSE
    <3>1. 0 < 0
      BY <1>1, <2>1 DEF SaveFails, Crash
    <3> QED BY <3>1
  <2>2. UNCHANGED vars => crashes' = crashes
    BY DEF vars
  <2> QED BY <2>1, <2>2 DEF Next, UpsertGroupMember, TimerExpires, GoesQuiet,
        CleanupResolvedGroups, ClaimDueGroups, BeginGroup, BeginBucket, UpdateMessage,
        PostMessage, FinishBucket, Save, SaveGroupProgress, SaveGroupProgressFailed
<1>4. NoCrash => Undisturbed
  BY <1>1 DEF Undisturbed, OneHolder
<1> HIDE DEF NoCrash
<1> QED BY <1>2, <1>3, <1>4, PTL DEF Spec

(* So one instance that stays up leaves nothing unsent,                    *)
COROLLARY SettledRowIsNotifiedAlone ==
  ASSUME NEW w, Alone(w) PROVE Spec => []SettledRowIsNotified
BY AloneUndisturbed, UndisturbedRowIsNotified, PTL

(* its messages show the statuses of the alerts,                           *)
COROLLARY SettledRowIsShownAlone ==
  ASSUME NEW w, Alone(w) PROVE Spec => []SettledRowIsShown
BY AloneUndisturbed, UndisturbedRowIsShown, PTL

(* those that show an alert firing stay on record for it,                  *)
COROLLARY FiringCardIsOnRecordAlone ==
  ASSUME NEW w, Alone(w) PROVE Spec => []FiringCardIsOnRecord
BY AloneUndisturbed, UndisturbedCardIsOnRecord, PTL

(* it posts nothing twice,                                                 *)
COROLLARY NoDoublePostAlone ==
  ASSUME NEW w, Alone(w) PROVE Spec => []NoDoublePost
BY AloneUndisturbed, UndisturbedNoDoublePost, PTL

(* and closes no group before Slack was told.                              *)
COROLLARY ClosedGroupWasToldAlone ==
  ASSUME NEW w, Alone(w) PROVE Spec => ClosedGroupWasTold
BY AloneUndisturbed, UndisturbedGroupWasTold, PTL
=============================================================================
