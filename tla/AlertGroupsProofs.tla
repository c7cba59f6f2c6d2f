------------------------- MODULE AlertGroupsProofs -------------------------
(***************************************************************************)
(* Proofs about AlertGroups for any number of groups, alerts, channels and *)
(* instances, any threshold and any bounds: types, the inductive invariant *)
(* IInv, what follows from it for the targets on record, and that the      *)
(* workspace implements MessageBoard.                                      *)
(***************************************************************************)
EXTENDS AlertGroups, FiniteSetTheorems, TLAPS

USE DEF Absent, Reported, Status

-----------------------------------------------------------------------------
(* The pure part.                                                          *)

(* splitChannels keeps positions of the list, with IDs that are not blank  *)
(* and all different.                                                      *)
LEMMA ChannelsKept ==
  ASSUME GroupsAssumption, NEW g \in Groups
  PROVE  /\ Channels(g) \subseteq Nat \ {0}
         /\ \A n \in Channels(g) : ChannelList[g][n] \in Channel
         /\ \A i, j \in Channels(g) : ChannelList[g][i] = ChannelList[g][j] => i = j
<1>1. ChannelList[g] \in Seq(Channel \cup {Blank})
  BY DEF GroupsAssumption
<1>2. DOMAIN ChannelList[g] = 1..Len(ChannelList[g]) /\ Len(ChannelList[g]) \in Nat
  BY <1>1
<1>3. \A n \in DOMAIN ChannelList[g] : ChannelList[g][n] \in Channel \cup {Blank}
  BY <1>1
<1>4. Channels(g) = {i \in DOMAIN ChannelList[g] :
                       /\ ChannelList[g][i] # Blank
                       /\ \A j \in DOMAIN ChannelList[g] : j < i => ChannelList[g][j] # ChannelList[g][i]}
  BY DEF Channels, SplitChannels
<1> QED BY <1>2, <1>3, <1>4

(* What buildBuckets returns are sets of alerts the group has.             *)
LEMMA BucketsType ==
  ASSUME NEW m PROVE ChangedBuckets(m) \subseteq SUBSET Alerts
BY DEF ChangedBuckets, BuildBuckets, SentBuckets, UnsentBuckets, SentWith, Unsent, Live

LEMMA RenderType ==
  ASSUME NEW m \in Members, NEW b \in SUBSET Alerts
  PROVE  Render(m, b) \in [Alerts -> Status]
BY DEF Render, Members, Member

LEMMA NoMembersType == NoMembers \in Members
BY DEF NoMembers, NoMember, Members, Member

LEMMA NewTargetType ==
  ASSUME GroupsAssumption, NEW ch \in Channel, NEW ts \in Nat \ {0}
  PROVE  NewTarget(ch, ts) \in Target
BY DEF GroupsAssumption, NewTarget, Target

-----------------------------------------------------------------------------
(* Types.                                                                  *)

LEMMA TypeInit == ASSUME Init PROVE TypeOK
<1>1. rows \in [Groups -> Row]
  BY NoMembersType DEF Init, NoRow, Row
<1>2. workers \in [Workers -> Worker]
  BY NoMembersType DEF Init, IdleWorker, Worker
<1> QED BY <1>1, <1>2 DEF Init, TypeOK

LEMMA TypeTable ==
  ASSUME TypeOK, NEW g \in Groups, NEW a \in Alerts, NEW s \in Reported,
         \/ UpsertGroupMember(g, a, s) \/ TimerExpires(g) \/ GoesQuiet(g)
         \/ CleanupResolvedGroups(g)
  PROVE  TypeOK'
<1> USE DEF TypeOK
<1>1. CASE UpsertGroupMember(g, a, s)
  <2>1. [rows[g].members EXCEPT ![a].status = s] \in Members
    <3>1. rows[g].members \in [Alerts -> Member] /\ rows[g].members[a] \in Member
      BY DEF Row, Members
    <3>2. [rows[g].members[a] EXCEPT !.status = s] \in Member
      BY <3>1 DEF Member
    <3> QED BY <3>1, <3>2 DEF Members
  <2>2. rows' \in [Groups -> Row]
    BY <1>1, <2>1 DEF UpsertGroupMember, Row
  <2> QED BY <1>1, <2>2 DEF UpsertGroupMember
<1>2. CASE TimerExpires(g)
  BY <1>2 DEF TimerExpires, Row
<1>3. CASE GoesQuiet(g)
  BY <1>3 DEF GoesQuiet, Row
<1>4. CASE CleanupResolvedGroups(g)
  BY <1>4, NoMembersType DEF CleanupResolvedGroups, NoRow, Row
<1> QED BY <1>1, <1>2, <1>3, <1>4

(* A worker that becomes a well-typed one leaves the others alone.         *)
LEMMA BecomesType ==
  ASSUME workers \in [Workers -> Worker], NEW w \in Workers, NEW k \in Worker, Becomes(w, k)
  PROVE  /\ workers' \in [Workers -> Worker]
         /\ workers'[w] = k
         /\ \A v \in Workers : v # w => workers'[v] = workers[v]
BY DEF Becomes

(* The fields of a worker, and the copy of the group it is at.             *)
LEMMA WorkerFields ==
  ASSUME NEW k \in Worker
  PROVE  /\ k.queue \in SUBSET Groups
         /\ k.snap \in [Groups -> Members]
         /\ k.group \in Groups \cup {NoGroup}
         /\ k.todo \in SUBSET SUBSET Alerts
         /\ k.bucket \in SUBSET Alerts
         /\ k.left \in SUBSET (Nat \ {0})
         /\ k.sent \in SUBSET Target
         /\ k.failed \in BOOLEAN /\ k.sendErr \in BOOLEAN
         /\ k.group # NoGroup => k.group \in Groups /\ k.snap[k.group] \in Members
BY DEF Worker

(* What each step of a worker makes of its state.                          *)
Claims(k, claimed, copy) == [k EXCEPT !.queue = claimed, !.snap = copy]
Begins(k, g) == [k EXCEPT !.queue = k.queue \ {g}, !.group = g, !.sendErr = FALSE,
                          !.todo = ChangedBuckets(k.snap[g])]
Takes(k, b) == [k EXCEPT !.todo = k.todo \ {b}, !.bucket = b, !.sent = {},
                         !.failed = FALSE, !.left = Channels(k.group)]
Sends(k, n, got, o) == [k EXCEPT !.left = k.left \ {n}, !.sent = k.sent \cup got,
                                 !.failed = k.failed \/ o # "ok"]
Finishes(k) == [k EXCEPT
  !.snap = [k.snap EXCEPT ![k.group] = Notify(k.snap[k.group], k.bucket, k.sent, k.failed)],
  !.bucket = {}, !.sent = {}, !.failed = FALSE, !.sendErr = k.sendErr \/ k.failed]
Drops(k) == [k EXCEPT !.snap = [k.snap EXCEPT ![k.group] = NoMembers],
                      !.group = NoGroup, !.sendErr = FALSE]

LEMMA ClaimsType ==
  ASSUME NEW k \in Worker, NEW c \in SUBSET Groups, NEW s \in [Groups -> Members]
  PROVE  Claims(k, c, s) \in Worker
BY DEF Claims, Worker

LEMMA BeginsType ==
  ASSUME NEW k \in Worker, NEW g \in Groups
  PROVE  Begins(k, g) \in Worker
<1> DEFINE changed == ChangedBuckets(k.snap[g])
<1>1. changed \subseteq SUBSET Alerts
  BY BucketsType
<1> HIDE DEF changed
<1>2. [k EXCEPT !.queue = k.queue \ {g}, !.group = g, !.sendErr = FALSE, !.todo = changed]
        \in Worker
  BY <1>1 DEF Worker
<1> QED BY <1>2 DEF Begins, changed

LEMMA TakesType ==
  ASSUME GroupsAssumption, NEW k \in Worker, k.group \in Groups, NEW b \in SUBSET Alerts
  PROVE  Takes(k, b) \in Worker
<1> DEFINE channels == Channels(k.group)
<1>1. channels \subseteq Nat \ {0}
  BY ChannelsKept
<1> HIDE DEF channels
<1>2. [k EXCEPT !.todo = k.todo \ {b}, !.bucket = b, !.sent = {}, !.failed = FALSE,
                !.left = channels] \in Worker
  BY <1>1 DEF Worker
<1> QED BY <1>2 DEF Takes, channels

LEMMA SendsType ==
  ASSUME NEW k \in Worker, NEW n, NEW got \in SUBSET Target, NEW o
  PROVE  Sends(k, n, got, o) \in Worker
BY DEF Sends, Worker

LEMMA NotifyType ==
  ASSUME NEW m \in Members, NEW b, NEW sent \in SUBSET Target, NEW failed
  PROVE  Notify(m, b, sent, failed) \in Members
<1>1. \A a \in Alerts : m[a].status \in Status /\ m[a].notified \in Status /\ m[a] \in Member
  BY DEF Members, Member
<1> QED BY <1>1 DEF Notify, Members, Member

LEMMA FinishesType ==
  ASSUME NEW k \in Worker, k.group \in Groups
  PROVE  Finishes(k) \in Worker
<1> DEFINE m == Notify(k.snap[k.group], k.bucket, k.sent, k.failed)
           s == [k.snap EXCEPT ![k.group] = m]
<1>1. m \in Members
  BY WorkerFields, NotifyType
<1> HIDE DEF m
<1>2. s \in [Groups -> Members]
  BY <1>1, WorkerFields
<1> HIDE DEF s
<1>3. [k EXCEPT !.snap = s, !.bucket = {}, !.sent = {}, !.failed = FALSE,
                !.sendErr = k.sendErr \/ k.failed] \in Worker
  BY <1>2 DEF Worker
<1> QED BY <1>3 DEF Finishes, s, m

LEMMA DropsType ==
  ASSUME NEW k \in Worker, k.group \in Groups
  PROVE  Drops(k) \in Worker
<1> DEFINE s == [k.snap EXCEPT ![k.group] = NoMembers]
<1>1. s \in [Groups -> Members]
  BY WorkerFields, NoMembersType
<1> HIDE DEF s
<1>2. [k EXCEPT !.snap = s, !.group = NoGroup, !.sendErr = FALSE] \in Worker
  BY <1>1 DEF Worker
<1> QED BY <1>2 DEF Drops, s

LEMMA IdleType == IdleWorker \in Worker
BY NoMembersType DEF IdleWorker, Worker

-----------------------------------------------------------------------------
(* Copies of members, buckets and messages.                                *)

(* More messages, none moved and none with other alerts.                   *)
Keeps(old, new) ==
  \A i \in DOMAIN old :
    /\ i \in DOMAIN new
    /\ new[i].group = old[i].group
    /\ new[i].channel = old[i].channel
    /\ new[i].where = old[i].where
    /\ CardAlerts(new[i].shows) = CardAlerts(old[i].shows)

LEMMA KeepsCopy ==
  ASSUME NEW old, NEW new, Keeps(old, new), NEW g, NEW m, CopyOK(old, g, m)
  PROVE  CopyOK(new, g, m)
<1>1. CoversCards(new, g, m)
  BY DEF Keeps, CopyOK, CoversCards, Addresses
<1> QED BY <1>1 DEF CopyOK

LEMMA KeepsSent ==
  ASSUME NEW old, NEW new, Keeps(old, new), NEW k, SentOK(old, k)
  PROVE  SentOK(new, k)
<1> DEFINE done == Channels(k.group) \ k.left
<1>1. \A t \in k.sent : /\ Addresses(old, k.group, t)
                        /\ CardAlerts(old[t.ts].shows) = k.bucket
                        /\ \E n \in done : ChannelList[k.group][n] = t.channel
  BY DEF SentOK
<1>2. \A t \in k.sent : /\ Addresses(new, k.group, t)
                        /\ CardAlerts(new[t.ts].shows) = k.bucket
                        /\ \E n \in done : ChannelList[k.group][n] = t.channel
  BY <1>1 DEF Keeps, Addresses
<1> QED BY <1>2 DEF SentOK

LEMMA KeepsWorker ==
  ASSUME NEW old, NEW new, Keeps(old, new), NEW k, WorkerOK(old, k)
  PROVE  WorkerOK(new, k)
BY KeepsCopy, KeepsSent DEF WorkerOK

(* A group without members.                                                *)
LEMMA NoMembersOK == ASSUME NEW cards, NEW g PROVE CopyOK(cards, g, NoMembers)
BY DEF CopyOK, CoversCards, OneTarget, SameOrDisjoint, InEveryChannel, NoMembers, NoMember

(* An event changes a status and leaves the targets.                       *)
LEMMA UpsertOK ==
  ASSUME NEW cards, NEW g, NEW m \in Members, CopyOK(cards, g, m),
         NEW a \in Alerts, NEW s \in Reported
  PROVE  CopyOK(cards, g, [m EXCEPT ![a].status = s])
<1> DEFINE new == [m EXCEPT ![a].status = s]
<1>1. \A b \in Alerts : /\ new[b].targets = m[b].targets
                        /\ new[b].notified = m[b].notified
                        /\ new[b].status = IF b = a THEN s ELSE m[b].status
  BY DEF Members, Member
<1> HIDE DEF new
<1>2. \A b \in Alerts : new[b].status = Absent => new[b].targets = {}
  BY <1>1 DEF CopyOK
<1>3. CoversCards(cards, g, new)
  BY <1>1 DEF CopyOK, CoversCards, Recording
<1>4. OneTarget(new) /\ SameOrDisjoint(new) /\ InEveryChannel(g, new)
  BY <1>1 DEF CopyOK, OneTarget, SameOrDisjoint, InEveryChannel
<1> QED BY <1>2, <1>3, <1>4 DEF CopyOK, new

(* A message shows the alerts it is rendered for.                          *)
LEMMA RenderShows ==
  ASSUME NEW m, NEW b \in SUBSET Alerts, b \subseteq Live(m)
  PROVE  CardAlerts(Render(m, b)) = b
BY DEF CardAlerts, Render, Live

(* Members with the same (channel, ts) pairs have the same targets, and    *)
(* with them a message that shows just these members.                      *)
LEMMA SentWithTargets ==
  ASSUME NEW cards, NEW g, NEW m, CopyOK(cards, g, m), NEW a \in Alerts, NEW t \in m[a].targets
  PROVE  /\ SentWith(m, a) = Recording(m, t)
         /\ \A b \in SentWith(m, a) : m[b].targets = m[a].targets
<1>1. \A b \in Recording(m, t) : m[b].targets = m[a].targets
  BY DEF Recording, CopyOK, SameOrDisjoint
<1>2. Recording(m, t) \subseteq SentWith(m, a)
  <2> SUFFICES ASSUME NEW b \in Recording(m, t) PROVE b \in SentWith(m, a)
    OBVIOUS
  <2>1. b \in Alerts /\ m[b].targets = m[a].targets /\ t \in m[b].targets
    BY <1>1 DEF Recording
  <2>2. m[b].status # Absent
    BY <2>1 DEF CopyOK
  <2> QED BY <2>1, <2>2 DEF SentWith, Live
<1>3. ASSUME NEW b \in SentWith(m, a) PROVE t \in m[b].targets
  <2>1. b \in Alerts /\ TargetKey(m[b].targets) = TargetKey(m[a].targets)
    BY DEF SentWith, Live
  <2>2. <<t.channel, t.ts>> \in TargetKey(m[b].targets)
    BY <2>1 DEF TargetKey
  <2>3. PICK u \in m[b].targets : u.channel = t.channel /\ u.ts = t.ts
    BY <2>2 DEF TargetKey
  <2>4. Recording(m, u) = Recording(m, t)
    BY <2>1, <2>3 DEF CopyOK, CoversCards
  <2>5. u \in m[a].targets
    BY <2>4 DEF Recording
  <2>6. u = t
    BY <2>3, <2>5 DEF CopyOK, OneTarget
  <2> QED BY <2>3, <2>6
<1>4. SentWith(m, a) \subseteq Recording(m, t)
  BY <1>3 DEF Recording, SentWith, Live
<1> QED BY <1>1, <1>2, <1>4

(* The buckets a flush starts from are those of BucketOK, and disjoint.    *)
LEMMA BucketsOK ==
  ASSUME BucketsAssumption, NEW cards, CardsLegal(cards), NEW g, NEW m, CopyOK(cards, g, m)
  PROVE  /\ \A b \in BuildBuckets(m) : BucketOK(m, b)
         /\ \A b, c \in BuildBuckets(m) : b = c \/ b \cap c = {}
<1>1. ASSUME NEW a \in Live(m) \ Unsent(m)
      PROVE  BucketOK(m, SentWith(m, a))
  <2> DEFINE b == SentWith(m, a)
  <2>1. a \in Alerts /\ m[a].targets # {}
    BY DEF Live, Unsent
  <2>2. PICK t \in m[a].targets : TRUE
    BY <2>1
  <2>3. b = Recording(m, t) /\ \A c \in b : m[c].targets = m[a].targets
    BY <2>1, SentWithTargets
  <2>4. LegalSize(b)
    <3>1. t.ts \in DOMAIN cards /\ CardAlerts(cards[t.ts].shows) = Recording(m, t)
      BY <2>1 DEF CopyOK, CoversCards, Addresses
    <3> QED BY <2>3, <3>1 DEF CardsLegal
  <2>5. a \in b /\ b \subseteq Live(m)
    BY <2>1 DEF SentWith
  <2>6. ASSUME NEW c \in b, NEW d \in Alerts, m[c].targets \cap m[d].targets # {}
        PROVE  d \in b
    <3>1. m[a].targets \cap m[d].targets # {}
      BY <2>3, <2>6
    <3>2. m[d].targets = m[a].targets
      BY <2>1, <3>1 DEF CopyOK, SameOrDisjoint
    <3> QED BY <2>3, <3>2 DEF Recording
  <2> HIDE DEF b
  <2>7. BucketOK(m, b)
    BY <2>3, <2>4, <2>5, <2>6 DEF BucketOK
  <2> QED BY <2>7 DEF b
<1>2. ASSUME NEW b \in UnsentBuckets(m)
      PROVE  BucketOK(m, b)
  <2>1. b \subseteq Unsent(m) /\ b # {}
    BY DEF UnsentBuckets
  <2>2. LegalSize(b)
    <3>1. CASE b = Unsent(m) /\ Cardinality(b) > Threshold
      BY <3>1 DEF LegalSize
    <3>2. CASE \E a \in Unsent(m) : b = {a}
      BY <3>2, FS_Singleton DEF LegalSize
    <3> QED BY <3>1, <3>2 DEF UnsentBuckets
  <2> QED BY <2>1, <2>2 DEF BucketOK, Unsent
<1>3. ASSUME NEW a \in Live(m) \ Unsent(m), NEW c \in Live(m) \ Unsent(m),
             SentWith(m, a) \cap SentWith(m, c) # {}
      PROVE  SentWith(m, a) = SentWith(m, c)
  <2>1. TargetKey(m[a].targets) = TargetKey(m[c].targets)
    BY <1>3 DEF SentWith
  <2> QED BY <2>1 DEF SentWith
<1>4. \A a \in Alerts : SentWith(m, a) \cap Unsent(m) = {}
  BY DEF SentWith, Unsent
<1>5. \A b, c \in UnsentBuckets(m) : b = c \/ b \cap c = {}
  BY DEF UnsentBuckets
<1>6. \A b \in UnsentBuckets(m) : b \subseteq Unsent(m)
  BY DEF UnsentBuckets
<1>7. \A b \in SentBuckets(m) : \E a \in Live(m) \ Unsent(m) : b = SentWith(m, a)
  BY DEF SentBuckets
<1>8. \A b \in SentBuckets(m), c \in UnsentBuckets(m) : b \cap c = {}
  BY <1>4, <1>6, <1>7 DEF Live
<1> QED BY <1>1, <1>2, <1>3, <1>5, <1>7, <1>8 DEF BuildBuckets

(* An existing target of a bucket leads to a message of just its alerts.   *)
LEMMA BucketTarget ==
  ASSUME NEW cards, NEW g, NEW m, CopyOK(cards, g, m), NEW b, BucketOK(m, b),
         NEW t \in TargetsOf(m, b)
  PROVE  Addresses(cards, g, t) /\ CardAlerts(cards[t.ts].shows) = b
<1>1. PICK a \in b : t \in m[a].targets
  BY DEF TargetsOf
<1>2. b \subseteq Alerts
  BY DEF BucketOK, Live
<1>3. Recording(m, t) = b
  BY <1>1, <1>2 DEF Recording, BucketOK
<1> QED BY <1>1, <1>2, <1>3 DEF CopyOK, CoversCards

(* Two targets of a bucket are for different channels.                     *)
LEMMA BucketOneTarget ==
  ASSUME NEW cards, NEW g, NEW m, CopyOK(cards, g, m), NEW b, BucketOK(m, b)
  PROVE  \A t, u \in TargetsOf(m, b) : t.channel = u.channel => t = u
BY DEF TargetsOf, BucketOK, CopyOK, OneTarget, Live

(* When a bucket is finished its members record the messages sent for it,  *)
(* and nothing changes for the members outside.                            *)
LEMMA NotifyOK ==
  ASSUME NEW cards, NEW k, k.group \in Groups, k.left = {},
         NEW m, m = k.snap[k.group],
         CopyOK(cards, k.group, m), BucketOK(m, k.bucket), SentOK(cards, k)
  PROVE  CopyOK(cards, k.group, Notify(m, k.bucket, k.sent, k.failed))
<1> DEFINE b == k.bucket
           n == Notify(m, b, k.sent, k.failed)
<1>1. \A a \in Alerts : /\ n[a].status = m[a].status
                        /\ n[a].targets = IF a \in b THEN k.sent ELSE m[a].targets
                        /\ n[a].notified = IF a \in b /\ ~k.failed THEN m[a].status
                                                                   ELSE m[a].notified
  BY DEF Notify
<1>2. b \subseteq Live(m) /\ b \subseteq Alerts
  BY DEF BucketOK, Live
<1>3. \A t \in k.sent : Addresses(cards, k.group, t) /\ CardAlerts(cards[t.ts].shows) = b
  BY DEF SentOK
<1>4. \A a \in Alerts \ b : m[a].targets \cap k.sent = {}
  <2> SUFFICES ASSUME NEW a \in Alerts \ b, NEW t \in m[a].targets, t \in k.sent PROVE FALSE
    OBVIOUS
  <2>1. CardAlerts(cards[t.ts].shows) = Recording(m, t)
    BY DEF CopyOK, CoversCards
  <2> QED BY <1>3, <2>1 DEF Recording
<1>5. \A a \in Alerts \ b, c \in b : m[a].targets \cap m[c].targets = {}
  BY DEF BucketOK
<1> HIDE DEF n
<1>6. \A a \in Alerts : n[a].status = Absent => n[a].targets = {}
  BY <1>1, <1>2 DEF CopyOK, Live
<1>7. CoversCards(cards, k.group, n)
  <2> SUFFICES ASSUME NEW a \in Alerts, NEW t \in n[a].targets
               PROVE  /\ Addresses(cards, k.group, t)
                      /\ CardAlerts(cards[t.ts].shows) = Recording(n, t)
    BY DEF CoversCards
  <2>1. CASE a \in b
    <3>1. t \in k.sent
      BY <1>1, <2>1
    <3>2. Recording(n, t) = b
      BY <1>1, <1>2, <1>4, <3>1 DEF Recording
    <3> QED BY <1>3, <3>1, <3>2
  <2>2. CASE a \notin b
    <3>1. t \in m[a].targets /\ t \notin k.sent
      BY <1>1, <1>4, <2>2
    <3>2. \A c \in b : t \notin m[c].targets
      BY <1>5, <2>2, <3>1
    <3>3. Recording(n, t) = Recording(m, t)
      BY <1>1, <3>1, <3>2 DEF Recording
    <3> QED BY <3>1, <3>3 DEF CopyOK, CoversCards
  <2> QED BY <2>1, <2>2
<1>8. OneTarget(n)
  <2>1. \A t, u \in k.sent : t.channel = u.channel => t = u
    BY DEF SentOK
  <2> QED BY <1>1, <2>1 DEF OneTarget, CopyOK
<1>9. SameOrDisjoint(n)
  BY <1>1, <1>4 DEF SameOrDisjoint, CopyOK
<1>10. InEveryChannel(k.group, n)
  <2> SUFFICES ASSUME NEW a \in Alerts, n[a].notified # Absent, NEW i \in Channels(k.group)
               PROVE  \E t \in n[a].targets : t.channel = ChannelList[k.group][i]
    BY DEF InEveryChannel
  <2>1. CASE a \notin b
    BY <1>1, <2>1 DEF InEveryChannel, CopyOK
  <2>2. CASE a \in b /\ ~k.failed
    BY <1>1, <2>2 DEF SentOK
  <2>3. CASE a \in b /\ k.failed
    <3>1. m[a].notified # Absent
      BY <1>1, <2>3
    <3>2. \E t \in m[a].targets : t.channel = ChannelList[k.group][i]
      BY <3>1 DEF CopyOK, InEveryChannel
    <3>3. \E t \in TargetsOf(m, b) : t.channel = ChannelList[k.group][i]
      BY <2>3, <3>2 DEF TargetsOf
    <3> QED BY <1>1, <2>3, <3>3 DEF SentOK
  <2> QED BY <2>1, <2>2, <2>3
<1> QED BY <1>6, <1>7, <1>8, <1>9, <1>10 DEF CopyOK, n

-----------------------------------------------------------------------------
(* The steps of a worker keep WorkerOK.                                    *)

LEMMA ClaimsOK ==
  ASSUME NEW cards, NEW k \in Worker, WorkerOK(cards, k), k.group = NoGroup,
         NEW c \in SUBSET Groups, NEW s \in [Groups -> Members],
         \A g \in Groups : CopyOK(cards, g, s[g])
  PROVE  WorkerOK(cards, Claims(k, c, s))
<1> DEFINE n == Claims(k, c, s)
<1>1. n.snap = s /\ n.group = NoGroup /\ n.bucket = k.bucket /\ n.todo = k.todo
  BY DEF Claims, Worker
<1>2. k.bucket = {} /\ k.todo = {}
  BY DEF WorkerOK
<1> HIDE DEF n
<1>3. WorkerOK(cards, n)
  BY <1>1, <1>2 DEF WorkerOK
<1> QED BY <1>3 DEF n

LEMMA BeginsOK ==
  ASSUME BucketsAssumption, GroupsAssumption, NEW cards, CardsLegal(cards),
         NEW k \in Worker, WorkerOK(cards, k), k.group = NoGroup, NEW g \in Groups
  PROVE  WorkerOK(cards, Begins(k, g))
<1> DEFINE n == Begins(k, g)
<1>1. n.snap = k.snap /\ n.group = g /\ n.bucket = k.bucket /\ n.todo = ChangedBuckets(k.snap[g])
  BY DEF Begins, Worker
<1>2. k.bucket = {} /\ \A h \in Groups : CopyOK(cards, h, k.snap[h])
  BY DEF WorkerOK
<1>3. /\ \A b \in ChangedBuckets(k.snap[g]) : BucketOK(k.snap[g], b)
      /\ \A b, c \in ChangedBuckets(k.snap[g]) : b = c \/ b \cap c = {}
  <2>1. CopyOK(cards, g, k.snap[g])
    BY <1>2
  <2> QED BY <2>1, BucketsOK DEF ChangedBuckets
<1>4. g # NoGroup
  BY DEF GroupsAssumption
<1> HIDE DEF n
<1>5. WorkerOK(cards, n)
  BY <1>1, <1>2, <1>3, <1>4 DEF WorkerOK
<1> QED BY <1>5 DEF n

LEMMA TakesOK ==
  ASSUME NEW cards, NEW k \in Worker, WorkerOK(cards, k),
         k.group # NoGroup, k.bucket = {}, NEW b \in k.todo
  PROVE  WorkerOK(cards, Takes(k, b))
<1> DEFINE n == Takes(k, b)
<1>1. /\ n.snap = k.snap /\ n.group = k.group /\ n.bucket = b /\ n.todo = k.todo \ {b}
      /\ n.left = Channels(k.group) /\ n.sent = {}
  BY DEF Takes, Worker
<1> HIDE DEF n
<1>2. SentOK(cards, n)
  BY <1>1 DEF SentOK
<1>3. \A c \in n.todo : BucketOK(n.snap[n.group], c) /\ c \cap n.bucket = {}
  BY <1>1 DEF WorkerOK
<1>4. WorkerOK(cards, n)
  BY <1>1, <1>2, <1>3 DEF WorkerOK
<1> QED BY <1>4 DEF n

(* One more channel is done, with the target got or with an error.         *)
LEMMA SendsOK ==
  ASSUME GroupsAssumption, NEW cards, NEW k \in Worker, WorkerOK(cards, k),
         k.bucket # {}, k.group \in Groups, NEW i \in k.left, NEW o, NEW got \in SUBSET Target,
         \A t \in got : /\ Addresses(cards, k.group, t)
                        /\ CardAlerts(cards[t.ts].shows) = k.bucket
                        /\ t.channel = ChannelList[k.group][i],
         \A t, u \in got : t = u,
         \/ got # {}
         \/ /\ o # "ok"
            /\ \A t \in TargetsOf(k.snap[k.group], k.bucket) : t.channel # ChannelList[k.group][i]
  PROVE  WorkerOK(cards, Sends(k, i, got, o))
<1> DEFINE n == Sends(k, i, got, o)
           g == k.group
           done == Channels(g) \ k.left
<1>1. /\ n.snap = k.snap /\ n.group = g /\ n.bucket = k.bucket /\ n.todo = k.todo
      /\ n.left = k.left \ {i} /\ n.sent = k.sent \cup got
      /\ n.failed <=> k.failed \/ o # "ok"
  BY DEF Sends, Worker
<1> HIDE DEF n
<1>2. SentOK(cards, k) /\ BucketOK(k.snap[g], k.bucket)
  BY DEF WorkerOK
<1>3. i \in Channels(g) /\ k.left \subseteq Channels(g)
  BY <1>2 DEF SentOK
<1>4. Channels(g) \ n.left = done \cup {i}
  BY <1>1, <1>3
<1>5. \A t \in k.sent : /\ Addresses(cards, g, t)
                        /\ CardAlerts(cards[t.ts].shows) = k.bucket
                        /\ \E j \in done : ChannelList[g][j] = t.channel
  BY <1>2 DEF SentOK
<1>6. \A t \in n.sent : /\ Addresses(cards, g, t)
                        /\ CardAlerts(cards[t.ts].shows) = k.bucket
                        /\ \E j \in done \cup {i} : ChannelList[g][j] = t.channel
  BY <1>1, <1>5
<1>7. \A t, u \in n.sent : t.channel = u.channel => t = u
  <2>1. \A j \in done : ChannelList[g][j] # ChannelList[g][i]
    BY <1>3, ChannelsKept
  <2>2. \A t \in k.sent, u \in got : t.channel # u.channel
    BY <1>5, <2>1
  <2>3. \A t, u \in k.sent : t.channel = u.channel => t = u
    BY <1>2 DEF SentOK
  <2> QED BY <1>1, <2>2, <2>3
<1>8. \A j \in done \cup {i} :
        \/ \E t \in n.sent : t.channel = ChannelList[g][j]
        \/ n.failed /\ \A t \in TargetsOf(k.snap[g], k.bucket) : t.channel # ChannelList[g][j]
  <2>1. \A j \in done :
        \/ \E t \in k.sent : t.channel = ChannelList[g][j]
        \/ k.failed /\ \A t \in TargetsOf(k.snap[g], k.bucket) : t.channel # ChannelList[g][j]
    BY <1>2 DEF SentOK
  <2> QED BY <1>1, <2>1
<1>9. SentOK(cards, n)
  BY <1>1, <1>3, <1>4, <1>6, <1>7, <1>8 DEF SentOK
<1>10. WorkerOK(cards, n)
  BY <1>1, <1>9 DEF WorkerOK
<1> QED BY <1>10 DEF n

LEMMA FinishesOK ==
  ASSUME NEW cards, NEW k \in Worker, WorkerOK(cards, k),
         k.group \in Groups, k.bucket # {}, k.left = {}
  PROVE  WorkerOK(cards, Finishes(k))
<1> DEFINE n == Finishes(k)
           g == k.group
           m == k.snap[g]
           new == Notify(m, k.bucket, k.sent, k.failed)
<1>1. /\ n.snap = [k.snap EXCEPT ![g] = new] /\ n.group = g /\ n.bucket = {}
      /\ n.todo = k.todo
  BY DEF Finishes, Worker
<1>2. n.snap[g] = new /\ \A h \in Groups : h # g => n.snap[h] = k.snap[h]
  BY <1>1, WorkerFields
<1>3. CopyOK(cards, g, m) /\ BucketOK(m, k.bucket) /\ SentOK(cards, k)
  BY DEF WorkerOK
<1>4. CopyOK(cards, g, new)
  BY <1>3, NotifyOK
<1>5. \A h \in Groups : CopyOK(cards, h, n.snap[h])
  BY <1>2, <1>4 DEF WorkerOK
<1>6. ASSUME NEW b \in k.todo PROVE BucketOK(new, b)
  <2>1. BucketOK(m, b) /\ b \cap k.bucket = {}
    BY DEF WorkerOK
  <2>2. \A a \in b : a \in Alerts /\ new[a] = m[a]
    BY <2>1 DEF BucketOK, Live, Notify
  <2>3. b \subseteq Live(new)
    BY <2>1, <2>2 DEF BucketOK, Live
  <2>4. ASSUME NEW a \in b, NEW c \in Alerts, new[a].targets \cap new[c].targets # {}
        PROVE  c \in b
    <3>1. CASE c \notin k.bucket
      <4>1. new[c] = m[c]
        BY <3>1 DEF Notify
      <4> QED BY <2>1, <2>2, <2>4, <4>1 DEF BucketOK
    <3>2. CASE c \in k.bucket
      <4>1. new[c].targets = k.sent
        BY <3>2 DEF Notify
      <4>2. PICK t \in m[a].targets : t \in k.sent
        BY <2>2, <2>4, <4>1
      <4>3. CardAlerts(cards[t.ts].shows) = k.bucket
        BY <1>3, <4>2 DEF SentOK
      <4>4. CardAlerts(cards[t.ts].shows) = Recording(m, t) /\ a \in Recording(m, t)
        BY <1>3, <2>2, <4>2 DEF CopyOK, CoversCards, Recording
      <4> QED BY <2>1, <4>3, <4>4
    <3> QED BY <3>1, <3>2
  <2> QED BY <2>1, <2>2, <2>3, <2>4 DEF BucketOK
<1> HIDE DEF n, new
<1>7. WorkerOK(cards, n)
  BY <1>1, <1>2, <1>5, <1>6 DEF WorkerOK
<1> QED BY <1>7 DEF n

LEMMA DropsOK ==
  ASSUME NEW cards, NEW k \in Worker, WorkerOK(cards, k),
         k.group \in Groups, k.bucket = {}, k.todo = {}
  PROVE  WorkerOK(cards, Drops(k))
<1> DEFINE n == Drops(k)
<1>1. /\ n.snap = [k.snap EXCEPT ![k.group] = NoMembers] /\ n.group = NoGroup
      /\ n.bucket = {} /\ n.todo = {}
  BY DEF Drops, Worker
<1>2. \A h \in Groups : n.snap[h] = IF h = k.group THEN NoMembers ELSE k.snap[h]
  BY <1>1, WorkerFields
<1>3. \A h \in Groups : CopyOK(cards, h, n.snap[h])
  BY <1>2, NoMembersOK DEF WorkerOK
<1> HIDE DEF n
<1>4. WorkerOK(cards, n)
  BY <1>1, <1>3 DEF WorkerOK
<1> QED BY <1>4 DEF n

LEMMA IdleOK == ASSUME NEW cards PROVE WorkerOK(cards, IdleWorker)
<1>1. /\ \A g \in Groups : IdleWorker.snap[g] = NoMembers
      /\ IdleWorker.group = NoGroup /\ IdleWorker.todo = {} /\ IdleWorker.bucket = {}
  BY DEF IdleWorker
<1>2. \A g \in Groups : CopyOK(cards, g, IdleWorker.snap[g])
  BY <1>1, NoMembersOK
<1> QED BY <1>1, <1>2 DEF WorkerOK

-----------------------------------------------------------------------------
(* The invariant.                                                          *)

LEMMA InvInit == ASSUME Init PROVE IInv
<1>1. \A g \in Groups : CopyOK(slack, g, rows[g].members)
  BY NoMembersOK DEF Init, NoRow
<1>2. \A w \in Workers : WorkerOK(slack, workers[w])
  BY IdleOK DEF Init
<1>3. CardsLegal(slack)
  BY DEF Init, CardsLegal
<1> QED BY TypeInit, <1>1, <1>2, <1>3 DEF IInv

(* A step of the table alone, that leaves sound rows.                      *)
LEMMA InvTable ==
  ASSUME IInv, NEW g \in Groups, NEW a \in Alerts, NEW s \in Reported,
         \/ UpsertGroupMember(g, a, s) \/ TimerExpires(g) \/ GoesQuiet(g)
         \/ CleanupResolvedGroups(g)
  PROVE  IInv'
<1>1. TypeOK'
  BY TypeTable DEF IInv
<1>2. slack' = slack /\ workers' = workers
  BY DEF UpsertGroupMember, TimerExpires, GoesQuiet, CleanupResolvedGroups
<1>3. \A h \in Groups : CopyOK(slack, h, rows'[h].members)
  <2> SUFFICES ASSUME NEW h \in Groups PROVE CopyOK(slack, h, rows'[h].members)
    OBVIOUS
  <2>0. rows \in [Groups -> Row] /\ rows[h] \in Row /\ rows[h].members \in Members
        /\ CopyOK(slack, h, rows[h].members)
    BY DEF IInv, TypeOK, Row
  <2>1. CASE UpsertGroupMember(g, a, s)
    <3>1. rows'[h].members = IF h = g THEN [rows[h].members EXCEPT ![a].status = s]
                                      ELSE rows[h].members
      BY <2>0, <2>1 DEF UpsertGroupMember
    <3> DEFINE m == rows[h].members
    <3>2. CopyOK(slack, h, m) /\ m \in Members
      BY <2>0
    <3> HIDE DEF m
    <3>3. CopyOK(slack, h, [m EXCEPT ![a].status = s])
      BY <3>2, UpsertOK
    <3> QED BY <2>0, <3>1, <3>3 DEF m
  <2>2. CASE TimerExpires(g) \/ GoesQuiet(g)
    <3>1. rows'[h].members = rows[h].members
      BY <2>0, <2>2 DEF TimerExpires, GoesQuiet, Row
    <3> QED BY <2>0, <3>1
  <2>3. CASE CleanupResolvedGroups(g)
    <3>1. rows'[h].members = IF h = g THEN NoMembers ELSE rows[h].members
      BY <2>0, <2>3 DEF CleanupResolvedGroups, NoRow
    <3> QED BY <2>0, <3>1, NoMembersOK
  <2> QED BY <2>1, <2>2, <2>3
<1> QED BY <1>1, <1>2, <1>3 DEF IInv

(* A step of one worker.                                                   *)
LEMMA InvWorker ==
  ASSUME IInv, NEW w \in Workers, NEW k \in Worker, Becomes(w, k),
         slack' \in Seq(Card), Keeps(slack, slack'), CardsLegal(slack'),
         WorkerOK(slack', k),
         rows' \in [Groups -> Row], \A g \in Groups : CopyOK(slack, g, rows'[g].members),
         events' \in Nat, faults' \in Nat, crashes' \in Nat
  PROVE  IInv'
<1>1. workers' \in [Workers -> Worker] /\ workers'[w] = k
      /\ \A v \in Workers : v # w => workers'[v] = workers[v]
  BY BecomesType DEF IInv, TypeOK
<1>2. \A v \in Workers : WorkerOK(slack', workers'[v])
  BY <1>1, KeepsWorker DEF IInv
<1>3. \A g \in Groups : CopyOK(slack', g, rows'[g].members)
  BY KeepsCopy
<1> QED BY <1>1, <1>2, <1>3 DEF IInv, TypeOK

(* A step of one worker that calls nobody.                                 *)
LEMMA InvLocal ==
  ASSUME IInv, NEW w \in Workers, NEW k \in Worker, Becomes(w, k), WorkerOK(slack, k),
         UNCHANGED <<rows, slack, events, faults, crashes>>
  PROVE  IInv'
<1>1. Keeps(slack, slack')
  BY DEF Keeps
<1>2. rows' \in [Groups -> Row] /\ \A g \in Groups : CopyOK(slack, g, rows'[g].members)
  BY DEF IInv, TypeOK
<1>3. slack' \in Seq(Card) /\ CardsLegal(slack') /\ WorkerOK(slack', k)
      /\ events' \in Nat /\ faults' \in Nat /\ crashes' \in Nat
  BY DEF IInv, TypeOK
<1> QED BY <1>1, <1>2, <1>3, InvWorker

LEMMA InvClaim ==
  ASSUME IInv, NEW w \in Workers, NEW c \in SUBSET Groups, ClaimDueGroups(w, c)
  PROVE  IInv'
<1> DEFINE copy == [g \in Groups |-> IF g \in c THEN rows[g].members ELSE NoMembers]
           k == workers[w]
<1>0. TypeOK /\ k \in Worker /\ WorkerOK(slack, k) /\ k.group = NoGroup
  BY DEF IInv, TypeOK, ClaimDueGroups, Idle
<1>1. copy \in [Groups -> Members] /\ \A g \in Groups : CopyOK(slack, g, copy[g])
  BY NoMembersType, NoMembersOK DEF IInv, TypeOK, Row
<1>2. Becomes(w, Claims(k, c, copy))
  BY DEF ClaimDueGroups, Claims
<1>3. \A g \in Groups : rows'[g] \in Row /\ rows'[g].members = rows[g].members
  BY DEF ClaimDueGroups, IInv, TypeOK, Row
<1>4. rows' \in [Groups -> Row]
  BY <1>3 DEF ClaimDueGroups
<1>5. slack' = slack /\ events' = events /\ faults' = faults /\ crashes' = crashes
  BY DEF ClaimDueGroups
<1> HIDE DEF copy
<1>6. Claims(k, c, copy) \in Worker /\ WorkerOK(slack', Claims(k, c, copy))
  BY <1>0, <1>1, <1>5, ClaimsType, ClaimsOK
<1>7. Keeps(slack, slack') /\ CardsLegal(slack')
      /\ \A g \in Groups : CopyOK(slack, g, rows'[g].members)
  BY <1>3, <1>5 DEF Keeps, IInv
<1>8. slack' \in Seq(Card) /\ events' \in Nat /\ faults' \in Nat /\ crashes' \in Nat
  BY <1>5 DEF IInv, TypeOK
<1> HIDE DEF k
<1> QED BY <1>2, <1>4, <1>6, <1>7, <1>8, InvWorker

LEMMA InvBegin ==
  ASSUME BucketsAssumption, GroupsAssumption, IInv, NEW w \in Workers,
         \/ \E g \in Groups : BeginGroup(w, g)
         \/ \E b \in SUBSET Alerts : BeginBucket(w, b)
  PROVE  IInv'
<1> DEFINE k == workers[w]
<1>0. k \in Worker /\ WorkerOK(slack, k) /\ CardsLegal(slack)
  BY DEF IInv, TypeOK
<1>1. ASSUME NEW g \in Groups, BeginGroup(w, g) PROVE IInv'
  <2>1. Becomes(w, Begins(k, g)) /\ k.group = NoGroup
        /\ UNCHANGED <<rows, slack, events, faults, crashes>>
    BY <1>1 DEF BeginGroup, Begins
  <2>2. Begins(k, g) \in Worker /\ WorkerOK(slack, Begins(k, g))
    BY <1>0, <2>1, BeginsType, BeginsOK
  <2> QED BY <2>1, <2>2, InvLocal
<1>2. ASSUME NEW b \in SUBSET Alerts, BeginBucket(w, b) PROVE IInv'
  <2>1. /\ Becomes(w, Takes(k, b)) /\ k.group # NoGroup /\ k.bucket = {} /\ b \in k.todo
        /\ UNCHANGED <<rows, slack, events, faults, crashes>>
    BY <1>2 DEF BeginBucket, Takes
  <2>2. k.group \in Groups
    BY <1>0, <2>1, WorkerFields
  <2>3. Takes(k, b) \in Worker /\ WorkerOK(slack, Takes(k, b))
    BY <1>0, <2>1, <2>2, TakesType, TakesOK
  <2> QED BY <2>1, <2>3, InvLocal
<1> QED BY <1>1, <1>2

LEMMA InvFinish ==
  ASSUME IInv, NEW w \in Workers, FinishBucket(w)
  PROVE  IInv'
<1> DEFINE k == workers[w]
<1>1. /\ Becomes(w, Finishes(k)) /\ k.bucket # {} /\ k.left = {}
      /\ UNCHANGED <<rows, slack, events, faults, crashes>>
  BY DEF FinishBucket, Finishes, Snap
<1>2. k \in Worker /\ WorkerOK(slack, k)
  BY DEF IInv, TypeOK
<1>3. k.group \in Groups
  BY <1>1, <1>2, WorkerFields DEF WorkerOK
<1>4. Finishes(k) \in Worker /\ WorkerOK(slack, Finishes(k))
  BY <1>1, <1>2, <1>3, FinishesType, FinishesOK
<1> QED BY <1>1, <1>4, InvLocal

(* An edit replaces what a message of the bucket shows by the bucket.      *)
LEMMA EditKeeps ==
  ASSUME NEW cards \in Seq(Card), CardsLegal(cards), NEW i \in DOMAIN cards,
         NEW b \in SUBSET Alerts, CardAlerts(cards[i].shows) = b,
         NEW m \in Members, b \subseteq Live(m)
  PROVE  LET new == [cards EXCEPT ![i].shows = Render(m, b)]
         IN  /\ new \in Seq(Card) /\ Keeps(cards, new) /\ CardsLegal(new)
             /\ new[i].shows = Render(m, b) /\ new[i] \in Card
<1> DEFINE shows == Render(m, b)
           new == [cards EXCEPT ![i].shows = shows]
<1>1. shows \in [Alerts -> Status] /\ CardAlerts(shows) = b
  BY RenderType, RenderShows
<1> HIDE DEF shows
<1>2. cards[i] \in Card
  OBVIOUS
<1>3. /\ DOMAIN new = DOMAIN cards
      /\ new[i] = [cards[i] EXCEPT !.shows = shows]
      /\ \A j \in DOMAIN cards : j # i => new[j] = cards[j]
  OBVIOUS
<1>4. /\ new[i].shows = shows /\ new[i].group = cards[i].group
      /\ new[i].channel = cards[i].channel /\ new[i].where = cards[i].where
      /\ new[i] \in Card
  BY <1>1, <1>2, <1>3 DEF Card
<1>5. new \in Seq(Card)
  BY <1>3, <1>4
<1> HIDE DEF new
<1>6. Keeps(cards, new) /\ CardsLegal(new)
  BY <1>1, <1>3, <1>4 DEF Keeps, CardsLegal
<1> QED BY <1>4, <1>5, <1>6 DEF new, shows

(* A post adds a message of a legal size.                                  *)
LEMMA PostKeeps ==
  ASSUME NEW cards \in Seq(Card), CardsLegal(cards), NEW new \in Card,
         LegalSize(CardAlerts(new.shows))
  PROVE  /\ Append(cards, new) \in Seq(Card)
         /\ Keeps(cards, Append(cards, new)) /\ CardsLegal(Append(cards, new))
<1> DEFINE more == Append(cards, new)
<1>1. more \in Seq(Card) /\ DOMAIN more = DOMAIN cards \cup {Len(cards) + 1}
  OBVIOUS
<1>2. more[Len(cards) + 1] = new /\ \A i \in DOMAIN cards : more[i] = cards[i]
  OBVIOUS
<1> HIDE DEF more
<1>3. Keeps(cards, more) /\ CardsLegal(more)
  BY <1>1, <1>2 DEF Keeps, CardsLegal
<1> QED BY <1>1, <1>3 DEF more

(* What a worker in the middle of a bucket knows.                          *)
LEMMA Sending ==
  ASSUME GroupsAssumption, IInv, NEW w \in Workers, workers[w].bucket # {}
  PROVE  LET k == workers[w]  m == Snap(w) IN
         /\ k \in Worker /\ WorkerOK(slack, k) /\ k.group \in Groups
         /\ m \in Members /\ m = k.snap[k.group] /\ CopyOK(slack, k.group, m)
         /\ k.bucket \in SUBSET Alerts /\ k.bucket \subseteq Live(m) /\ BucketOK(m, k.bucket)
         /\ SentOK(slack, k)
         /\ \A n \in k.left : ChannelList[k.group][n] \in Channel
<1> DEFINE k == workers[w]
<1>1. k \in Worker /\ WorkerOK(slack, k)
  BY DEF IInv, TypeOK
<1>2. k.group \in Groups /\ k.snap[k.group] \in Members /\ k.bucket \in SUBSET Alerts
  BY <1>1, WorkerFields DEF WorkerOK
<1>3. /\ CopyOK(slack, k.group, k.snap[k.group]) /\ BucketOK(k.snap[k.group], k.bucket)
      /\ SentOK(slack, k)
  BY <1>1, <1>2 DEF WorkerOK
<1>4. \A n \in k.left : ChannelList[k.group][n] \in Channel
  BY <1>2, <1>3, ChannelsKept DEF SentOK
<1> QED BY <1>1, <1>2, <1>3, <1>4 DEF Snap, BucketOK

LEMMA InvUpdate ==
  ASSUME GroupsAssumption, IInv, NEW w \in Workers, NEW o \in Outcomes, UpdateMessage(w, o)
  PROVE  /\ IInv'
         /\ \/ slack' = slack
            \/ \E i \in DOMAIN slack :
                 /\ slack' = [slack EXCEPT ![i].shows = slack'[i].shows]
                 /\ slack'[i] \in Card
                 /\ CardAlerts(slack'[i].shows) = CardAlerts(slack[i].shows)
<1> DEFINE k == workers[w]
           m == Snap(w)
<1>1. PICK n \in k.left :
        /\ AtChannel(w, n)
        /\ \E t \in Existing(w, ChannelList[k.group][n]) :
             /\ o # "refused" => t.ts \in DOMAIN slack
             /\ slack' = IF o = "refused" THEN slack
                         ELSE [slack EXCEPT ![t.ts].shows = Render(m, k.bucket)]
             /\ Becomes(w, Sends(k, n, {t}, o))
  BY DEF UpdateMessage, Sends
<1>2. PICK t \in Existing(w, ChannelList[k.group][n]) :
             /\ o # "refused" => t.ts \in DOMAIN slack
             /\ slack' = IF o = "refused" THEN slack
                         ELSE [slack EXCEPT ![t.ts].shows = Render(m, k.bucket)]
             /\ Becomes(w, Sends(k, n, {t}, o))
  BY <1>1
<1>3. k.bucket # {}
  BY <1>1 DEF AtChannel
<1>4. /\ k \in Worker /\ WorkerOK(slack, k) /\ k.group \in Groups /\ m \in Members
      /\ m = k.snap[k.group] /\ CopyOK(slack, k.group, m) /\ BucketOK(m, k.bucket)
      /\ k.bucket \in SUBSET Alerts /\ k.bucket \subseteq Live(m)
  BY <1>3, Sending
<1>5. t \in TargetsOf(m, k.bucket) /\ t.channel = ChannelList[k.group][n]
  BY <1>2 DEF Existing
<1>6. t \in Target
  BY <1>4, <1>5 DEF TargetsOf, Members, Member
<1>7. Addresses(slack, k.group, t) /\ CardAlerts(slack[t.ts].shows) = k.bucket
  BY <1>4, <1>5, BucketTarget
<1>8. WorkerOK(slack, Sends(k, n, {t}, o)) /\ Sends(k, n, {t}, o) \in Worker
  <2>1. \A u \in {t} : /\ Addresses(slack, k.group, u)
                       /\ CardAlerts(slack[u.ts].shows) = k.bucket
                       /\ u.channel = ChannelList[k.group][n]
    BY <1>5, <1>7
  <2>2. {t} \in SUBSET Target /\ {t} # {} /\ \A u, v \in {t} : u = v
    BY <1>6
  <2> QED BY <1>3, <1>4, <2>1, <2>2, SendsOK, SendsType
<1>9. slack \in Seq(Card) /\ CardsLegal(slack) /\ t.ts \in DOMAIN slack
  BY <1>7 DEF IInv, TypeOK, Addresses
<1>10. /\ slack' \in Seq(Card) /\ Keeps(slack, slack') /\ CardsLegal(slack')
       /\ \/ slack' = slack
          \/ \E i \in DOMAIN slack :
               /\ slack' = [slack EXCEPT ![i].shows = slack'[i].shows]
               /\ slack'[i] \in Card
               /\ CardAlerts(slack'[i].shows) = CardAlerts(slack[i].shows)
  <2>1. CASE o = "refused"
    BY <1>2, <1>9, <2>1 DEF Keeps
  <2>2. CASE o # "refused"
    <3>1. slack' = [slack EXCEPT ![t.ts].shows = Render(m, k.bucket)]
      BY <1>2, <2>2
    <3>2. /\ slack' \in Seq(Card) /\ Keeps(slack, slack') /\ CardsLegal(slack')
          /\ slack'[t.ts].shows = Render(m, k.bucket) /\ slack'[t.ts] \in Card
      BY <1>4, <1>7, <1>9, <3>1, EditKeeps
    <3>3. CardAlerts(slack'[t.ts].shows) = CardAlerts(slack[t.ts].shows)
      BY <1>9, <3>2 DEF Keeps
    <3>4. slack' = [slack EXCEPT ![t.ts].shows = slack'[t.ts].shows]
      BY <3>1, <3>2
    <3> QED BY <1>9, <3>2, <3>3, <3>4
  <2> QED BY <2>1, <2>2
<1>11. WorkerOK(slack', Sends(k, n, {t}, o))
  BY <1>8, <1>10, KeepsWorker
<1>12. /\ rows' \in [Groups -> Row] /\ \A g \in Groups : CopyOK(slack, g, rows'[g].members)
       /\ events' \in Nat /\ faults' \in Nat /\ crashes' \in Nat
  BY DEF UpdateMessage, Charge, IInv, TypeOK
<1> HIDE DEF k, m
<1>13. IInv'
  BY <1>2, <1>8, <1>10, <1>11, <1>12, InvWorker
<1> QED BY <1>10, <1>13

LEMMA InvPost ==
  ASSUME GroupsAssumption, IInv, NEW w \in Workers, NEW o \in Outcomes, PostMessage(w, o)
  PROVE  /\ IInv'
         /\ \/ slack' = slack
            \/ \E new \in Card : LegalSize(CardAlerts(new.shows)) /\ slack' = Append(slack, new)
<1> DEFINE k == workers[w]
           m == Snap(w)
           ts == Len(slack) + 1
<1>1. PICK n \in k.left :
        LET ch == ChannelList[k.group][n]
            new == [group |-> k.group, channel |-> ch, where |-> ApiOf[ch],
                    shows |-> Render(m, k.bucket)]
        IN  /\ AtChannel(w, n) /\ Existing(w, ch) = {}
            /\ slack' = IF o = "refused" THEN slack ELSE Append(slack, new)
            /\ Becomes(w, Sends(k, n, IF o = "ok" THEN {NewTarget(ch, ts)} ELSE {}, o))
  BY DEF PostMessage, Sends
<1> DEFINE ch == ChannelList[k.group][n]
           new == [group |-> k.group, channel |-> ch, where |-> ApiOf[ch],
                   shows |-> Render(m, k.bucket)]
           got == IF o = "ok" THEN {NewTarget(ch, ts)} ELSE {}
<1>2. k.bucket # {}
  BY <1>1 DEF AtChannel
<1>3. /\ k \in Worker /\ WorkerOK(slack, k) /\ k.group \in Groups /\ m \in Members
      /\ m = k.snap[k.group] /\ BucketOK(m, k.bucket) /\ k.bucket \in SUBSET Alerts
      /\ k.bucket \subseteq Live(m) /\ ch \in Channel
  BY <1>2, Sending
<1>4. slack \in Seq(Card) /\ CardsLegal(slack) /\ ts \in Nat \ {0} /\ ApiOf[ch] \in Channel
  BY <1>3 DEF IInv, TypeOK, GroupsAssumption
<1>5. new \in Card /\ CardAlerts(new.shows) = k.bucket
  BY <1>3, <1>4, RenderType, RenderShows DEF Card
<1>6. LegalSize(CardAlerts(new.shows))
  BY <1>3, <1>5 DEF BucketOK
<1>7. \A t \in TargetsOf(m, k.bucket) : t.channel # ch
  BY <1>1 DEF Existing
<1>8. slack' = IF o = "refused" THEN slack ELSE Append(slack, new)
  BY <1>1
<1>9. Becomes(w, Sends(k, n, got, o))
  BY <1>1
<1> HIDE DEF new
<1>10. /\ slack' \in Seq(Card) /\ Keeps(slack, slack') /\ CardsLegal(slack')
  <2>1. CASE o = "refused"
    BY <1>4, <1>8, <2>1 DEF Keeps
  <2>2. CASE o # "refused"
    BY <1>4, <1>5, <1>6, <1>8, <2>2, PostKeeps
  <2> QED BY <2>1, <2>2
<1>11. \A t \in got : /\ Addresses(slack', k.group, t)
                      /\ CardAlerts(slack'[t.ts].shows) = k.bucket
                      /\ t.channel = ch
  <2> SUFFICES ASSUME o = "ok"
               PROVE  LET t == NewTarget(ch, ts) IN
                      /\ Addresses(slack', k.group, t)
                      /\ CardAlerts(slack'[t.ts].shows) = k.bucket
                      /\ t.channel = ch
    OBVIOUS
  <2>1. slack' = Append(slack, new)
    BY <1>8
  <2>2. ts \in DOMAIN slack' /\ slack'[ts] = new
    BY <1>4, <1>5, <2>1
  <2>3. new.group = k.group /\ new.channel = ch /\ new.where = ApiOf[ch]
    BY DEF new
  <2>4. NewTarget(ch, ts).ts = ts /\ NewTarget(ch, ts).channel = ch
    BY DEF NewTarget
  <2>5. ApiChannelOf(NewTarget(ch, ts)) = ApiOf[ch]
    <3>1. ApiOf[ch] # Blank
      BY <1>4, BucketsAssumption DEF BucketsAssumption
    <3> QED BY <3>1 DEF NewTarget, ApiChannelOf
  <2> QED BY <1>5, <2>2, <2>3, <2>4, <2>5 DEF Addresses
<1>12. got \in SUBSET Target /\ \A t, u \in got : t = u
  BY <1>3, <1>4, NewTargetType
<1>13. got # {} \/ (o # "ok" /\ \A t \in TargetsOf(m, k.bucket) : t.channel # ch)
  BY <1>7
<1>14. WorkerOK(slack', k)
  BY <1>3, <1>10, KeepsWorker
<1> HIDE DEF got
<1>15. Sends(k, n, got, o) \in Worker /\ WorkerOK(slack', Sends(k, n, got, o))
  BY <1>2, <1>3, <1>11, <1>12, <1>13, <1>14, SendsType, SendsOK
<1>16. /\ rows' \in [Groups -> Row] /\ \A g \in Groups : CopyOK(slack, g, rows'[g].members)
       /\ events' \in Nat /\ faults' \in Nat /\ crashes' \in Nat
  BY DEF PostMessage, Charge, IInv, TypeOK
<1> HIDE DEF k
<1>17. IInv'
  BY <1>9, <1>10, <1>15, <1>16, InvWorker
<1> QED BY <1>5, <1>6, <1>8, <1>17

LEMMA InvSave ==
  ASSUME IInv, NEW w \in Workers, Save(w) \/ SaveFails(w)
  PROVE  IInv'
<1> DEFINE k == workers[w]
           g == k.group
<1>1. k \in Worker /\ WorkerOK(slack, k) /\ AtSave(w) /\ Becomes(w, Drops(k))
  BY DEF IInv, TypeOK, Save, SaveGroupProgress, SaveGroupProgressFailed, SaveFails, Leaves, Drops
<1>2. g \in Groups /\ k.bucket = {} /\ k.todo = {} /\ Snap(w) \in Members
      /\ CopyOK(slack, g, Snap(w))
  BY <1>1, WorkerFields DEF AtSave, Snap, WorkerOK
<1>3. Drops(k) \in Worker /\ WorkerOK(slack, Drops(k))
  BY <1>1, <1>2, DropsType, DropsOK
<1>4. rows \in [Groups -> Row] /\ \A h \in Groups : CopyOK(slack, h, rows[h].members)
  BY DEF IInv, TypeOK
<1>5. rows' \in [Groups -> Row] /\ \A h \in Groups : CopyOK(slack, h, rows'[h].members)
  <2>1. CASE rows' = rows
    BY <1>4, <2>1
  <2>2. CASE \E d, f \in BOOLEAN : rows' = [rows EXCEPT ![g] =
               [members |-> Snap(w), dirty |-> d, due |-> f, quiet |-> FALSE]]
    <3>1. PICK d \in BOOLEAN, f \in BOOLEAN : rows' = [rows EXCEPT ![g] =
               [members |-> Snap(w), dirty |-> d, due |-> f, quiet |-> FALSE]]
      BY <2>2
    <3>2. [members |-> Snap(w), dirty |-> d, due |-> f, quiet |-> FALSE] \in Row
      BY <1>2 DEF Row
    <3> QED BY <1>2, <1>4, <3>1, <3>2
  <2>3. rows[g].due \in BOOLEAN
    BY <1>2, <1>4 DEF Row
  <2>4. \/ rows' = rows
        \/ \E d, f \in BOOLEAN : rows' = [rows EXCEPT ![g] =
               [members |-> Snap(w), dirty |-> d, due |-> f, quiet |-> FALSE]]
    BY <2>3 DEF Save, SaveGroupProgress, SaveGroupProgressFailed, SaveFails
  <2> QED BY <2>1, <2>2, <2>4
<1>6. /\ slack' = slack /\ events' = events /\ faults' = faults
      /\ crashes' = crashes \/ crashes' = crashes + 1
  BY DEF Save, SaveGroupProgress, SaveGroupProgressFailed, SaveFails
<1>7. /\ slack' \in Seq(Card) /\ Keeps(slack, slack') /\ CardsLegal(slack')
      /\ WorkerOK(slack', Drops(k))
      /\ events' \in Nat /\ faults' \in Nat /\ crashes' \in Nat
  BY <1>3, <1>6 DEF IInv, TypeOK, Keeps
<1> HIDE DEF k, g
<1> QED BY <1>1, <1>3, <1>5, <1>7, InvWorker

LEMMA InvCrash ==
  ASSUME IInv, NEW w \in Workers, Crash(w)
  PROVE  IInv'
<1>1. IdleWorker \in Worker /\ Becomes(w, IdleWorker) /\ WorkerOK(slack, IdleWorker)
  BY IdleType, IdleOK DEF Crash
<1>2. rows' \in [Groups -> Row] /\ \A g \in Groups : CopyOK(slack, g, rows'[g].members)
  BY DEF Crash, IInv, TypeOK
<1>3. /\ slack' = slack /\ slack' \in Seq(Card) /\ Keeps(slack, slack') /\ CardsLegal(slack')
      /\ events' \in Nat /\ faults' \in Nat /\ crashes' \in Nat
  BY DEF Crash, IInv, TypeOK, Keeps
<1> QED BY <1>1, <1>2, <1>3, InvWorker

(* Every step keeps the invariant.                                         *)
LEMMA InvNext == ASSUME IInv, [Next]_vars PROVE IInv'
<1>0. BucketsAssumption /\ GroupsAssumption
  BY BucketsAssumption, GroupsAssumption
<1>1. ASSUME NEW g \in Groups, NEW a \in Alerts, NEW s \in Reported, UpsertGroupMember(g, a, s)
      PROVE  IInv'
  BY <1>1, InvTable
<1>2. ASSUME NEW g \in Groups, TimerExpires(g) \/ GoesQuiet(g) \/ CleanupResolvedGroups(g)
      PROVE  IInv'
  <2>1. CASE Alerts # {}
    <3>1. PICK a \in Alerts : TRUE
      BY <2>1
    <3> QED BY <1>2, <3>1, InvTable
  <2>2. CASE Alerts = {}
    BY <1>2, <2>2 DEF TimerExpires, GoesQuiet, CleanupResolvedGroups, Exists, Live
  <2> QED BY <2>1, <2>2
<1>3. ASSUME NEW w \in Workers, NEW c \in SUBSET Groups, ClaimDueGroups(w, c) PROVE IInv'
  BY <1>3, InvClaim
<1>4. ASSUME NEW w \in Workers, NEW g \in Groups, BeginGroup(w, g) PROVE IInv'
  BY <1>0, <1>4, InvBegin
<1>5. ASSUME NEW w \in Workers, NEW b \in SUBSET Alerts, BeginBucket(w, b) PROVE IInv'
  BY <1>0, <1>5, InvBegin
<1>6. ASSUME NEW w \in Workers, NEW o \in Outcomes, UpdateMessage(w, o) \/ PostMessage(w, o)
      PROVE  IInv'
  BY <1>0, <1>6, InvUpdate, InvPost
<1>7. ASSUME NEW w \in Workers, FinishBucket(w) \/ Save(w) \/ SaveFails(w) \/ Crash(w)
      PROVE  IInv'
  BY <1>7, InvFinish, InvSave, InvCrash
<1>8. CASE UNCHANGED vars
  BY <1>8 DEF vars, IInv, TypeOK
<1> QED BY <1>1, <1>2, <1>3, <1>4, <1>5, <1>6, <1>7, <1>8 DEF Next

-----------------------------------------------------------------------------
(* Theorems.                                                               *)

(* Rows, the workers' copies and the messages always fit together: IInv is *)
(* inductive.                                                              *)
THEOREM Invariance == Spec => []IInv
<1>1. Init => IInv
  BY InvInit
<1>2. IInv /\ [Next]_vars => IInv'
  BY InvNext
<1> QED BY <1>1, <1>2, PTL DEF Spec

(* The variables have their types.                                         *)
THEOREM TypeCorrect == Spec => []TypeOK
<1>1. IInv => TypeOK
  BY DEF IInv
<1> QED BY <1>1, Invariance, PTL

LEMMA CopiesOK ==
  ASSUME IInv, NEW g \in Groups, NEW m \in Copies(g)
  PROVE  CopyOK(slack, g, m)
BY DEF IInv, WorkerOK, Copies

(* Whatever workers write over each other's rows, a target on record leads *)
(* to a message that shows exactly the alerts recording it.                *)
THEOREM TargetsCoverCardsAlways == Spec => []TargetsCoverCards
<1>1. IInv => TargetsCoverCards
  BY CopiesOK DEF TargetsCoverCards, CopyOK
<1> QED BY <1>1, Invariance, PTL

(* No alert ever has two targets for one channel.                          *)
THEOREM OneTargetPerChannelAlways == Spec => []OneTargetPerChannel
<1>1. IInv => OneTargetPerChannel
  BY CopiesOK DEF OneTargetPerChannel, CopyOK
<1> QED BY <1>1, Invariance, PTL

(* A member that was marked caught up has a message in every channel.      *)
THEOREM NotifiedInEveryChannelAlways == Spec => []NotifiedInEveryChannel
<1>1. IInv => NotifiedInEveryChannel
  BY CopiesOK DEF NotifiedInEveryChannel, CopyOK
<1> QED BY <1>1, Invariance, PTL

(* The workspace implements the message board: messages are posted for a   *)
(* legal number of alerts, and edited for the same alerts.                 *)
THEOREM ImplementsBoard == Spec => BoardSpec
<1>1. Init => Board!Init
  BY DEF Init, Board!Init
<1>2. IInv /\ [Next]_vars => [Board!Next]_slack
  <2> SUFFICES ASSUME IInv, Next, slack' # slack PROVE Board!Next
    BY DEF vars
  <2>0. slack \in Seq(Card)
    BY DEF IInv, TypeOK
  <2>1. /\ Board!Card = Card
        /\ \A card : Board!Shown(card) = CardAlerts(card.shows)
        /\ \A b : Board!LegalSize(b) <=> LegalSize(b)
    <3>1. \A b : Board!Cardinality(b) = Cardinality(b)
      BY DEF Board!Cardinality, Cardinality
    <3> QED BY <3>1 DEF Board!Card, Board!Shown, Board!LegalSize, Board!Status, Board!Absent,
                        Board!Reported, Card, CardAlerts, LegalSize
  <2>2. ASSUME NEW w \in Workers, NEW o \in Outcomes, UpdateMessage(w, o) PROVE Board!Edit
    <3>1. PICK i \in DOMAIN slack :
            /\ slack' = [slack EXCEPT ![i].shows = slack'[i].shows]
            /\ slack'[i] \in Card
            /\ CardAlerts(slack'[i].shows) = CardAlerts(slack[i].shows)
      BY <2>2, GroupsAssumption, InvUpdate
    <3> QED BY <2>1, <3>1 DEF Board!Edit
  <2>3. ASSUME NEW w \in Workers, NEW o \in Outcomes, PostMessage(w, o) PROVE Board!Post
    <3>1. PICK new \in Card : LegalSize(CardAlerts(new.shows)) /\ slack' = Append(slack, new)
      BY <2>3, GroupsAssumption, InvPost
    <3>2. Len(slack') = Len(slack) + 1 /\ slack'[Len(slack')] = new
      BY <2>0, <3>1
    <3> QED BY <2>1, <3>1, <3>2 DEF Board!Post
  <2>4. \E w \in Workers, o \in Outcomes : UpdateMessage(w, o) \/ PostMessage(w, o)
    BY DEF Next, UpsertGroupMember, TimerExpires, GoesQuiet, CleanupResolvedGroups,
           ClaimDueGroups, BeginGroup, BeginBucket, FinishBucket, Save, SaveGroupProgress,
           SaveGroupProgressFailed, SaveFails, Crash
  <2> QED BY <2>2, <2>3, <2>4 DEF Board!Next
<1> QED BY <1>1, <1>2, Invariance, PTL DEF Spec, BoardSpec, Board!Spec
=============================================================================
