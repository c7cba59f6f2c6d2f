---------------------------- MODULE BucketsProofs ----------------------------
(***************************************************************************)
(* Proofs about buildBuckets and splitChannels, for any members and any    *)
(* channel list, and about the buckets the system meets: that the targets  *)
(* on record are enough to find out, at every later flush, which alerts a  *)
(* message stands for.                                                     *)
(***************************************************************************)
EXTENDS AlertGroupsProofs, NaturalsInduction

USE DEF Absent, Reported, Status

-----------------------------------------------------------------------------
(* For any arguments.                                                      *)

(* splitChannels: each ID of the list that is not blank is sent to once,   *)
(* at its first place.                                                     *)
THEOREM SplitChannelsKeepsEach ==
  ASSUME NEW raw \in Seq(Channel \cup {Blank}), NEW i \in DOMAIN raw, raw[i] # Blank
  PROVE  \E j \in SplitChannels(raw) :
           /\ raw[j] = raw[i] /\ j <= i
           /\ \A k \in SplitChannels(raw) : raw[k] = raw[i] => k = j
<1> DEFINE same == {j \in DOMAIN raw : raw[j] = raw[i]}
<1>1. DOMAIN raw \subseteq Nat
  OBVIOUS
<1>2. same \subseteq Nat /\ i \in same
  BY <1>1
<1>3. PICK j \in same : \A k \in same : ~(<<k, j>> \in OpToRel(<, Nat))
  <2> HIDE DEF same
  <2> QED BY <1>2, NatLessThanWellFounded, WFMin
<1>4. \A k \in same : j <= k
  <2> HIDE DEF same
  <2> SUFFICES ASSUME NEW k \in same PROVE j <= k
    OBVIOUS
  <2>1. j \in Nat /\ k \in Nat
    BY <1>2
  <2>2. ~(<<k, j>> \in OpToRel(<, Nat))
    BY <1>3
  <2>3. ~(k < j)
    BY <2>1, <2>2 DEF OpToRel
  <2> QED BY <2>1, <2>3
<1>5. j \in SplitChannels(raw)
  BY <1>1, <1>4 DEF SplitChannels
<1>6. ASSUME NEW k \in SplitChannels(raw), raw[k] = raw[i] PROVE k = j
  <2>1. k \in same /\ k \in Nat /\ j \in Nat /\ j \in DOMAIN raw
    BY <1>1, <1>6 DEF SplitChannels
  <2>2. ~(j < k)
    BY <1>6, <2>1 DEF SplitChannels
  <2> QED BY <1>4, <2>1, <2>2
<1> QED BY <1>2, <1>4, <1>5, <1>6

(* buildBuckets: every member of a group is in exactly one bucket, whatever*)
(* the members record, and no bucket is empty.                             *)
THEOREM BuildBucketsDivide ==
  ASSUME NEW m
  PROVE  /\ UNION BuildBuckets(m) = Live(m)
         /\ {} \notin BuildBuckets(m)
         /\ \A b, c \in BuildBuckets(m) : b = c \/ b \cap c = {}
<1>1. /\ \A a \in Live(m) \ Unsent(m) : a \in SentWith(m, a)
      /\ \A a : SentWith(m, a) \subseteq Live(m) \ Unsent(m)
  BY DEF SentWith, Unsent
<1>2. /\ UNION UnsentBuckets(m) = Unsent(m)
      /\ {} \notin UnsentBuckets(m)
      /\ \A b, c \in UnsentBuckets(m) : b = c \/ b \cap c = {}
  BY DEF UnsentBuckets
<1>3. /\ UNION SentBuckets(m) = Live(m) \ Unsent(m)
      /\ {} \notin SentBuckets(m)
  BY <1>1 DEF SentBuckets
<1>4. ASSUME NEW a \in Live(m) \ Unsent(m), NEW c \in Live(m) \ Unsent(m),
             SentWith(m, a) \cap SentWith(m, c) # {}
      PROVE  SentWith(m, a) = SentWith(m, c)
  BY <1>4 DEF SentWith
<1>5. \A b, c \in SentBuckets(m) : b = c \/ b \cap c = {}
  BY <1>4 DEF SentBuckets
<1>6. Unsent(m) \subseteq Live(m)
  BY DEF Unsent
<1> QED BY <1>2, <1>3, <1>5, <1>6 DEF BuildBuckets

(* What is posted is one alert, or all that is new when it is more than    *)
(* the threshold: "one alert, one message by default, merge only on a real *)
(* burst" (batching.go:45).                                                *)
THEOREM MergedOnlyInABurst ==
  ASSUME BucketsAssumption, NEW m, NEW b \in BuildBuckets(m), TargetsOf(m, b) = {}
  PROVE  IF Cardinality(Unsent(m)) > Threshold THEN b = Unsent(m)
                                               ELSE \E a \in Unsent(m) : b = {a}
<1>1. ASSUME b \in SentBuckets(m) PROVE FALSE
  BY <1>1 DEF SentBuckets, SentWith, Unsent, TargetsOf
<1>2. b \in UnsentBuckets(m)
  BY <1>1 DEF BuildBuckets
<1> QED BY <1>2 DEF UnsentBuckets

(* Which alerts belong together follows from their targets alone.          *)
LEMMA SentBucketsByTargets ==
  ASSUME NEW m, NEW n,
         \A a \in Alerts : n[a].targets = m[a].targets,
         \A a \in Alerts : m[a].targets # {} => m[a].status # Absent /\ n[a].status # Absent
  PROVE  SentBuckets(n) = SentBuckets(m)
<1>1. Live(n) \ Unsent(n) = Live(m) \ Unsent(m)
  BY DEF Live, Unsent
<1>2. ASSUME NEW a \in Live(m) \ Unsent(m) PROVE SentWith(n, a) = SentWith(m, a)
  <2>1. a \in Alerts
    BY DEF Live
  <2> QED BY <2>1 DEF SentWith, Live
<1> QED BY <1>1, <1>2 DEF SentBuckets

(* A bucket that got targets of its own is a bucket from then on, the      *)
(* other messages keep their alerts, and it is not sent again if no call   *)
(* failed.                                                                 *)
THEOREM NotifiedBucketIsRebuilt ==
  ASSUME NEW m, NEW b \in SUBSET Live(m), b # {}, NEW sent, sent # {}, NEW failed \in BOOLEAN,
         \A a \in Live(m) \ b : TargetKey(m[a].targets) # TargetKey(sent)
  PROVE  LET n == Notify(m, b, sent, failed) IN
         /\ b \in SentBuckets(n) /\ TargetsOf(n, b) = sent
         /\ \A c \in SentBuckets(m) : c \cap b = {} => c \in SentBuckets(n)
         /\ ~failed => ~BucketChanged(n, b)
<1> DEFINE n == Notify(m, b, sent, failed)
<1>1. /\ \A a \in b : n[a].targets = sent
      /\ \A a \in Alerts : n[a].status = m[a].status
      /\ \A a \in Alerts \ b : n[a].targets = m[a].targets
      /\ ~failed => \A a \in b : n[a].notified = n[a].status
  BY DEF Notify, Live
<1> HIDE DEF n
<1>2. Live(n) = Live(m) /\ b \subseteq Alerts
  BY <1>1 DEF Live
<1>3. PICK x \in b : TRUE
  OBVIOUS
<1>4. SentWith(n, x) = b
  BY <1>1, <1>2, <1>3 DEF SentWith, Live
<1>5. x \in Live(n) \ Unsent(n)
  BY <1>1, <1>2, <1>3 DEF Unsent
<1>6. b \in SentBuckets(n)
  BY <1>4, <1>5 DEF SentBuckets
<1>7. TargetsOf(n, b) = sent
  BY <1>1, <1>3 DEF TargetsOf
<1>8. ASSUME NEW c \in SentBuckets(m), c \cap b = {} PROVE c \in SentBuckets(n)
  <2>1. PICK a \in Live(m) \ Unsent(m) : c = SentWith(m, a)
    BY DEF SentBuckets
  <2>2. a \in c /\ a \in Alerts \ b
    BY <1>8, <2>1 DEF SentWith, Unsent, Live
  <2>3. n[a].targets = m[a].targets /\ TargetKey(m[a].targets) # TargetKey(sent)
    BY <1>1, <2>1, <2>2
  <2>4. SentWith(n, a) = SentWith(m, a)
    <3>1. ASSUME NEW d \in b PROVE d \notin SentWith(n, a) /\ d \notin SentWith(m, a)
      BY <1>1, <1>8, <2>1, <2>3, <3>1 DEF SentWith
    <3>2. ASSUME NEW d \in Live(m) \ b PROVE d \in SentWith(n, a) <=> d \in SentWith(m, a)
      BY <1>1, <1>2, <2>3, <3>2 DEF SentWith, Live
    <3>3. SentWith(n, a) \subseteq Live(m) /\ SentWith(m, a) \subseteq Live(m)
      BY <1>2 DEF SentWith
    <3> QED BY <3>1, <3>2, <3>3
  <2>5. a \in Live(n) \ Unsent(n)
    BY <1>2, <2>1, <2>3 DEF Unsent
  <2> QED BY <2>1, <2>4, <2>5 DEF SentBuckets
<1>9. ~failed => ~BucketChanged(n, b)
  BY <1>1, <1>7 DEF BucketChanged
<1> QED BY <1>6, <1>7, <1>8, <1>9 DEF n

-----------------------------------------------------------------------------
(* For what the system meets.                                              *)

(* Whichever member the targets of a bucket are taken from, they are the   *)
(* same.                                                                   *)
THEOREM BucketHasOneSetOfTargetsAlways == Spec => []BucketHasOneSetOfTargets
<1>1. IInv => BucketHasOneSetOfTargets
  <2> SUFFICES ASSUME IInv, NEW g \in Groups, NEW m \in Copies(g),
                      NEW b \in BuildBuckets(m), NEW a \in b
               PROVE  m[a].targets = TargetsOf(m, b)
    BY DEF BucketHasOneSetOfTargets
  <2>1. CopyOK(slack, g, m) /\ CardsLegal(slack)
    BY DEF IInv, Copies, WorkerOK
  <2>2. BucketOK(m, b)
    BY <2>1, BucketsOK, BucketsAssumption
  <2> QED BY <2>2 DEF BucketOK, TargetsOf
<1> QED BY <1>1, Invariance, PTL

(* A message that was sent is rebuilt from the targets of its alerts, as   *)
(* its targets lead to messages that no alert outside the bucket records.  *)
THEOREM SentBucketIsRebuiltAlways == Spec => []SentBucketIsRebuilt
<1>1. IInv => SentBucketIsRebuilt
  <2> SUFFICES ASSUME IInv, NEW w \in Workers,
                      workers[w].bucket # {}, workers[w].left = {}, workers[w].sent # {}
               PROVE  LET self == workers[w]
                          after == Notify(Snap(w), self.bucket, self.sent, self.failed) IN
                      /\ self.bucket \in SentBuckets(after)
                      /\ TargetsOf(after, self.bucket) = self.sent
                      /\ \A b \in SentBuckets(Snap(w)) :
                            b \cap self.bucket = {} => b \in SentBuckets(after)
                      /\ ~self.failed => ~BucketChanged(after, self.bucket)
    BY DEF SentBucketIsRebuilt
  <2> DEFINE k == workers[w]
             m == k.snap[k.group]
  <2>1. k \in Worker /\ WorkerOK(slack, k)
    BY DEF IInv, TypeOK
  <2>2. k.group \in Groups /\ k.failed \in BOOLEAN
    BY <2>1 DEF WorkerOK, Worker
  <2>3. CopyOK(slack, k.group, m) /\ BucketOK(m, k.bucket) /\ SentOK(slack, k)
    BY <2>1, <2>2 DEF WorkerOK
  <2> HIDE DEF k, m
  <2>4. \A a \in Live(m) \ k.bucket : TargetKey(m[a].targets) # TargetKey(k.sent)
    <3> SUFFICES ASSUME NEW a \in Live(m) \ k.bucket, TargetKey(m[a].targets) = TargetKey(k.sent)
                 PROVE  FALSE
      OBVIOUS
    <3>1. PICK t \in k.sent : TRUE
      BY DEF k
    <3>2. <<t.channel, t.ts>> \in TargetKey(m[a].targets)
      BY <3>1 DEF TargetKey
    <3>3. PICK u \in m[a].targets : u.ts = t.ts
      BY <3>2 DEF TargetKey
    <3>4. CardAlerts(slack[u.ts].shows) = Recording(m, u) /\ a \in Alerts
      BY <2>3, <3>3 DEF CopyOK, CoversCards, Live
    <3>5. CardAlerts(slack[t.ts].shows) = k.bucket
      BY <2>3 DEF SentOK
    <3>6. a \in Recording(m, u)
      BY <3>3, <3>4 DEF Recording
    <3> QED BY <3>3, <3>4, <3>5, <3>6
  <2>5. k.bucket \in SUBSET Live(m) /\ k.bucket # {} /\ k.sent # {}
    BY <2>3 DEF BucketOK, k
  <2> DEFINE b == k.bucket
             sent == k.sent
             failed == k.failed
             after == Notify(m, b, sent, failed)
  <2>6. /\ b \in SUBSET Live(m) /\ b # {} /\ sent # {} /\ failed \in BOOLEAN
        /\ \A a \in Live(m) \ b : TargetKey(m[a].targets) # TargetKey(sent)
    BY <2>2, <2>4, <2>5
  <2> HIDE DEF b, sent, failed
  <2>7. /\ b \in SentBuckets(after) /\ TargetsOf(after, b) = sent
        /\ \A c \in SentBuckets(m) : c \cap b = {} => c \in SentBuckets(after)
        /\ ~failed => ~BucketChanged(after, b)
    BY <2>6, NotifiedBucketIsRebuilt DEF after
  <2> QED BY <2>7 DEF Snap, k, m, b, sent, failed
<1> QED BY <1>1, Invariance, PTL

(* No event takes an alert out of its message or puts one into it.         *)
THEOREM EventsKeepMessages ==
  ASSUME IInv, NEW g \in Groups, NEW a \in Alerts, NEW s \in Reported,
         UpsertGroupMember(g, a, s)
  PROVE  SentBuckets(rows'[g].members) = SentBuckets(rows[g].members)
<1> DEFINE m == rows[g].members
           n == [m EXCEPT ![a].status = s]
<1>1. m \in Members /\ CopyOK(slack, g, m) /\ rows'[g].members = n
  BY DEF UpsertGroupMember, IInv, TypeOK, Row
<1> HIDE DEF m
<1>2. \A c \in Alerts : /\ n[c].targets = m[c].targets
                        /\ n[c].status = IF c = a THEN s ELSE m[c].status
  BY <1>1 DEF Members, Member
<1> HIDE DEF n
<1>3. \A c \in Alerts : m[c].targets # {} => m[c].status # Absent /\ n[c].status # Absent
  BY <1>1, <1>2 DEF CopyOK
<1>4. SentBuckets(n) = SentBuckets(m)
  BY <1>2, <1>3, SentBucketsByTargets
<1> QED BY <1>1, <1>4 DEF m
=============================================================================
