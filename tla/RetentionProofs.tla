-------------------------- MODULE RetentionProofs --------------------------
(***************************************************************************)
(* Proofs about Retention for any alerts, batches, pages and number of     *)
(* processes that clean up: types, that a pass that has got to the groups  *)
(* is complete, that every history bar counts all the events of its day,   *)
(* and that a page of the dashboard says the right number of pages.        *)
(***************************************************************************)
EXTENDS Retention, FiniteSetTheorems, SequenceTheorems, TLAPS

Places == {"rest", "alerts", "events", "groups", "sessions", "vacuum"}
Pass == [at : Places, cutoff : Int]
Alert(t) == {Absent} \cup [status : {"firing", "resolved"}, seen : 0..t]

TInv ==
  /\ now \in 0..MaxTime
  /\ active \in [Alerts -> Alert(now)]
  /\ passes \in [Cleaners -> Pass]
  /\ events \subseteq received
  /\ \A e \in received : e.at \in 0..now

(* Only alerts that were received are in the tables, one by one, so there  *)
(* are finitely many of them whatever the fingerprints are.                *)
FinitelyMany == IsFiniteSet(Listed) /\ IsFiniteSet(events)

(* In what follows k is a pass and t the clock.  No pass deletes what is   *)
(* kept, and one that is past the deletion of alerts (of events) has left  *)
(* none that are older than its cutoff.                                    *)
InTime(k, t) == k.cutoff <= t /\ (k.at # "rest" => k.cutoff <= t - KeepFor)

AlertsDone(k, act) ==
  k.at \in {"events", "groups", "sessions", "vacuum"} =>
    \A a \in Alerts : act[a] # Absent => act[a].seen >= k.cutoff

EventsDone(k, evs) == k.at \in {"groups", "sessions", "vacuum"} => \A e \in evs : e.at >= k.cutoff

PassesInv == \A c \in Cleaners : InTime(passes[c], now) /\ AlertsDone(passes[c], active)
                                 /\ EventsDone(passes[c], events)

(* What was deleted was too old to be kept.                                *)
KeptInv == \A e \in received : e \notin events => e.at < now - KeepFor

RInv == TInv /\ FinitelyMany /\ PassesInv /\ KeptInv

-----------------------------------------------------------------------------
(* Batches.                                                                *)

LEMMA MinOfTwo ==
  ASSUME NEW a \in Int, NEW b \in Int
  PROVE  Min({a, b}) \in {a, b} /\ Min({a, b}) <= a /\ Min({a, b}) <= b
<1>1. \E x \in {a, b} : \A y \in {a, b} : x <= y
  <2>1. CASE a <= b  BY <2>1
  <2>2. CASE b <= a  BY <2>2
  <2>. QED  BY <2>1, <2>2
<1>2. Min({a, b}) \in {a, b} /\ \A y \in {a, b} : Min({a, b}) <= y
  BY <1>1 DEF Min
<1>. QED  BY <1>2

LEMMA MaxOfTwo ==
  ASSUME NEW a \in Int, NEW b \in Int
  PROVE  Max({a, b}) \in {a, b} /\ Max({a, b}) >= a /\ Max({a, b}) >= b
<1>1. \E x \in {a, b} : \A y \in {a, b} : x >= y
  <2>1. CASE a >= b  BY <2>1
  <2>2. CASE b >= a  BY <2>2
  <2>. QED  BY <2>1, <2>2
<1>2. Max({a, b}) \in {a, b} /\ \A y \in {a, b} : Max({a, b}) >= y
  BY <1>1 DEF Max
<1>. QED  BY <1>2

(* A batch is some of the old rows, and none only if there are no old rows *)
(* left.                                                                   *)
LEMMA BatchLeavesNone ==
  ASSUME NEW old, IsFiniteSet(old), NEW gone \in Batches(old)
  PROVE  /\ gone \subseteq old
         /\ EndsBatches(Cardinality(gone)) => old = {}
<1>. DEFINE n == Cardinality(old)
<1>1. n \in Nat
  BY FS_CardinalityType
<1>2. gone \subseteq old /\ Cardinality(gone) = Min({BatchSize, n})
  BY DEF Batches, kSubset
<1>3. Min({BatchSize, n}) \in {BatchSize, n}
  <2>. HIDE DEF n
  <2>. QED  BY <1>1, MinOfTwo, RetentionAssumption
<1>4. EndsBatches(Cardinality(gone)) => n = 0
  BY <1>1, <1>2, <1>3, RetentionAssumption DEF EndsBatches
<1>. QED  BY <1>2, <1>4, FS_EmptySet

-----------------------------------------------------------------------------
(* What a step does to one pass.                                           *)

LEMMA Typed ==
  ASSUME TInv, NEW c \in Cleaners
  PROVE  passes[c] \in Pass /\ passes[c].at \in Places /\ passes[c].cutoff \in Int
<1>. passes[c] \in Pass
  BY DEF TInv
<1>. QED  BY DEF Pass

(* The clock only makes more room.                                         *)
LEMMA InTimeLater ==
  ASSUME NEW k \in Pass, NEW t \in Int, NEW u \in Int, t <= u, InTime(k, t)
  PROVE  InTime(k, u)
<1>1. k.cutoff \in Int
  BY DEF Pass
<1>. QED  BY <1>1, RetentionAssumption DEF InTime

(* A pass that goes on keeps its cutoff.                                   *)
LEMMA MovesOn ==
  ASSUME TInv, NEW c \in Cleaners, NEW to \in Places, Moves(c, to)
  PROVE  /\ passes' \in [Cleaners -> Pass]
         /\ passes'[c] = [passes[c] EXCEPT !.at = to]
         /\ passes'[c].at = to /\ passes'[c].cutoff = passes[c].cutoff
         /\ \A o \in Cleaners : o # c => passes'[o] = passes[o]
<1>1. passes \in [Cleaners -> Pass] /\ passes[c] \in Pass
  BY DEF TInv
<1>2. [passes[c] EXCEPT !.at = to] \in Pass
  BY <1>1 DEF Pass
<1>3. passes' = [passes EXCEPT ![c] = [passes[c] EXCEPT !.at = to]]
  BY DEF Moves
<1>4. /\ [passes[c] EXCEPT !.at = to].at = to
      /\ [passes[c] EXCEPT !.at = to].cutoff = passes[c].cutoff
  BY <1>1 DEF Pass
<1>. QED  BY <1>1, <1>2, <1>3, <1>4

LEMMA RestsNow ==
  ASSUME TInv, NEW c \in Cleaners, Rests(c)
  PROVE  /\ passes' \in [Cleaners -> Pass]
         /\ passes'[c] = Resting
         /\ \A o \in Cleaners : o # c => passes'[o] = passes[o]
<1>1. Resting \in Pass
  BY DEF Resting, Pass, Places
<1>. QED  BY <1>1 DEF TInv, Rests

(* A step of one pass that leaves the tables alone.                        *)
LEMMA TablesKept ==
  ASSUME RInv, KeepsAlerts, NEW c \in Cleaners, passes' \in [Cleaners -> Pass],
         \A o \in Cleaners : o # c => passes'[o] = passes[o],
         InTime(passes'[c], now), AlertsDone(passes'[c], active), EventsDone(passes'[c], events)
  PROVE  RInv'
<1>. USE DEF RInv, KeepsAlerts
<1>1. TInv'
  BY DEF TInv
<1>2. FinitelyMany'
  BY DEF FinitelyMany, Listed
<1>3. PassesInv'
  <2>. SUFFICES ASSUME NEW o \in Cleaners
                PROVE  /\ InTime(passes'[o], now) /\ AlertsDone(passes'[o], active)
                       /\ EventsDone(passes'[o], events)
    BY DEF PassesInv
  <2>1. CASE o = c  BY <2>1
  <2>2. CASE o # c
    <3>1. passes'[o] = passes[o]
      BY <2>2
    <3>. QED  BY <3>1 DEF PassesInv
  <2>. QED  BY <2>1, <2>2
<1>4. KeptInv'
  BY DEF KeptInv
<1>. QED  BY <1>1, <1>2, <1>3, <1>4

LEMMA RestKeeps ==
  ASSUME RInv, KeepsAlerts, NEW c \in Cleaners, Rests(c)
  PROVE  RInv'
<1>1. /\ passes' \in [Cleaners -> Pass] /\ passes'[c] = Resting
      /\ \A o \in Cleaners : o # c => passes'[o] = passes[o]
  BY RestsNow DEF RInv
<1>2. now \in Nat
  BY RetentionAssumption DEF RInv, TInv
<1>3. InTime(passes'[c], now) /\ AlertsDone(passes'[c], active) /\ EventsDone(passes'[c], events)
  BY <1>1, <1>2 DEF InTime, AlertsDone, EventsDone, Resting
<1>. QED  BY <1>1, <1>3, TablesKept

LEMMA BeginKeeps ==
  ASSUME RInv, NEW c \in Cleaners, BeginPass(c)
  PROVE  RInv'
<1>. DEFINE k == [at |-> "alerts", cutoff |-> now - KeepFor]
<1>1. now \in Nat /\ passes \in [Cleaners -> Pass]
  BY RetentionAssumption DEF RInv, TInv
<1>2. k \in Pass
  BY <1>1, RetentionAssumption DEF Pass, Places
<1>3. passes' = [passes EXCEPT ![c] = k]
  BY DEF BeginPass
<1>4. InTime(k, now) /\ AlertsDone(k, active) /\ EventsDone(k, events)
  BY <1>1, RetentionAssumption DEF InTime, AlertsDone, EventsDone
<1>5. KeepsAlerts
  BY DEF BeginPass
<1>. HIDE DEF k
<1>6. /\ passes' \in [Cleaners -> Pass] /\ passes'[c] = k
      /\ \A o \in Cleaners : o # c => passes'[o] = passes[o]
  BY <1>1, <1>2, <1>3
<1>. QED  BY <1>4, <1>5, <1>6, TablesKept

LEMMA SweepKeeps ==
  ASSUME RInv, NEW c \in Cleaners, NEW kind \in Kinds, Sweep(c, kind)
  PROVE  RInv'
<1>1. /\ passes[c].at = kind /\ passes[c].at \in {"groups", "sessions"}
      /\ KeepsAlerts /\ Moves(c, After(kind))
  BY DEF Sweep, Kinds
<1>2. After(kind) \in {"sessions", "vacuum"} /\ After(kind) \in Places
  BY DEF After, Places
<1>3. /\ passes' \in [Cleaners -> Pass]
      /\ passes'[c].at = After(kind) /\ passes'[c].cutoff = passes[c].cutoff
      /\ \A o \in Cleaners : o # c => passes'[o] = passes[o]
  BY <1>1, <1>2, MovesOn DEF RInv
<1>4. InTime(passes[c], now) /\ AlertsDone(passes[c], active) /\ EventsDone(passes[c], events)
  BY DEF RInv, PassesInv
<1>5. InTime(passes'[c], now) /\ AlertsDone(passes'[c], active) /\ EventsDone(passes'[c], events)
  BY <1>1, <1>2, <1>3, <1>4 DEF InTime, AlertsDone, EventsDone
<1>. QED  BY <1>1, <1>3, <1>5, TablesKept

LEMMA TickKeeps ==
  ASSUME RInv, Tick
  PROVE  RInv'
<1>1. now \in 0..MaxTime /\ now' = now + 1 /\ now' \in 0..MaxTime
  BY RetentionAssumption DEF RInv, TInv, Tick
<1>2. Alert(now) \subseteq Alert(now')
  BY <1>1, RetentionAssumption DEF Alert
<1>3. TInv'
  <2>1. active' \in [Alerts -> Alert(now')]
    BY <1>2 DEF RInv, TInv, Tick
  <2>2. \A e \in received' : e.at \in 0..now'
    BY <1>1, RetentionAssumption DEF RInv, TInv, Tick
  <2>. QED  BY <1>1, <2>1, <2>2 DEF RInv, TInv, Tick
<1>4. FinitelyMany'
  BY DEF RInv, FinitelyMany, Listed, Tick
<1>5. PassesInv'
  <2>. SUFFICES ASSUME NEW o \in Cleaners
                PROVE  /\ InTime(passes[o], now') /\ AlertsDone(passes[o], active)
                       /\ EventsDone(passes[o], events)
    BY DEF PassesInv, Tick
  <2>1. passes[o] \in Pass
    BY Typed DEF RInv
  <2>2. InTime(passes[o], now) /\ AlertsDone(passes[o], active) /\ EventsDone(passes[o], events)
    BY DEF RInv, PassesInv
  <2>3. InTime(passes[o], now')
    BY <1>1, <2>1, <2>2, InTimeLater, RetentionAssumption
  <2>. QED  BY <2>2, <2>3
<1>6. KeptInv'
  <2>. SUFFICES ASSUME NEW e \in received, e \notin events
                PROVE  e.at < now' - KeepFor
    BY DEF KeptInv, Tick
  <2>1. e.at < now - KeepFor /\ e.at \in Int
    BY DEF RInv, KeptInv, TInv
  <2>. QED  BY <1>1, <2>1, RetentionAssumption
<1>. QED  BY <1>3, <1>4, <1>5, <1>6 DEF RInv

LEMMA ReceiveKeeps ==
  ASSUME RInv, NEW a \in Alerts, NEW status \in {"firing", "resolved"}, Receive(a, status)
  PROVE  RInv'
<1>. DEFINE row == [status |-> status, seen |-> now]
<1>1. now \in Nat /\ now <= MaxTime
  BY RetentionAssumption DEF RInv, TInv
<1>2. PICK id : /\ received' = received \cup {[id |-> id, at |-> now, status |-> status]}
                /\ events' = events \cup {[id |-> id, at |-> now, status |-> status]}
  BY DEF Receive
<1>. DEFINE event == [id |-> id, at |-> now, status |-> status]
<1>3. active' = [active EXCEPT ![a] = row] /\ now' = now /\ passes' = passes
  BY DEF Receive
<1>4. row \in Alert(now) /\ row.seen = now /\ event.at = now
  BY <1>1 DEF Alert
<1>5. received' = received \cup {event} /\ events' = events \cup {event}
  BY <1>2
<1>6. active \in [Alerts -> Alert(now)]
  BY DEF RInv, TInv
<1>. HIDE DEF row, event
<1>7. TInv'
  BY <1>1, <1>3, <1>4, <1>5, <1>6 DEF RInv, TInv
<1>8. FinitelyMany'
  <2>1. Listed' \subseteq Listed \cup {a}
    BY <1>3, <1>6 DEF Listed
  <2>2. IsFiniteSet(Listed \cup {a}) /\ IsFiniteSet(events \cup {event})
    BY FS_AddElement DEF RInv, FinitelyMany
  <2>3. IsFiniteSet(Listed')
    BY <2>1, <2>2, FS_Subset
  <2>. QED  BY <1>5, <2>2, <2>3 DEF FinitelyMany
<1>9. PassesInv'
  <2>. SUFFICES ASSUME NEW o \in Cleaners
                PROVE  /\ InTime(passes[o], now) /\ AlertsDone(passes[o], active')
                       /\ EventsDone(passes[o], events')
    BY <1>3 DEF PassesInv
  <2>1. InTime(passes[o], now) /\ AlertsDone(passes[o], active) /\ EventsDone(passes[o], events)
    BY DEF RInv, PassesInv
  <2>2. passes[o].cutoff <= now
    BY <2>1 DEF InTime
  <2>3. AlertsDone(passes[o], active')
    <3>. SUFFICES ASSUME passes[o].at \in {"events", "groups", "sessions", "vacuum"},
                         NEW b \in Alerts, active'[b] # Absent
                  PROVE  active'[b].seen >= passes[o].cutoff
      BY DEF AlertsDone
    <3>1. CASE b = a
      <4>1. active'[b] = row
        BY <1>3, <1>6, <3>1
      <4>. QED  BY <1>1, <1>4, <2>2, <4>1, Typed DEF RInv
    <3>2. CASE b # a
      <4>1. active'[b] = active[b]
        BY <1>3, <1>6, <3>2
      <4>. QED  BY <2>1, <4>1 DEF AlertsDone
    <3>. QED  BY <3>1, <3>2
  <2>4. EventsDone(passes[o], events')
    <3>1. passes[o].cutoff \in Int
      BY Typed DEF RInv
    <3>2. event.at >= passes[o].cutoff
      BY <1>1, <1>4, <2>2, <3>1
    <3>. QED  BY <1>5, <2>1, <3>2 DEF EventsDone
  <2>. QED  BY <2>1, <2>3, <2>4
<1>10. KeptInv'
  BY <1>3, <1>5 DEF RInv, KeptInv
<1>. QED  BY <1>7, <1>8, <1>9, <1>10 DEF RInv

LEMMA DeleteOldActiveKeeps ==
  ASSUME RInv, NEW c \in Cleaners, DeleteOldActive(c)
  PROVE  RInv'
<1>. DEFINE old == {a \in Listed : active[a].seen < passes[c].cutoff}
<1>1. PICK gone \in Batches(old) :
        /\ active' = [a \in Alerts |-> IF a \in gone THEN Absent ELSE active[a]]
        /\ Moves(c, IF EndsBatches(Cardinality(gone)) THEN "events" ELSE "alerts")
  BY DEF DeleteOldActive
<1>. DEFINE to == IF EndsBatches(Cardinality(gone)) THEN "events" ELSE "alerts"
<1>2. IsFiniteSet(old)
  BY FS_Subset DEF RInv, FinitelyMany
<1>3. gone \subseteq old /\ (EndsBatches(Cardinality(gone)) => old = {})
  <2>. HIDE DEF old
  <2>. QED  BY <1>2, BatchLeavesNone
<1>4. to \in {"alerts", "events"} /\ to \in Places /\ (to = "events" => old = {})
  BY <1>3 DEF Places
<1>5. Moves(c, to)
  BY <1>1
<1>6. /\ now' = now /\ events' = events /\ received' = received /\ passes[c].at = "alerts"
  BY DEF DeleteOldActive
<1>7. \A a \in Alerts : active'[a] # Absent => active'[a] = active[a]
  BY <1>1
<1>8. active \in [Alerts -> Alert(now)]
  BY DEF RInv, TInv
<1>. HIDE DEF to
<1>9. /\ passes' \in [Cleaners -> Pass]
      /\ passes'[c].at = to /\ passes'[c].cutoff = passes[c].cutoff
      /\ \A o \in Cleaners : o # c => passes'[o] = passes[o]
  BY <1>4, <1>5, MovesOn DEF RInv
<1>10. TInv'
  <2>1. active' \in [Alerts -> Alert(now)]
    BY <1>1, <1>8 DEF Alert
  <2>. QED  BY <1>6, <1>9, <2>1 DEF RInv, TInv
<1>11. FinitelyMany'
  <2>1. Listed' \subseteq Listed
    BY <1>7 DEF Listed
  <2>. QED  BY <1>6, <2>1, FS_Subset DEF RInv, FinitelyMany
<1>12. PassesInv'
  <2>. SUFFICES ASSUME NEW o \in Cleaners
                PROVE  /\ InTime(passes'[o], now) /\ AlertsDone(passes'[o], active')
                       /\ EventsDone(passes'[o], events)
    BY <1>6 DEF PassesInv
  <2>1. InTime(passes[o], now) /\ AlertsDone(passes[o], active) /\ EventsDone(passes[o], events)
    BY DEF RInv, PassesInv
  <2>2. CASE o = c
    <3>1. InTime(passes'[o], now)
      BY <1>6, <1>9, <2>1, <2>2 DEF InTime
    <3>2. ASSUME to = "events", NEW a \in Alerts, active'[a] # Absent
          PROVE  active'[a].seen >= passes[c].cutoff
      <4>1. active'[a] = active[a] /\ active[a] # Absent /\ a \in Listed
        BY <1>7, <3>2 DEF Listed
      <4>2. active[a].seen \in Int
        BY <1>8, <4>1, RetentionAssumption DEF Alert, RInv, TInv
      <4>3. ~(active[a].seen < passes[c].cutoff)
        BY <1>4, <3>2, <4>1
      <4>. QED  BY <4>1, <4>2, <4>3, Typed DEF RInv
    <3>. QED  BY <1>4, <1>9, <2>2, <3>1, <3>2 DEF AlertsDone, EventsDone
  <2>3. CASE o # c
    <3>1. passes'[o] = passes[o]
      BY <1>9, <2>3
    <3>. QED  BY <1>7, <2>1, <3>1 DEF AlertsDone
  <2>. QED  BY <2>2, <2>3
<1>13. KeptInv'
  BY <1>6 DEF RInv, KeptInv
<1>. QED  BY <1>10, <1>11, <1>12, <1>13 DEF RInv

LEMMA DeleteOldEventsKeeps ==
  ASSUME RInv, NEW c \in Cleaners, DeleteOldEvents(c)
  PROVE  RInv'
<1>. DEFINE old == {e \in events : e.at < passes[c].cutoff}
<1>1. PICK gone \in Batches(old) :
        /\ events' = events \ gone
        /\ Moves(c, IF EndsBatches(Cardinality(gone)) THEN "groups" ELSE "events")
  BY DEF DeleteOldEvents
<1>. DEFINE to == IF EndsBatches(Cardinality(gone)) THEN "groups" ELSE "events"
<1>2. IsFiniteSet(old)
  BY FS_Subset DEF RInv, FinitelyMany
<1>3. gone \subseteq old /\ (EndsBatches(Cardinality(gone)) => old = {})
  <2>. HIDE DEF old
  <2>. QED  BY <1>2, BatchLeavesNone
<1>4. to \in {"events", "groups"} /\ to \in Places /\ (to = "groups" => old = {})
  BY <1>3 DEF Places
<1>5. Moves(c, to)
  BY <1>1
<1>6. /\ now' = now /\ active' = active /\ received' = received /\ passes[c].at = "events"
  BY DEF DeleteOldEvents
<1>. HIDE DEF to
<1>7. /\ passes' \in [Cleaners -> Pass]
      /\ passes'[c].at = to /\ passes'[c].cutoff = passes[c].cutoff
      /\ \A o \in Cleaners : o # c => passes'[o] = passes[o]
  BY <1>4, <1>5, MovesOn DEF RInv
<1>8. TInv'
  BY <1>1, <1>6, <1>7 DEF RInv, TInv
<1>9. FinitelyMany'
  <2>1. IsFiniteSet(events')
    BY <1>1, FS_Subset DEF RInv, FinitelyMany
  <2>2. Listed' = Listed
    BY <1>6 DEF Listed
  <2>. QED  BY <2>1, <2>2 DEF RInv, FinitelyMany
<1>10. PassesInv'
  <2>. SUFFICES ASSUME NEW o \in Cleaners
                PROVE  /\ InTime(passes'[o], now) /\ AlertsDone(passes'[o], active)
                       /\ EventsDone(passes'[o], events')
    BY <1>6 DEF PassesInv
  <2>1. InTime(passes[o], now) /\ AlertsDone(passes[o], active) /\ EventsDone(passes[o], events)
    BY DEF RInv, PassesInv
  <2>2. CASE o = c
    <3>1. InTime(passes'[o], now) /\ AlertsDone(passes'[o], active)
      BY <1>4, <1>6, <1>7, <2>1, <2>2 DEF InTime, AlertsDone
    <3>2. ASSUME to = "groups", NEW e \in events'
          PROVE  e.at >= passes[c].cutoff
      <4>1. e \in events /\ e.at \in Int /\ now \in Nat
        BY <1>1, RetentionAssumption DEF RInv, TInv
      <4>2. ~(e.at < passes[c].cutoff)
        BY <1>4, <3>2, <4>1
      <4>. QED  BY <4>1, <4>2, Typed DEF RInv
    <3>. QED  BY <1>4, <1>7, <2>2, <3>1, <3>2 DEF EventsDone
  <2>3. CASE o # c
    <3>1. passes'[o] = passes[o]
      BY <1>7, <2>3
    <3>. QED  BY <1>1, <2>1, <3>1 DEF EventsDone
  <2>. QED  BY <2>2, <2>3
<1>11. KeptInv'
  <2>. SUFFICES ASSUME NEW e \in received, e \notin events'
                PROVE  e.at < now - KeepFor
    BY <1>6 DEF KeptInv
  <2>1. CASE e \in events
    <3>1. e.at < passes[c].cutoff
      BY <1>1, <1>3, <2>1
    <3>2. passes[c].cutoff <= now - KeepFor
      BY <1>6 DEF RInv, PassesInv, InTime
    <3>3. e.at \in Int /\ now \in Int /\ passes[c].cutoff \in Int
      BY RetentionAssumption, Typed DEF RInv, TInv
    <3>. QED  BY <3>1, <3>2, <3>3, RetentionAssumption
  <2>2. CASE e \notin events
    BY <2>2 DEF RInv, KeptInv
  <2>. QED  BY <2>1, <2>2
<1>. QED  BY <1>8, <1>9, <1>10, <1>11 DEF RInv

-----------------------------------------------------------------------------
(* The invariant.                                                          *)

LEMMA InitInvariant == Init => RInv
<1>. SUFFICES ASSUME Init PROVE RInv
  OBVIOUS
<1>1. TInv
  BY RetentionAssumption DEF Init, TInv, Alert, Pass, Places, Resting
<1>2. FinitelyMany
  <2>1. Listed = {}
    BY DEF Init, Listed
  <2>. QED  BY <2>1, FS_EmptySet DEF Init, FinitelyMany
<1>3. PassesInv
  BY DEF Init, PassesInv, InTime, AlertsDone, EventsDone, Resting
<1>4. KeptInv
  BY DEF Init, KeptInv
<1>. QED  BY <1>1, <1>2, <1>3, <1>4 DEF RInv

LEMMA StepKeepsInvariant == RInv /\ [Next]_vars => RInv'
<1>. SUFFICES ASSUME RInv, [Next]_vars PROVE RInv'
  OBVIOUS
<1>1. CASE Tick  BY <1>1, TickKeeps
<1>2. ASSUME NEW a \in Alerts, Receive(a, "firing") \/ Receive(a, "resolved") PROVE RInv'
  BY <1>2, ReceiveKeeps
<1>3. ASSUME NEW kind \in Kinds, GoesStale(kind) PROVE RInv'
  BY <1>3 DEF GoesStale, RInv, TInv, FinitelyMany, Listed, PassesInv, KeptInv
<1>4. ASSUME NEW c \in Cleaners, Cleaning(c) PROVE RInv'
  <2>1. CASE BeginPass(c)  BY <2>1, BeginKeeps
  <2>2. CASE DeleteOldActive(c)  BY <2>2, DeleteOldActiveKeeps
  <2>3. CASE DeleteOldEvents(c)  BY <2>3, DeleteOldEventsKeeps
  <2>4. CASE \E kind \in Kinds : Sweep(c, kind)  BY <2>4, SweepKeeps
  <2>5. CASE EndPass(c)  BY <2>5, RestKeeps DEF EndPass
  <2>. QED  BY <1>4, <2>1, <2>2, <2>3, <2>4, <2>5 DEF Cleaning
<1>5. ASSUME NEW c \in Cleaners, DeleteFails(c) \/ Stop(c) PROVE RInv'
  BY <1>5, RestKeeps DEF DeleteFails, Stop
<1>6. CASE UNCHANGED vars
  BY <1>6 DEF vars, RInv, TInv, FinitelyMany, Listed, PassesInv, KeptInv
<1>. QED  BY <1>1, <1>2, <1>3, <1>4, <1>5, <1>6 DEF Next

(* The invariant holds of every state of every behaviour of runCleanupLoop *)
(* and of the alerts that come in meanwhile.                               *)
THEOREM RInvAlways == Spec => []RInv
BY InitInvariant, StepKeepsInvariant, PTL DEF Spec

(* The clock, active_alerts, alert_events and the passes have their types. *)
THEOREM TypeCorrect == Spec => []TypeOK
<1>1. ASSUME RInv PROVE TypeOK
  <2>1. ASSUME NEW a \in Listed
        PROVE  active[a].status \in {"firing", "resolved"} /\ active[a].seen \in 0..now
    BY <1>1, <2>1 DEF RInv, TInv, Alert, Listed
  <2>2. ASSUME NEW c \in Cleaners PROVE passes[c].at \in Places /\ passes[c].cutoff <= now
    BY <1>1, <2>2, Typed DEF RInv, PassesInv, InTime
  <2>. QED  BY <1>1, <2>1, <2>2 DEF TypeOK, RInv, TInv, Places
<1>. QED  BY <1>1, RInvAlways, PTL

(* DeleteOldAlerts leaves no alert and no event that is older than the     *)
(* cutoff of its pass, in batches and while the tables change              *)
(* (alerts.go:233-260, 275-288).                                           *)
THEOREM CleanupCompleteAlways == Spec => []CleanupComplete
<1>1. ASSUME RInv PROVE CleanupComplete
  BY <1>1 DEF RInv, PassesInv, AlertsDone, EventsDone, CleanupComplete, Listed
<1>. QED  BY <1>1, RInvAlways, PTL

-----------------------------------------------------------------------------
(* The history bars.                                                       *)

(* Numbers that are bounded have a greatest one.                           *)
LEMMA MaxOfBounded ==
  ASSUME NEW S \in SUBSET Nat, S # {}, NEW n \in Nat, \A s \in S : s <= n
  PROVE  Max(S) \in S /\ \A s \in S : Max(S) >= s
<1>. DEFINE T == {n - s : s \in S}
<1>1. T \subseteq Nat /\ T # {}
  <2>1. \A s \in S : n - s \in Nat
    OBVIOUS
  <2>2. PICK s \in S : TRUE
    OBVIOUS
  <2>3. n - s \in T
    OBVIOUS
  <2>. QED  BY <2>1, <2>3
<1>2. PICK x \in T : \A y \in T : ~(<<y, x>> \in OpToRel(<, Nat))
  <2>. HIDE DEF T
  <2>. QED  BY <1>1, NatLessThanWellFounded, WFMin
<1>3. \A y \in T : x <= y
  <2>. HIDE DEF T
  <2>. SUFFICES ASSUME NEW y \in T PROVE x <= y
    OBVIOUS
  <2>1. x \in Nat /\ y \in Nat
    BY <1>1
  <2>2. ~(<<y, x>> \in OpToRel(<, Nat))
    BY <1>2
  <2>3. ~(y < x)
    BY <2>1, <2>2 DEF OpToRel
  <2>. QED  BY <2>1, <2>3
<1>4. PICK m \in S : x = n - m
  OBVIOUS
<1>5. \A s \in S : m >= s
  <2>. SUFFICES ASSUME NEW s \in S PROVE m >= s
    OBVIOUS
  <2>1. n - s \in T
    OBVIOUS
  <2>2. n - m <= n - s /\ m \in Nat /\ s \in Nat
    BY <1>3, <1>4, <2>1
  <2>. QED  BY <2>2
<1>. QED  BY <1>5 DEF Max

(* Of the days that have a bar, nothing is too old to be kept.             *)
LEMMA DaysAreKept ==
  ASSUME NEW t \in Nat, NEW s \in Nat, NEW d \in Int, d = s \div Day,
         d >= (t \div Day) - ((KeepFor \div Day) - 1)
  PROVE  s >= t - KeepFor
<1>. DEFINE q == t \div Day
            h == KeepFor \div Day
<1>1. Day \in Nat /\ Day > 0 /\ KeepFor \in Nat
  BY RetentionAssumption
<1>2. q \in Int /\ t < q * Day + Day
  BY <1>1
<1>3. h \in Int /\ KeepFor >= h * Day
  BY <1>1
<1>4. s >= d * Day
  BY <1>1
<1>5. d >= q - h + 1
  BY <1>2, <1>3
<1>. HIDE DEF q, h
<1>6. d * Day >= (q - h + 1) * Day
  BY <1>1, <1>2, <1>3, <1>5
<1>7. (q - h + 1) * Day = q * Day - h * Day + Day
  BY <1>1, <1>2, <1>3
<1>8. q * Day \in Int /\ h * Day \in Int /\ d * Day \in Int
  BY <1>1, <1>2, <1>3
<1>. QED  BY <1>1, <1>2, <1>3, <1>4, <1>6, <1>7, <1>8

(* A bar is visible exactly where there is something to count.             *)
LEMMA BarsShowCounts ==
  ASSUME NEW a \in Int, NEW b \in Int, a <= b, NEW counts \in [a..b -> Nat], NEW n \in Nat,
         \A d \in a..b : counts[d] <= n, NEW d \in a..b
  PROVE  BuildHistoryBars(counts)[d] > 0 <=> counts[d] > 0
<1>. DEFINE all == {counts[e] : e \in DOMAIN counts}
            most == Max(all)
            height(m) == IF most = 0 THEN 0 ELSE (m * 100) \div most
<1>1. all \subseteq Nat /\ all # {} /\ (\A s \in all : s <= n)
  OBVIOUS
<1>2. most \in Nat
  <2>. HIDE DEF all
  <2>. QED  BY <1>1, MaxOfBounded
<1>3. BuildHistoryBars(counts)[d] =
        IF counts[d] > 0 THEN Max({4, height(counts[d])}) ELSE height(counts[d])
  BY DEF BuildHistoryBars
<1>. HIDE DEF most
<1>4. counts[d] \in Nat
  OBVIOUS
<1>5. CASE counts[d] > 0
  <2>1. height(counts[d]) \in Int
    BY <1>2, <1>4
  <2>2. ASSUME NEW x \in Int PROVE Max({4, x}) >= 4 /\ Max({4, x}) \in Int
    <3>1. ASSUME NEW y \in Int PROVE Max({y, x}) \in {y, x} /\ Max({y, x}) >= y
      BY MaxOfTwo
    <3>2. Max({4, x}) \in {4, x} /\ Max({4, x}) >= 4
      BY <3>1, SMTT(20)
    <3>. QED  BY <3>2
  <2>. HIDE DEF height
  <2>3. Max({4, height(counts[d])}) >= 4 /\ Max({4, height(counts[d])}) \in Int
    BY <2>1, <2>2
  <2>. QED  BY <1>3, <1>5, <2>3
<1>6. CASE counts[d] = 0
  <2>1. height(counts[d]) = 0
    BY <1>2, <1>6
  <2>. QED  BY <1>3, <1>6, <2>1
<1>. QED  BY <1>4, <1>5, <1>6

LEMMA BarsComplete ==
  ASSUME RInv
  PROVE  BarsAreComplete
<1>. SUFFICES ASSUME KeepFor >= Day
              PROVE  LET kept == CountFiringEventsByDay(events)
                         bars == BuildHistoryBars(kept)
                     IN  /\ kept = CountFiringEventsByDay(received)
                         /\ \A d \in DOMAIN bars : bars[d] > 0 <=> kept[d] > 0
  BY DEF BarsAreComplete
<1>. DEFINE kept == CountFiringEventsByDay(events)
            of(rows, d) == {e \in rows : e.status = "firing" /\ DayOf(e.at) = d}
            first == DayOf(now) - (HistoryDays - 1)
<1>1. /\ now \in Nat /\ \A e \in received : e.at \in Nat
      /\ Day \in Nat /\ Day > 0 /\ KeepFor \in Nat
  BY RetentionAssumption DEF RInv, TInv
<1>2. HistoryDays = KeepFor \div Day /\ HistoryDays >= 1 /\ HistoryDays \in Int
  <2>1. KeepFor \div Day \in Int /\ KeepFor \div Day >= 1
    BY <1>1
  <2>. QED  BY <2>1, MaxOfTwo DEF HistoryDays
<1>3. DayOf(now) \in Int /\ first \in Int /\ first <= DayOf(now)
  BY <1>1, <1>2 DEF DayOf
<1>4. ASSUME NEW d \in first..DayOf(now)
      PROVE  of(events, d) = of(received, d)
  <2>. SUFFICES ASSUME NEW e \in received, e \notin events, DayOf(e.at) = d PROVE FALSE
    BY DEF RInv, TInv
  <2>1. e.at \in Nat /\ d = e.at \div Day /\ d \in Int
    BY <1>1, <1>3 DEF DayOf
  <2>2. d >= (now \div Day) - ((KeepFor \div Day) - 1)
    BY <1>2, <1>3, <1>4 DEF DayOf
  <2>3. e.at >= now - KeepFor
    BY <1>1, <2>1, <2>2, DaysAreKept
  <2>4. e.at < now - KeepFor
    BY DEF RInv, KeptInv
  <2>. QED  BY <1>1, <2>1, <2>3, <2>4
<1>5. kept = CountFiringEventsByDay(received)
  BY <1>4 DEF CountFiringEventsByDay
<1>6. ASSUME NEW d \in first..DayOf(now)
      PROVE  kept[d] \in Nat /\ kept[d] <= Cardinality(events)
  <2>1. kept[d] = Cardinality(of(events, d))
    BY DEF CountFiringEventsByDay
  <2>2. of(events, d) \in SUBSET events /\ IsFiniteSet(events)
    BY DEF RInv, FinitelyMany
  <2>. HIDE DEF of, kept
  <2>3. IsFiniteSet(of(events, d)) /\ Cardinality(of(events, d)) <= Cardinality(events)
    BY <2>2, FS_Subset
  <2>. QED  BY <2>1, <2>3, FS_CardinalityType
<1>7. kept \in [first..DayOf(now) -> Nat]
  <2>1. kept = [d \in first..DayOf(now) |-> kept[d]]
    BY DEF CountFiringEventsByDay
  <2>. HIDE DEF kept
  <2>. QED  BY <1>6, <2>1
<1>8. DOMAIN BuildHistoryBars(kept) = first..DayOf(now)
  <2>. HIDE DEF kept
  <2>. QED  BY <1>7 DEF BuildHistoryBars
<1>9. Cardinality(events) \in Nat
  BY FS_CardinalityType DEF RInv, FinitelyMany
<1>10. ASSUME NEW d \in first..DayOf(now)
       PROVE  BuildHistoryBars(kept)[d] > 0 <=> kept[d] > 0
  <2>. HIDE DEF kept, first
  <2>. QED  BY <1>3, <1>6, <1>7, <1>9, BarsShowCounts
<1>. QED  BY <1>5, <1>8, <1>10

(* With a day of retention or more, every history bar stands for all the   *)
(* events its day had and shows whether there were any (webui.go:54-57),   *)
(* whatever the cleanup has deleted.                                       *)
THEOREM BarsAreCompleteAlways == Spec => []BarsAreComplete
BY BarsComplete, RInvAlways, PTL

-----------------------------------------------------------------------------
(* Pages.                                                                  *)

LEMMA OffsetType == ASSUME NEW p \in Nat \ {0} PROVE Offset(p) \in Nat
BY RetentionAssumption DEF Offset

(* A page has rows if it begins before the end of the list.                *)
LEMMA PageHasRows ==
  ASSUME NEW S, NEW n \in Nat, NEW order \in [1..n -> S], NEW p \in Nat \ {0}
  PROVE  /\ ListActiveAlerts(order, p).rows # << >> <=> Offset(p) < n
         /\ ListActiveAlerts(order, p).total = IF Offset(p) < n THEN n ELSE 0
<1>. DEFINE first == Offset(p)
            end == Min({n, first + PageSize})
<1>1. first \in Nat /\ PageSize \in Nat /\ PageSize > 0
  BY OffsetType, RetentionAssumption
<1>2. order \in Seq(S) /\ Len(order) = n
  OBVIOUS
<1>3. ListActiveAlerts(order, p).rows = SubSeq(order, first + 1, end)
  BY <1>2 DEF ListActiveAlerts
<1>4. ListActiveAlerts(order, p).total =
        IF ListActiveAlerts(order, p).rows = << >> THEN 0 ELSE n
  BY <1>2 DEF ListActiveAlerts
<1>. HIDE DEF first
<1>5. end \in {n, first + PageSize} /\ end <= n
  <2>1. first + PageSize \in Int /\ n \in Int
    BY <1>1
  <2>. QED  BY <2>1, MinOfTwo
<1>6. end \in Int /\ (first + 1 <= end <=> first < n)
  BY <1>1, <1>5
<1>. HIDE DEF end
<1>7. SubSeq(order, first + 1, end) # << >> <=> first + 1 <= end
  <2>1. CASE first + 1 <= end
    <3>1. Len(SubSeq(order, first + 1, end)) = end - first
      BY <1>1, <1>2, <1>5, <1>6, <2>1
    <3>. QED  BY <1>1, <1>6, <2>1, <3>1
  <2>2. CASE ~(first + 1 <= end)
    BY <1>1, <1>2, <1>6, <2>2
  <2>. QED  BY <2>1, <2>2
<1>. QED  BY <1>3, <1>4, <1>6, <1>7 DEF first

(* TotalPages counts the pages that have rows.                             *)
LEMMA PagesWithRows ==
  ASSUME NEW n \in Nat, NEW p \in Nat \ {0}
  PROVE  /\ TotalPages(n) \in Int
         /\ Offset(p) < n => p <= TotalPages(n)
         /\ p < TotalPages(n) => Offset(p + 1) < n
<1>. DEFINE q == (n + PageSize - 1) \div PageSize
<1>1. PageSize \in Nat /\ PageSize > 0
  BY RetentionAssumption
<1>2. q \in Int /\ q * PageSize <= n + PageSize - 1 /\ n + PageSize - 1 < q * PageSize + PageSize
  BY <1>1
<1>3. TotalPages(n) = Max({1, q})
  BY DEF TotalPages
<1>. HIDE DEF q
<1>4. TotalPages(n) \in {1, q} /\ TotalPages(n) >= 1 /\ TotalPages(n) >= q
  BY <1>2, <1>3, MaxOfTwo
<1>5. ASSUME Offset(p) < n PROVE p <= q
  <2>1. p * PageSize - PageSize < n /\ p * PageSize \in Int
    BY <1>1, <1>5 DEF Offset
  <2>2. SUFFICES ASSUME p >= q + 1 PROVE FALSE
    BY <1>2
  <2>3. p * PageSize >= (q + 1) * PageSize
    BY <1>1, <1>2, <2>2
  <2>4. (q + 1) * PageSize = q * PageSize + PageSize /\ q * PageSize \in Int
    BY <1>1, <1>2
  <2>. QED  BY <1>1, <1>2, <2>1, <2>3, <2>4
<1>6. ASSUME p < TotalPages(n) PROVE Offset(p + 1) < n
  <2>1. p + 1 <= q
    BY <1>2, <1>4, <1>6
  <2>2. (p + 1) * PageSize <= q * PageSize
    BY <1>1, <1>2, <2>1
  <2>3. (p + 1) * PageSize = p * PageSize + PageSize /\ p * PageSize \in Int /\ q * PageSize \in Int
    BY <1>1, <1>2
  <2>4. Offset(p + 1) = p * PageSize
    BY <1>1 DEF Offset
  <2>. QED  BY <1>1, <1>2, <2>2, <2>3, <2>4
<1>. QED  BY <1>2, <1>4, <1>5, <1>6

LEMMA PageRight ==
  ASSUME FinitelyMany
  PROVE  PageIsRight
<1>. SUFFICES ASSUME NEW f \in Filters, NEW order \in Orders(Found(f)),
                     NEW asked \in 0..(Cardinality(Alerts) + 1),
                     Dashboard(order, asked).rows # << >>
              PROVE  /\ Dashboard(order, asked).total = Cardinality(Found(f))
                     /\ Dashboard(order, asked).page = Max({1, asked})
                     /\ Dashboard(order, asked).hasNext =>
                          Dashboard(order, Dashboard(order, asked).page + 1).rows # << >>
  BY DEF PageIsRight
<1>. DEFINE n == Cardinality(Found(f))
            p == Max({1, asked})
<1>1. n \in Nat
  <2>1. Found(f) \in SUBSET Listed
    BY DEF Found
  <2>. QED  BY <2>1, FS_Subset, FS_CardinalityType DEF FinitelyMany
<1>2. order \in [1..n -> Found(f)]
  BY DEF Orders, SetToSeqs
<1>3. asked \in Int
  OBVIOUS
<1>4. p \in Nat \ {0}
  <2>1. 1 \in Int
    OBVIOUS
  <2>2. Max({1, asked}) \in {1, asked} /\ Max({1, asked}) >= 1
    BY <1>3, <2>1, MaxOfTwo
  <2>. QED  BY <1>3, <2>2
<1>. DEFINE shown == Dashboard(order, asked)
<1>5. /\ shown.rows = ListActiveAlerts(order, p).rows
      /\ shown.total = ListActiveAlerts(order, p).total
      /\ shown.page = Min({p, TotalPages(ListActiveAlerts(order, p).total)})
      /\ shown.hasNext = (shown.page < TotalPages(ListActiveAlerts(order, p).total))
  BY DEF Dashboard
<1>. HIDE DEF n, p
<1>6. Offset(p) < n /\ ListActiveAlerts(order, p).total = n
  <2>1. /\ ListActiveAlerts(order, p).rows # << >> <=> Offset(p) < n
        /\ ListActiveAlerts(order, p).total = IF Offset(p) < n THEN n ELSE 0
    BY <1>1, <1>2, <1>4, PageHasRows
  <2>. QED  BY <1>5, <2>1
<1>7. /\ TotalPages(n) \in Int /\ p <= TotalPages(n)
      /\ p < TotalPages(n) => Offset(p + 1) < n
  BY <1>1, <1>4, <1>6, PagesWithRows
<1>8. shown.page = p
  <2>1. Min({p, TotalPages(n)}) \in {p, TotalPages(n)} /\ Min({p, TotalPages(n)}) <= p
    BY <1>4, <1>7, MinOfTwo
  <2>. QED  BY <1>4, <1>5, <1>6, <1>7, <2>1
<1>9. ASSUME shown.hasNext PROVE Dashboard(order, p + 1).rows # << >>
  <2>1. Offset(p + 1) < n
    BY <1>5, <1>6, <1>7, <1>8, <1>9
  <2>2. Max({1, p + 1}) = p + 1
    <3>1. p + 1 \in Int /\ 1 \in Int /\ p + 1 > 1
      BY <1>4
    <3>2. Max({1, p + 1}) \in {1, p + 1} /\ Max({1, p + 1}) >= p + 1
      BY <3>1, MaxOfTwo
    <3>. QED  BY <3>1, <3>2
  <2>3. Dashboard(order, p + 1).rows = ListActiveAlerts(order, p + 1).rows
    BY <2>2 DEF Dashboard
  <2>4. p + 1 \in Nat \ {0}
    BY <1>4
  <2>5. ListActiveAlerts(order, p + 1).rows # << >> <=> Offset(p + 1) < n
    BY <1>1, <1>2, <2>4, PageHasRows
  <2>. QED  BY <2>1, <2>3, <2>5
<1>. QED  BY <1>5, <1>6, <1>8, <1>9 DEF n, p

(* A page of the dashboard that shows any alerts says which page it is and *)
(* how many alerts there are, and the page it links to has alerts as well  *)
(* (dashboardHandler, ListActiveAlerts).                                   *)
THEOREM PageIsRightAlways == Spec => []PageIsRight
<1>1. RInv => PageIsRight
  BY PageRight DEF RInv
<1>. QED  BY <1>1, RInvAlways, PTL

-----------------------------------------------------------------------------
(* All pages.                                                              *)

(* What h gives along the sequence of sequences is what FlattenSeq gives.  *)
LEMMA FlattenIs ==
  ASSUME NEW N \in Nat \ {0}, NEW seqs, Len(seqs) = N, NEW h,
         h = [i \in 1..N |-> IF i = 1 THEN seqs[i] ELSE h[i - 1] \o seqs[i]]
  PROVE  FlattenSeq(seqs) = h[N]
<1>. DEFINE Flattens(f) == f = [i \in 1..N |-> IF i = 1 THEN seqs[i] ELSE f[i - 1] \o seqs[i]]
            flatten == CHOOSE f : Flattens(f)
<1>1. Flattens(flatten)
  <2>1. Flattens(h)
    OBVIOUS
  <2>. HIDE DEF Flattens
  <2>. QED  BY <2>1
<1>2. FlattenSeq(seqs) = flatten[N]
  BY DEF FlattenSeq
<1>. HIDE DEF flatten
<1>3. \A i \in 1..N : flatten[i] = IF i = 1 THEN seqs[i] ELSE flatten[i - 1] \o seqs[i]
  BY <1>1
<1>4. \A i \in 1..N : h[i] = IF i = 1 THEN seqs[i] ELSE h[i - 1] \o seqs[i]
  OBVIOUS
<1>. DEFINE wrong == {i \in 1..N : flatten[i] # h[i]}
<1>5. SUFFICES ASSUME wrong # {} PROVE FALSE
  <2>1. N \in 1..N
    OBVIOUS
  <2>. QED  BY <1>2, <2>1
<1>6. PICK x \in wrong : \A y \in wrong : ~(<<y, x>> \in OpToRel(<, Nat))
  <2>1. wrong \subseteq Nat
    OBVIOUS
  <2>. HIDE DEF wrong
  <2>. QED  BY <1>5, <2>1, NatLessThanWellFounded, WFMin
<1>7. x \in 1..N /\ flatten[x] # h[x]
  OBVIOUS
<1>8. x # 1
  BY <1>3, <1>4, <1>7
<1>9. x - 1 \in 1..N /\ x - 1 \in Nat /\ x \in Nat /\ x - 1 < x
  <2>. HIDE DEF wrong
  <2>. QED  BY <1>7, <1>8
<1>10. flatten[x - 1] # h[x - 1]
  <2>1. flatten[x] = flatten[x - 1] \o seqs[x]
    BY <1>3, <1>7, <1>8
  <2>2. h[x] = h[x - 1] \o seqs[x]
    BY <1>4, <1>7, <1>8
  <2>. HIDE DEF wrong
  <2>. QED  BY <1>7, <2>1, <2>2
<1>11. <<x - 1, x>> \in OpToRel(<, Nat)
  BY <1>9 DEF OpToRel
<1>12. x - 1 \in wrong
  BY <1>9, <1>10
<1>. QED  BY <1>6, <1>11, <1>12

LEMMA PagesJoin ==
  ASSUME NEW S, NEW n \in Nat, NEW order \in [1..n -> S],
         NEW m \in Nat, NEW e \in Nat, m <= e, e <= n
  PROVE  SubSeq(order, 1, m) \o SubSeq(order, m + 1, e) = SubSeq(order, 1, e)
<1>. DEFINE front == SubSeq(order, 1, m)
            page == SubSeq(order, m + 1, e)
            all == SubSeq(order, 1, e)
<1>1. order \in Seq(S) /\ Len(order) = n
  OBVIOUS
<1>2. front \in Seq(S) /\ Len(front) = m /\ \A j \in 1..m : front[j] = order[j]
  BY <1>1
<1>3. page \in Seq(S) /\ Len(page) = e - m /\ \A j \in 1..(e - m) : page[j] = order[m + j]
  BY <1>1, SubSeqProperties
<1>4. all \in Seq(S) /\ Len(all) = e /\ \A j \in 1..e : all[j] = order[j]
  BY <1>1
<1>. HIDE DEF front, page, all
<1>5. (front \o page) \in Seq(S) /\ Len(front \o page) = e
  <2>1. (front \o page) \in Seq(S) /\ Len(front \o page) = Len(front) + Len(page)
    BY <1>2, <1>3, ConcatProperties
  <2>. QED  BY <1>2, <1>3, <2>1
<1>6. ASSUME NEW j \in 1..e PROVE (front \o page)[j] = all[j]
  <2>1. CASE j <= m
    BY <1>2, <1>3, <1>4, <2>1
  <2>2. CASE j > m
    <3>1. (front \o page)[j] = page[j - m] /\ j - m \in 1..(e - m)
      BY <1>2, <1>3, <2>2
    <3>2. m + (j - m) = j
      OBVIOUS
    <3>. QED  BY <1>3, <1>4, <3>1, <3>2
  <2>3. j <= m \/ j > m
    OBVIOUS
  <2>. QED  BY <2>1, <2>2, <2>3, Zenon
<1>7. front \o page = all
  BY <1>4, <1>5, <1>6
<1>. QED  BY <1>7 DEF front, page, all

LEMMA PagesFlatten ==
  ASSUME NEW S, NEW n \in Nat, NEW order \in [1..n -> S]
  PROVE  order = FlattenSeq([p \in 1..TotalPages(n) |-> Dashboard(order, p).rows])
<1>. DEFINE N == TotalPages(n)
            end(p) == Min({n, p * PageSize})
            seqs == [p \in 1..N |-> Dashboard(order, p).rows]
            h == [p \in 1..N |-> SubSeq(order, 1, end(p))]
<1>1. PageSize \in Nat /\ PageSize > 0 /\ order \in Seq(S) /\ Len(order) = n
  BY RetentionAssumption
<1>2. N \in Nat \ {0}
  <2>1. 1 \in Int /\ (n + PageSize - 1) \div PageSize \in Int
    BY <1>1
  <2>2. N \in {1, (n + PageSize - 1) \div PageSize} /\ N >= 1
    BY <2>1, MaxOfTwo DEF TotalPages
  <2>. QED  BY <2>1, <2>2
<1>. HIDE DEF N
<1>3. ASSUME NEW p \in Nat
      PROVE  /\ end(p) \in Nat /\ end(p) <= n /\ end(p) <= p * PageSize
             /\ end(p) = n \/ end(p) = p * PageSize
  <2>1. n \in Int /\ p * PageSize \in Nat
    BY <1>1
  <2>2. ASSUME NEW a \in Int PROVE Min({n, a}) \in {n, a} /\ Min({n, a}) <= n /\ Min({n, a}) <= a
    BY <2>1, MinOfTwo
  <2>3. end(p) \in {n, p * PageSize} /\ end(p) <= n /\ end(p) <= p * PageSize
    BY <2>1, <2>2
  <2>. QED  BY <2>1, <2>3
<1>4. ASSUME NEW p \in 1..N
      PROVE  seqs[p] = SubSeq(order, (p - 1) * PageSize + 1, end(p))
  <2>1. p \in Int /\ 1 \in Int /\ p >= 1
    BY <1>2
  <2>2. Max({1, p}) = p
    <3>1. Max({1, p}) \in {1, p} /\ Max({1, p}) >= p
      BY <2>1, MaxOfTwo
    <3>. QED  BY <2>1, <3>1
  <2>3. seqs[p] = ListActiveAlerts(order, p).rows
    BY <2>2 DEF Dashboard
  <2>4. Offset(p) = (p - 1) * PageSize /\ Offset(p) + PageSize = p * PageSize
    BY <1>1, <2>1 DEF Offset
  <2>. QED  BY <1>1, <2>3, <2>4 DEF ListActiveAlerts
<1>. HIDE DEF seqs, end
<1>5. ASSUME NEW p \in 1..N, p # 1
      PROVE  SubSeq(order, 1, end(p)) = SubSeq(order, 1, end(p - 1)) \o seqs[p]
  <2>1. p - 1 \in Nat \ {0} /\ p - 1 < N /\ p \in Nat
    BY <1>2, <1>5
  <2>2. Offset((p - 1) + 1) < n
    BY <2>1, PagesWithRows DEF N
  <2>3. (p - 1) * PageSize < n /\ (p - 1) * PageSize \in Nat
    BY <1>1, <2>1, <2>2 DEF Offset
  <2>4. end(p - 1) = (p - 1) * PageSize /\ end(p - 1) \in Nat
    BY <1>3, <2>1, <2>3
  <2>5. end(p) \in Nat /\ end(p) <= n
    BY <1>3, <2>1
  <2>6. end(p - 1) <= end(p)
    <3>1. p * PageSize = (p - 1) * PageSize + PageSize
      BY <1>1, <2>1
    <3>2. end(p) = n \/ end(p) = p * PageSize
      BY <1>3, <2>1
    <3>. QED  BY <1>1, <2>3, <2>4, <3>1, <3>2
  <2>7. SubSeq(order, 1, end(p - 1)) \o SubSeq(order, end(p - 1) + 1, end(p))
          = SubSeq(order, 1, end(p))
    BY <2>4, <2>5, <2>6, PagesJoin
  <2>. QED  BY <1>4, <2>4, <2>7
<1>6. ASSUME 1 \in 1..N PROVE SubSeq(order, 1, end(1)) = seqs[1]
  <2>1. (1 - 1) * PageSize + 1 = 1
    BY <1>1
  <2>. QED  BY <1>4, <1>6, <2>1
<1>7. h = [p \in 1..N |-> IF p = 1 THEN seqs[p] ELSE h[p - 1] \o seqs[p]]
  <2>1. ASSUME NEW p \in 1..N
        PROVE  h[p] = IF p = 1 THEN seqs[p] ELSE h[p - 1] \o seqs[p]
    <3>1. CASE p = 1  BY <1>6, <3>1
    <3>2. CASE p # 1
      <4>1. p - 1 \in 1..N
        BY <1>2, <3>2
      <4>. QED  BY <1>5, <3>2, <4>1
    <3>. QED  BY <3>1, <3>2
  <2>. QED  BY <2>1
<1>8. Len(seqs) = N
  BY <1>2 DEF seqs
<1>9. end(N) = n
  <2>1. n <= N * PageSize
    <3>. DEFINE q == (n + PageSize - 1) \div PageSize
    <3>1. q \in Int /\ 1 \in Int /\ n <= q * PageSize
      BY <1>1
    <3>. HIDE DEF q
    <3>2. N = Max({1, q})
      BY DEF N, TotalPages, q
    <3>3. N >= q
      BY <3>1, <3>2, MaxOfTwo
    <3>4. N * PageSize >= q * PageSize /\ N * PageSize \in Int /\ q * PageSize \in Int
      BY <1>1, <1>2, <3>1, <3>3
    <3>. QED  BY <3>1, <3>4
  <2>2. end(N) \in Nat /\ end(N) <= n /\ (end(N) = n \/ end(N) = N * PageSize)
    BY <1>2, <1>3
  <2>3. N * PageSize \in Int
    BY <1>1, <1>2
  <2>. QED  BY <2>1, <2>2, <2>3
<1>10. h[N] = order
  <2>1. h[N] = SubSeq(order, 1, n)
    BY <1>2, <1>9
  <2>2. order \in Seq(S) /\ Len(order) = n
    OBVIOUS
  <2>3. SubSeq(order, 1, n) = order
    BY <2>2, SubSeqFull
  <2>. QED  BY <2>1, <2>3
<1>11. FlattenSeq(seqs) = h[N]
  <2>. HIDE DEF h
  <2>. QED  BY <1>2, <1>7, <1>8, FlattenIs, ZenonT(40)
<1>. QED  BY <1>10, <1>11 DEF seqs, N

(* Whoever goes through all pages of the dashboard sees every alert once,  *)
(* in the order of the list, if no two of them were seen at the same time  *)
(* (ListActiveAlerts, ORDER BY last_seen DESC LIMIT OFFSET).               *)
THEOREM PagesCoverAlertsAlways == Spec => []PagesCoverAlerts
<1>1. ASSUME FinitelyMany PROVE PagesCoverAlerts
  <2>. SUFFICES ASSUME NEW f \in Filters, NEW order \in Orders(Found(f))
                PROVE  order = FlattenSeq([p \in 1..TotalPages(Len(order)) |->
                                             Dashboard(order, p).rows])
    BY DEF PagesCoverAlerts
  <2>. DEFINE n == Cardinality(Found(f))
  <2>1. n \in Nat
    <3>1. Found(f) \in SUBSET Listed
      BY DEF Found
    <3>. QED  BY <1>1, <3>1, FS_Subset, FS_CardinalityType DEF FinitelyMany
  <2>2. order \in [1..n -> Found(f)]
    BY DEF Orders, SetToSeqs
  <2>. HIDE DEF n
  <2>3. Len(order) = n
    BY <2>1, <2>2
  <2>. QED  BY <2>1, <2>2, <2>3, PagesFlatten
<1>2. RInv => PagesCoverAlerts
  BY <1>1 DEF RInv
<1>. QED  BY <1>2, RInvAlways, PTL
=============================================================================
