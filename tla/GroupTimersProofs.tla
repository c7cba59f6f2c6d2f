------------------------- MODULE GroupTimersProofs -------------------------
(***************************************************************************)
(* Proofs about GroupTimers for any debounce, window, lease, backoff and   *)
(* ticker: a dirty row is claimed in time, whatever events, failures and   *)
(* busy workers there are; and it is not claimed too early.                *)
(***************************************************************************)
EXTENDS GroupTimers, TLAPS

(* The latest a row that is dirty since then becomes due.                  *)
DueWithin == Greatest(Greatest(Interval(Debounce), Interval(MaxWindow)),
                  MaxSend + Interval(BackoffCap))

(* The timer of a row is set no later than DueWithin after it became dirty:    *)
(* events move it up to the window only, and a failure sets it while the   *)
(* claim before the row became dirty lasts.                                *)
RowInTime ==
  /\ row.maxFlushBy <= now + Interval(MaxWindow)
  /\ row.dirty =>
       /\ row.exists /\ waiting <= now
       /\ row.maxFlushBy <= waiting + Interval(MaxWindow)
       /\ row.flushAfter <= waiting + DueWithin

(* A worker ticks in time and is not busy for long; and once the row is    *)
(* due it neither drops a tick nor takes on something else.                *)
WorkerInTime(k) ==
  /\ now <= k.tick /\ k.tick <= now + FlushInterval
  /\ k.at # "idle" => now <= k.until /\ k.until <= now + MaxSend
  /\ k.at = "row" => row.exists
  /\ row.dirty =>
       /\ k.at = "row" => k.until <= waiting + MaxSend
       /\ k.at # "idle" => k.until <= waiting + DueWithin + MaxSend
       /\ ~k.ticked => k.tick <= waiting + DueWithin + FlushInterval

InTime == /\ TypeOK
          /\ RowInTime
          /\ \A w \in Workers : WorkerInTime(worker[w])
          /\ ClaimedInTime

(* What flush_after says of a row that did not fail.                       *)
Debounced ==
  row.dirty /\ row.attempts = 0 =>
     row.flushAfter >= lastEvent + Interval(Debounce) \/ row.flushAfter >= row.maxFlushBy

(* What it says of one that did, with w the only worker: an event since    *)
(* the claim may have reset the attempts, and nothing else changes them.   *)
BackedOff(w) ==
  /\ worker[w].at = "row" => row.attempts <= worker[w].attempts
  /\ row.dirty /\ row.attempts > 0 =>
       row.flushAfter >= lastFail + Interval(Backoff(row.attempts - 1))

-----------------------------------------------------------------------------
(* Arithmetic.                                                             *)

LEMMA IntervalType ==
  ASSUME TimersAssumption, NEW d \in Nat PROVE Interval(d) \in Nat
<1>1. d \div Second \in Nat /\ Second \in Nat
  BY DEF TimersAssumption
<1> HIDE DEF TimersAssumption
<1> QED BY <1>1 DEF Interval

LEMMA IntervalGrows ==
  ASSUME TimersAssumption, NEW c \in Nat, NEW d \in Nat, c <= d
  PROVE  Interval(c) <= Interval(d)
<1>1. Second \in Nat \ {0}
  BY DEF TimersAssumption
<1>2. c \div Second <= d \div Second /\ c \div Second \in Nat /\ d \div Second \in Nat
  BY <1>1
<1> QED BY <1>1, <1>2 DEF Interval

LEMMA BackoffGrows ==
  ASSUME TimersAssumption, NEW i \in Nat, NEW j \in Nat, i <= j
  PROVE  /\ Backoff(i) \in Nat /\ Backoff(i) <= BackoffCap
         /\ Backoff(i) <= Backoff(j)
<1>1. BackoffStep \in Nat /\ BackoffCap \in Nat
  BY DEF TimersAssumption
<1>2. /\ (i + 1) * BackoffStep \in Nat /\ (j + 1) * BackoffStep \in Nat
      /\ (i + 1) * BackoffStep <= (j + 1) * BackoffStep
  BY <1>1
<1> QED BY <1>1, <1>2 DEF Backoff, Least

(* A bound on one of two terms.                                            *)
LEMMA Add ==
  ASSUME NEW a \in Nat, NEW b \in Nat, NEW c \in Nat, NEW d \in Nat, NEW e \in Nat,
         a <= b + c, c + d <= e
  PROVE  a + d <= b + e
OBVIOUS

(* The constants of the bounds.                                            *)
LEMMA Bounds ==
  /\ TimersAssumption
  /\ Interval(Debounce) \in Nat /\ Interval(MaxWindow) \in Nat
  /\ Interval(Lease) \in Nat /\ DueWithin \in Nat
  /\ DueWithin >= Interval(Debounce) /\ DueWithin >= Interval(MaxWindow)
  /\ \A i \in Nat : /\ Backoff(i) \in Nat /\ Interval(Backoff(i)) \in Nat
                    /\ MaxSend + Interval(Backoff(i)) <= DueWithin
  /\ MaxSend \in Nat /\ FlushInterval \in Nat \ {0} /\ Horizon \in Nat /\ MaxEvents \in Nat
  /\ MaxDelay \in Nat /\ MaxDelay >= DueWithin + MaxSend /\ MaxDelay >= DueWithin + FlushInterval
<1>1. TimersAssumption
  BY TimersAssumption
<1>2. /\ Debounce \in Nat /\ MaxWindow \in Nat /\ Lease \in Nat /\ BackoffCap \in Nat
      /\ MaxSend \in Nat /\ FlushInterval \in Nat \ {0} /\ Horizon \in Nat /\ MaxEvents \in Nat
  BY <1>1 DEF TimersAssumption
<1>3. /\ Interval(Debounce) \in Nat /\ Interval(MaxWindow) \in Nat
      /\ Interval(Lease) \in Nat /\ Interval(BackoffCap) \in Nat
  BY <1>1, <1>2, IntervalType
<1>4. /\ DueWithin \in Nat /\ DueWithin >= Interval(Debounce) /\ DueWithin >= Interval(MaxWindow)
      /\ DueWithin >= MaxSend + Interval(BackoffCap)
  BY <1>2, <1>3 DEF DueWithin, Greatest
<1>5. ASSUME NEW i \in Nat
      PROVE  /\ Backoff(i) \in Nat /\ Interval(Backoff(i)) \in Nat
             /\ MaxSend + Interval(Backoff(i)) <= DueWithin
  <2>1. Backoff(i) \in Nat /\ Backoff(i) <= BackoffCap
    BY <1>1, BackoffGrows
  <2>2. Interval(Backoff(i)) \in Nat /\ Interval(Backoff(i)) <= Interval(BackoffCap)
    BY <1>1, <1>2, <2>1, IntervalType, IntervalGrows
  <2> QED BY <1>2, <1>3, <1>4, <2>1, <2>2
<1>6. /\ MaxDelay \in Nat /\ MaxDelay >= DueWithin + MaxSend
      /\ MaxDelay >= DueWithin + FlushInterval
  <2>1. MaxDelay = DueWithin + Greatest(MaxSend, FlushInterval)
    BY DEF MaxDelay, DueWithin
  <2> QED BY <1>2, <1>4, <2>1 DEF Greatest
<1> QED BY <1>1, <1>2, <1>3, <1>4, <1>5, <1>6
-----------------------------------------------------------------------------
(* Types.                                                                  *)

RowType == [exists : BOOLEAN, dirty : BOOLEAN, flushAfter : Nat, maxFlushBy : Nat,
            attempts : Nat]
WorkerType == [at : {"idle", "row", "others"}, attempts : Nat, until : Nat, tick : Nat,
               ticked : BOOLEAN]

LEMMA Fields ==
  ASSUME TypeOK
  PROVE  /\ now \in Nat /\ now <= Horizon
         /\ row \in RowType /\ worker \in [Workers -> WorkerType]
         /\ row.exists \in BOOLEAN /\ row.dirty \in BOOLEAN /\ row.flushAfter \in Nat
         /\ row.maxFlushBy \in Nat /\ row.attempts \in Nat
         /\ \A w \in Workers :
              /\ worker[w] \in WorkerType
              /\ worker[w].at \in {"idle", "row", "others"} /\ worker[w].attempts \in Nat
              /\ worker[w].until \in Nat /\ worker[w].tick \in Nat
              /\ worker[w].ticked \in BOOLEAN
         /\ waiting \in Int /\ lastEvent \in Int /\ lastFail \in Int
         /\ row.dirty => waiting \in Nat
         /\ row.dirty <=> waiting # Never
<1>1. /\ now \in 0..Horizon /\ row \in RowType /\ worker \in [Workers -> WorkerType]
      /\ lastEvent \in Time /\ waiting \in Time /\ lastFail \in Time
      /\ row.dirty <=> waiting # Never
  BY DEF TypeOK, RowType, WorkerType
<1>2. now \in Nat /\ now <= Horizon
  BY <1>1, Bounds
<1>3. /\ row.exists \in BOOLEAN /\ row.dirty \in BOOLEAN /\ row.flushAfter \in Nat
      /\ row.maxFlushBy \in Nat /\ row.attempts \in Nat
  BY <1>1 DEF RowType
<1>4. ASSUME NEW w \in Workers
      PROVE  /\ worker[w] \in WorkerType
             /\ worker[w].at \in {"idle", "row", "others"} /\ worker[w].attempts \in Nat
             /\ worker[w].until \in Nat /\ worker[w].tick \in Nat
             /\ worker[w].ticked \in BOOLEAN
  BY <1>1 DEF WorkerType
<1>5. waiting \in Int /\ lastEvent \in Int /\ lastFail \in Int
      /\ (row.dirty => waiting \in Nat)
  BY <1>1 DEF Time, Never
<1> QED BY <1>1, <1>2, <1>3, <1>4, <1>5

(* What the steps do to the row and to a worker.                           *)
LEMMA UpsertEffect ==
  ASSUME TypeOK, UpsertGroupMember
  PROVE  /\ row'.exists = TRUE /\ row'.dirty = TRUE /\ row'.attempts = 0
         /\ row'.flushAfter = Armed
         /\ row'.maxFlushBy = IF row.exists THEN row.maxFlushBy ELSE now + Interval(MaxWindow)
         /\ Armed \in Nat /\ row' \in RowType
         /\ row.exists => Armed <= row.maxFlushBy
         /\ Armed <= now + Interval(Debounce)
         /\ Armed >= now + Interval(Debounce) \/ Armed >= row'.maxFlushBy
         /\ events' = events + 1 /\ events' \in 0..MaxEvents /\ lastEvent' = now
         /\ waiting' = (IF waiting = Never THEN now ELSE waiting)
         /\ UNCHANGED <<now, worker, lastFail>>
<1>1. /\ row'.exists = TRUE /\ row'.dirty = TRUE /\ row'.attempts = 0
      /\ row'.flushAfter = Armed
      /\ row'.maxFlushBy = IF row.exists THEN row.maxFlushBy ELSE now + Interval(MaxWindow)
  BY DEF UpsertGroupMember
<1>2. /\ Armed \in Nat
      /\ row.exists => Armed <= row.maxFlushBy
      /\ Armed <= now + Interval(Debounce)
      /\ Armed >= now + Interval(Debounce) \/ Armed >= row'.maxFlushBy
  BY <1>1, Fields, Bounds DEF Armed, Least
<1>3. row'.maxFlushBy \in Nat
  BY <1>1, Fields, Bounds
<1>4. row' \in RowType
  BY <1>1, <1>2, <1>3 DEF UpsertGroupMember, RowType
<1>5. events' = events + 1 /\ events' \in 0..MaxEvents
  BY Bounds DEF UpsertGroupMember, TypeOK
<1>6. /\ lastEvent' = now /\ waiting' = (IF waiting = Never THEN now ELSE waiting)
      /\ UNCHANGED <<now, worker, lastFail>>
  BY DEF UpsertGroupMember
<1> QED BY <1>1, <1>2, <1>4, <1>5, <1>6

LEMMA TickEffect ==
  ASSUME TypeOK, NEW w \in Workers, TickerFires(w)
  PROVE  /\ worker'[w].at = worker[w].at /\ worker'[w].attempts = worker[w].attempts
         /\ worker'[w].until = worker[w].until
         /\ now = worker[w].tick /\ worker'[w].tick = worker[w].tick + FlushInterval
         /\ worker'[w].ticked = TRUE /\ worker'[w] \in WorkerType
         /\ \A v \in Workers : v # w => worker'[v] = worker[v]
         /\ worker' \in [Workers -> WorkerType]
         /\ UNCHANGED <<now, row, events, history>>
<1>1. /\ now = worker[w].tick
      /\ worker' = [worker EXCEPT ![w].tick = worker[w].tick + FlushInterval,
                                  ![w].ticked = TRUE]
      /\ UNCHANGED <<now, row, events, history>>
  BY DEF TickerFires
<1>2. worker[w].tick + FlushInterval \in Nat
  BY Fields, Bounds
<1>3. worker'[w] = [worker[w] EXCEPT !.tick = worker[w].tick + FlushInterval, !.ticked = TRUE]
  BY <1>1, Fields
<1>4. /\ worker'[w].at = worker[w].at /\ worker'[w].attempts = worker[w].attempts
      /\ worker'[w].until = worker[w].until
      /\ worker'[w].tick = worker[w].tick + FlushInterval
      /\ worker'[w].ticked = TRUE /\ worker'[w] \in WorkerType
  BY <1>2, <1>3, Fields DEF WorkerType
<1>5. \A v \in Workers : v # w => worker'[v] = worker[v]
  BY <1>1, Fields
<1>6. worker' \in [Workers -> WorkerType]
  BY <1>1, <1>4, <1>5, Fields
<1> QED BY <1>1, <1>4, <1>5, <1>6

LEMMA ClaimEffect ==
  ASSUME TypeOK, NEW w \in Workers, ClaimDueGroups(w)
  PROVE  /\ row'.exists = row.exists /\ row'.dirty = FALSE /\ row'.attempts = row.attempts
         /\ row'.maxFlushBy = row.maxFlushBy /\ row' \in RowType
         /\ worker'[w].at = "row" /\ worker'[w].attempts = row.attempts
         /\ worker'[w].until = now + MaxSend /\ worker'[w].tick = worker[w].tick
         /\ worker'[w].ticked = FALSE /\ worker' \in [Workers -> WorkerType]
         /\ \A v \in Workers : v # w => worker'[v] = worker[v]
         /\ waiting' = Never /\ UNCHANGED <<now, events, lastEvent, lastFail>>
<1>1. /\ row' = [row EXCEPT !.dirty = FALSE, !.flushAfter = now + Interval(Lease)]
      /\ worker' = [worker EXCEPT ![w].ticked = FALSE, ![w].at = "row",
                                  ![w].attempts = row.attempts, ![w].until = now + MaxSend]
      /\ waiting' = Never /\ UNCHANGED <<now, events, lastEvent, lastFail>>
  BY DEF ClaimDueGroups
<1>2. now + Interval(Lease) \in Nat /\ now + MaxSend \in Nat
  BY Fields, Bounds
<1>3. /\ row'.exists = row.exists /\ row'.dirty = FALSE /\ row'.attempts = row.attempts
      /\ row'.maxFlushBy = row.maxFlushBy /\ row' \in RowType
  BY <1>1, <1>2, Fields DEF RowType
<1>4. worker'[w] = [worker[w] EXCEPT !.ticked = FALSE, !.at = "row",
                                     !.attempts = row.attempts, !.until = now + MaxSend]
  BY <1>1, Fields
<1>5. /\ worker'[w].at = "row" /\ worker'[w].attempts = row.attempts
      /\ worker'[w].until = now + MaxSend /\ worker'[w].tick = worker[w].tick
      /\ worker'[w].ticked = FALSE /\ worker'[w] \in WorkerType
  BY <1>2, <1>4, Fields DEF WorkerType
<1>6. \A v \in Workers : v # w => worker'[v] = worker[v]
  BY <1>1, Fields
<1>7. worker' \in [Workers -> WorkerType]
  BY <1>1, <1>5, <1>6, Fields
<1> QED BY <1>1, <1>3, <1>5, <1>6, <1>7

LEMMA OthersEffect ==
  ASSUME TypeOK, NEW w \in Workers, ClaimsOthers(w)
  PROVE  /\ worker'[w].at = "idle" \/ (worker'[w].at = "others" /\ worker'[w].until = now + MaxSend)
         /\ worker'[w].tick = worker[w].tick
         /\ worker'[w].ticked = FALSE /\ worker' \in [Workers -> WorkerType]
         /\ \A v \in Workers : v # w => worker'[v] = worker[v]
         /\ UNCHANGED <<now, row, events, history>>
<1>0. worker[w].at = "idle" /\ now + MaxSend \in Nat /\ worker[w] \in WorkerType
      /\ worker \in [Workers -> WorkerType]
  BY Fields, Bounds DEF ClaimsOthers, Ready
<1>1. CASE worker' = [worker EXCEPT ![w].ticked = FALSE]
  <2>1. worker'[w] = [worker[w] EXCEPT !.ticked = FALSE]
        /\ \A v \in Workers : v # w => worker'[v] = worker[v]
    BY <1>0, <1>1
  <2>2. /\ worker'[w].at = "idle" /\ worker'[w].tick = worker[w].tick
        /\ worker'[w].ticked = FALSE /\ worker'[w] \in WorkerType
    BY <1>0, <2>1 DEF WorkerType
  <2> QED BY <1>0, <1>1, <2>1, <2>2 DEF ClaimsOthers
<1>2. CASE worker' = [worker EXCEPT ![w].ticked = FALSE, ![w].at = "others",
                                    ![w].until = now + MaxSend]
  <2>1. worker'[w] = [worker[w] EXCEPT !.ticked = FALSE, !.at = "others", !.until = now + MaxSend]
        /\ \A v \in Workers : v # w => worker'[v] = worker[v]
    BY <1>0, <1>2
  <2>2. /\ worker'[w].at = "others" /\ worker'[w].until = now + MaxSend
        /\ worker'[w].tick = worker[w].tick
        /\ worker'[w].ticked = FALSE /\ worker'[w] \in WorkerType
    BY <1>0, <2>1 DEF WorkerType
  <2> QED BY <1>0, <1>2, <2>1, <2>2 DEF ClaimsOthers
<1> QED BY <1>1, <1>2 DEF ClaimsOthers

LEMMA LeavesEffect ==
  ASSUME TypeOK, NEW w \in Workers, Leaves(w)
  PROVE  /\ worker'[w].at = "idle" /\ worker'[w].tick = worker[w].tick
         /\ worker'[w].ticked = worker[w].ticked /\ worker' \in [Workers -> WorkerType]
         /\ \A v \in Workers : v # w => worker'[v] = worker[v]
<1>1. /\ worker'[w] = [worker[w] EXCEPT !.at = "idle", !.attempts = 0, !.until = 0]
      /\ \A v \in Workers : v # w => worker'[v] = worker[v]
  BY Fields DEF Leaves
<1> DEFINE k == worker[w]
           n == [k EXCEPT !.at = "idle", !.attempts = 0, !.until = 0]
<1>2. k \in WorkerType
  BY Fields
<1> HIDE DEF k
<1>3. n.at = "idle" /\ n.tick = k.tick /\ n.ticked = k.ticked /\ n \in WorkerType
  BY <1>2 DEF WorkerType
<1>4. worker'[w] = n
  BY <1>1 DEF k
<1> QED BY <1>1, <1>3, <1>4, Fields DEF Leaves, k

LEMMA FailedEffect ==
  ASSUME TypeOK, NEW w \in Workers, SaveGroupProgressFailed(w)
  PROVE  /\ worker[w].at = "row" /\ Leaves(w)
         /\ row'.exists = row.exists /\ row'.dirty = TRUE /\ row'.attempts = row.attempts + 1
         /\ row'.flushAfter = now + Interval(Backoff(worker[w].attempts))
         /\ row'.maxFlushBy = row.maxFlushBy /\ row' \in RowType
         /\ waiting' = (IF waiting = Never THEN now ELSE waiting) /\ lastFail' = now
         /\ UNCHANGED <<now, events, lastEvent>>
<1>1. now + Interval(Backoff(worker[w].attempts)) \in Nat /\ row.attempts + 1 \in Nat
  BY Fields, Bounds
<1> DEFINE due == now + Interval(Backoff(worker[w].attempts))
<1>2. row' = [row EXCEPT !.dirty = TRUE, !.attempts = row.attempts + 1, !.flushAfter = due]
  BY DEF SaveGroupProgressFailed
<1> HIDE DEF due
<1>3. /\ row'.exists = row.exists /\ row'.dirty = TRUE /\ row'.attempts = row.attempts + 1
      /\ row'.flushAfter = due
      /\ row'.maxFlushBy = row.maxFlushBy /\ row' \in RowType
  BY <1>1, <1>2, Fields DEF RowType, due
<1> QED BY <1>3 DEF SaveGroupProgressFailed, due
-----------------------------------------------------------------------------
(* Every step keeps InTime.                                                *)

LEMMA InTimeInit == ASSUME Init PROVE InTime
<1>1. /\ now = 0 /\ row = NoRow /\ events = 0
      /\ lastEvent = Never /\ waiting = Never /\ lastFail = Never
      /\ worker \in [Workers -> [at : {"idle"}, attempts : {0}, until : {0},
                                  tick : 1..FlushInterval, ticked : {FALSE}]]
  BY DEF Init
<1>2. \A w \in Workers : /\ worker[w].at = "idle" /\ worker[w].tick \in 1..FlushInterval
                         /\ worker[w] \in WorkerType
  <2>1. FlushInterval \in Nat
    BY Bounds
  <2>2. ASSUME NEW k \in [at : {"idle"}, attempts : {0}, until : {0}, tick : 1..FlushInterval,
                          ticked : {FALSE}]
        PROVE  k.at = "idle" /\ k.tick \in 1..FlushInterval /\ k \in WorkerType
    <3>1. k.at = "idle" /\ k.attempts = 0 /\ k.until = 0 /\ k.tick \in 1..FlushInterval
      OBVIOUS
    <3>2. k.ticked \in BOOLEAN
      OBVIOUS
    <3>3. k.tick \in Nat
      BY <2>1, <3>1
    <3> QED BY <3>1, <3>2, <3>3 DEF WorkerType
  <2> QED BY <1>1, <2>2
<1>3. /\ NoRow.dirty = FALSE /\ NoRow.maxFlushBy = 0 /\ NoRow \in RowType
  BY DEF NoRow, RowType
<1>4. TypeOK
  BY <1>1, <1>2, <1>3, Bounds DEF TypeOK, Time, RowType, WorkerType
<1>5. RowInTime
  BY <1>1, <1>3, Bounds DEF RowInTime
<1>6. ASSUME NEW w \in Workers PROVE WorkerInTime(worker[w])
  <2>1. worker[w].tick \in Nat /\ 0 <= worker[w].tick /\ worker[w].tick <= 0 + FlushInterval
    BY <1>2, Bounds
  <2> QED BY <1>1, <1>2, <1>3, <2>1 DEF WorkerInTime
<1>7. ClaimedInTime
  BY <1>1, <1>3 DEF ClaimedInTime
<1> QED BY <1>4, <1>5, <1>6, <1>7 DEF InTime

LEMMA InTimeUpsert == ASSUME InTime, UpsertGroupMember PROVE InTime'
<1>0. TypeOK /\ RowInTime /\ ClaimedInTime
  BY DEF InTime
<1>1. waiting' \in Nat /\ waiting' <= now
  BY <1>0, UpsertEffect, Fields DEF RowInTime, Never
<1>2. TypeOK'
  <2>1. lastEvent' \in Time /\ waiting' \in Time /\ waiting' # Never
    BY <1>0, <1>1, UpsertEffect, Fields DEF Time, Never
  <2> QED BY <1>0, <2>1, UpsertEffect DEF TypeOK, RowType
<1>3. RowInTime'
  <2>1. row'.maxFlushBy <= now + Interval(MaxWindow) /\ row'.maxFlushBy \in Nat
    BY <1>0, UpsertEffect, Fields, Bounds DEF RowInTime
  <2>2. row'.maxFlushBy <= waiting' + Interval(MaxWindow)
    <3>1. CASE row.dirty
      BY <1>0, <3>1, UpsertEffect, Fields, Bounds DEF RowInTime
    <3>2. CASE ~row.dirty
      BY <1>0, <2>1, <3>2, UpsertEffect, Fields
    <3> QED BY <3>1, <3>2
  <2>3. row'.flushAfter <= waiting' + DueWithin
    <3>1. CASE row.dirty
      <4>1. row'.flushAfter <= row'.maxFlushBy
        BY <1>0, <3>1, UpsertEffect DEF RowInTime
      <4> QED BY <1>0, <1>1, <2>1, <2>2, <4>1, UpsertEffect, Bounds
    <3>2. CASE ~row.dirty
      BY <1>0, <3>2, UpsertEffect, Fields, Bounds
    <3> QED BY <3>1, <3>2
  <2> QED BY <1>0, <1>1, <2>1, <2>2, <2>3, UpsertEffect DEF RowInTime
<1>4. ASSUME NEW w \in Workers PROVE WorkerInTime(worker[w])'
  <2>1. WorkerInTime(worker[w])
    BY DEF InTime
  <2>2. worker' = worker /\ now' = now /\ row'.exists
    BY <1>0, UpsertEffect
  <2>3. CASE row.dirty
    BY <1>0, <2>1, <2>2, <2>3, UpsertEffect, Fields DEF WorkerInTime
  <2>4. CASE ~row.dirty
    <3>1. waiting' = now
      BY <1>0, <2>4, UpsertEffect, Fields
    <3> QED BY <1>0, <2>1, <2>2, <3>1, Fields, Bounds DEF WorkerInTime
  <2> QED BY <1>0, <2>3, <2>4, Fields
<1>5. ClaimedInTime'
  BY <1>0, <1>1, UpsertEffect, Fields, Bounds DEF ClaimedInTime
<1> QED BY <1>2, <1>3, <1>4, <1>5 DEF InTime

(* A step of w that leaves the row and the clock alone.                    *)
LEMMA InTimeWorker ==
  ASSUME InTime, UNCHANGED <<now, row, events, history>>, NEW w \in Workers,
         worker' \in [Workers -> WorkerType],
         \A v \in Workers : v # w => worker'[v] = worker[v],
         WorkerInTime(worker'[w])
  PROVE  InTime'
<1>1. /\ now' = now /\ row' = row /\ events' = events /\ lastEvent' = lastEvent
      /\ waiting' = waiting /\ lastFail' = lastFail
  BY DEF history
<1>2. TypeOK' /\ RowInTime' /\ ClaimedInTime'
  BY <1>1 DEF InTime, TypeOK, RowInTime, ClaimedInTime, WorkerType
<1>3. ASSUME NEW v \in Workers PROVE WorkerInTime(worker[v])'
  <2>1. WorkerInTime(worker'[v])
    BY DEF InTime
  <2> QED BY <1>1, <2>1 DEF WorkerInTime
<1> QED BY <1>2, <1>3 DEF InTime

LEMMA InTimeTick == ASSUME InTime, NEW w \in Workers, TickerFires(w) PROVE InTime'
<1>1. TypeOK /\ WorkerInTime(worker[w])
  BY DEF InTime
<1>2. WorkerInTime(worker'[w])
  <2>1. /\ now <= worker'[w].tick /\ worker'[w].tick <= now + FlushInterval
        /\ worker'[w].ticked
    <3>1. now \in Nat /\ FlushInterval \in Nat /\ worker[w].tick = now
          /\ worker'[w].tick = now + FlushInterval
      BY <1>1, TickEffect, Fields, Bounds
    <3>2. worker'[w].ticked
      BY <1>1, TickEffect
    <3> QED BY <3>1, <3>2
  <2> QED BY <1>1, <2>1, TickEffect DEF WorkerInTime
<1> QED BY <1>1, <1>2, TickEffect, InTimeWorker

LEMMA InTimeOthers == ASSUME InTime, NEW w \in Workers, ClaimsOthers(w) PROVE InTime'
<1>1. TypeOK /\ RowInTime /\ WorkerInTime(worker[w])
  BY DEF InTime
<1>2. row.dirty => now < waiting + DueWithin
  <2> SUFFICES ASSUME row.dirty PROVE now < waiting + DueWithin
    OBVIOUS
  <2>1. ~(row.flushAfter <= now) /\ row.flushAfter <= waiting + DueWithin
    BY <1>1 DEF ClaimsOthers, Due, RowInTime
  <2> QED BY <1>1, <2>1, Fields, Bounds
<1>3. WorkerInTime(worker'[w])
  <2>0. /\ now \in Nat /\ MaxSend \in Nat /\ FlushInterval \in Nat /\ DueWithin \in Nat
        /\ waiting \in Int /\ worker[w].tick \in Nat
    BY <1>1, Fields, Bounds
  <2>1. /\ now <= worker'[w].tick /\ worker'[w].tick <= now + FlushInterval
        /\ row.dirty => worker'[w].tick <= waiting + DueWithin + FlushInterval
    <3>1. worker'[w].tick = worker[w].tick /\ now <= worker[w].tick
          /\ worker[w].tick <= now + FlushInterval
      BY <1>1, OthersEffect DEF WorkerInTime
    <3> QED BY <1>2, <2>0, <3>1
  <2>2. worker'[w].at # "idle" =>
          /\ now <= worker'[w].until /\ worker'[w].until <= now + MaxSend
          /\ row.dirty => worker'[w].until <= waiting + DueWithin + MaxSend
    <3>1. worker'[w].at # "idle" => worker'[w].until = now + MaxSend
      BY <1>1, OthersEffect
    <3> QED BY <1>2, <2>0, <3>1
  <2>3. worker'[w].at # "row"
    BY <1>1, OthersEffect
  <2> QED BY <2>1, <2>2, <2>3 DEF WorkerInTime
<1> QED BY <1>1, <1>3, OthersEffect, InTimeWorker

LEMMA InTimeSavesOthers == ASSUME InTime, NEW w \in Workers, SavesOthers(w) PROVE InTime'
<1>1. TypeOK /\ WorkerInTime(worker[w]) /\ Leaves(w) /\ UNCHANGED <<now, row, events, history>>
  BY DEF InTime, SavesOthers
<1>2. WorkerInTime(worker'[w])
  BY <1>1, LeavesEffect, Fields DEF WorkerInTime
<1> QED BY <1>1, <1>2, LeavesEffect, InTimeWorker

(* The claim and the successful save leave a clean row.                    *)
LEMMA InTimeClean ==
  ASSUME InTime, NEW w \in Workers, ClaimDueGroups(w) \/ SaveGroupProgress(w)
  PROVE  InTime'
<1>0. TypeOK /\ RowInTime /\ \A v \in Workers : WorkerInTime(worker[v])
  BY DEF InTime
<1>1. /\ row' \in RowType /\ row'.dirty = FALSE /\ row'.exists = row.exists
      /\ row'.maxFlushBy = row.maxFlushBy
  <2>1. CASE ClaimDueGroups(w)
    BY <1>0, <2>1, ClaimEffect
  <2>2. CASE SaveGroupProgress(w)
    BY <1>0, <2>2, Fields DEF SaveGroupProgress, RowType
  <2> QED BY <2>1, <2>2
<1>2. waiting' = Never /\ UNCHANGED <<now, events, lastEvent, lastFail>>
  BY DEF ClaimDueGroups, SaveGroupProgress
<1>3. /\ worker' \in [Workers -> WorkerType]
      /\ \A v \in Workers : v # w => worker'[v] = worker[v]
      /\ worker'[w].tick = worker[w].tick
      /\ worker'[w].at = "idle"
         \/ (worker'[w].at = "row" /\ worker'[w].until = now + MaxSend /\ row.exists)
  <2>1. CASE ClaimDueGroups(w)
    <3>1. row.exists
      BY <1>0, <2>1 DEF ClaimDueGroups, Due, RowInTime
    <3> QED BY <1>0, <2>1, <3>1, ClaimEffect
  <2>2. CASE SaveGroupProgress(w)
    BY <1>0, <2>2, LeavesEffect DEF SaveGroupProgress
  <2> QED BY <2>1, <2>2
<1>4. TypeOK'
  BY <1>0, <1>1, <1>2, <1>3 DEF TypeOK, Time, RowType, WorkerType
<1>5. RowInTime' /\ ClaimedInTime'
  BY <1>0, <1>1, <1>2 DEF RowInTime, ClaimedInTime
<1>6. ASSUME NEW v \in Workers PROVE WorkerInTime(worker[v])'
  <2>1. CASE v # w
    BY <1>0, <1>1, <1>2, <1>3, <2>1 DEF WorkerInTime
  <2>2. CASE v = w
    BY <1>0, <1>1, <1>2, <1>3, <2>2, Fields, Bounds DEF WorkerInTime
  <2> QED BY <2>1, <2>2
<1> QED BY <1>4, <1>5, <1>6 DEF InTime

LEMMA InTimeFailed == ASSUME InTime, NEW w \in Workers, SaveGroupProgressFailed(w) PROVE InTime'
<1>0. /\ TypeOK /\ RowInTime /\ ClaimedInTime /\ \A v \in Workers : WorkerInTime(worker[v])
      /\ worker[w].at = "row" /\ Leaves(w)
  BY FailedEffect DEF InTime
<1>1. /\ waiting' \in Nat /\ waiting' <= now /\ now <= waiting' + MaxSend
      /\ row.dirty => waiting' = waiting
      /\ ~row.dirty => waiting' = now
  <2>0. now \in Nat /\ MaxSend \in Nat
    BY <1>0, Fields, Bounds
  <2>1. CASE row.dirty
    <3>1. waiting' = waiting /\ waiting \in Nat
      BY <1>0, <2>1, FailedEffect, Fields
    <3>2. waiting <= now /\ now <= worker[w].until /\ worker[w].until <= waiting + MaxSend
      BY <1>0, <2>1 DEF RowInTime, WorkerInTime
    <3>3. worker[w].until \in Nat
      BY <1>0, Fields
    <3> QED BY <2>0, <2>1, <3>1, <3>2, <3>3
  <2>2. CASE ~row.dirty
    <3>1. waiting' = now
      BY <1>0, <2>2, FailedEffect, Fields
    <3> QED BY <2>0, <2>2, <3>1
  <2> QED BY <2>1, <2>2
<1>2. TypeOK'
  <2>1. lastFail' \in Time /\ waiting' \in Time /\ waiting' # Never
    <3>1. lastFail' = now /\ now \in Nat
      BY <1>0, FailedEffect, Fields
    <3> QED BY <1>1, <3>1 DEF Time, Never
  <2> QED BY <1>0, <2>1, FailedEffect, LeavesEffect DEF TypeOK, RowType, WorkerType
<1>3. RowInTime'
  <2>1. row'.flushAfter <= waiting' + DueWithin
    <3>1. PICK delay \in Nat : /\ row'.flushAfter = now + delay
                              /\ MaxSend + delay <= DueWithin
      BY <1>0, FailedEffect, Fields, Bounds
    <3>2. now \in Nat /\ MaxSend \in Nat /\ DueWithin \in Nat
      BY <1>0, Fields, Bounds
    <3>3. waiting' \in Nat /\ now <= waiting' + MaxSend
      BY <1>1
    <3>4. now + delay <= waiting' + DueWithin
      BY <3>1, <3>2, <3>3, Add
    <3> QED BY <3>1, <3>4
  <2>2. row.maxFlushBy <= waiting' + Interval(MaxWindow)
    BY <1>0, <1>1, Fields DEF RowInTime
  <2>3. row.exists
    BY <1>0 DEF WorkerInTime
  <2> QED BY <1>0, <1>1, <2>1, <2>2, <2>3, FailedEffect DEF RowInTime
<1>4. ASSUME NEW v \in Workers PROVE WorkerInTime(worker[v])'
  <2>1. WorkerInTime(worker[v])
    BY <1>0
  <2>2. /\ now' = now /\ row'.exists = row.exists /\ row'.dirty
        /\ worker'[v].tick = worker[v].tick /\ worker'[v].ticked = worker[v].ticked
        /\ worker'[v].at = "idle"
           \/ (worker'[v].at = worker[v].at /\ worker'[v].until = worker[v].until)
    BY <1>0, FailedEffect, LeavesEffect
  <2>3. CASE row.dirty
    BY <1>0, <1>1, <2>1, <2>2, <2>3, Fields DEF WorkerInTime
  <2>4. CASE ~row.dirty
    BY <1>0, <1>1, <2>1, <2>2, <2>4, Fields, Bounds DEF WorkerInTime
  <2> QED BY <1>0, <2>3, <2>4, Fields
<1>5. ClaimedInTime'
  BY <1>0, <1>1, FailedEffect, Fields, Bounds DEF ClaimedInTime
<1> QED BY <1>2, <1>3, <1>4, <1>5 DEF InTime

(* Time stands still once the row has waited for MaxDelay: it is due, so   *)
(* a worker that is idle claims it when it ticks, and one that is busy is  *)
(* done by then.                                                           *)
LEMMA InTimePasses == ASSUME InTime, TimePasses PROVE InTime'
<1>0. TypeOK /\ RowInTime /\ ClaimedInTime /\ \A v \in Workers : WorkerInTime(worker[v])
  BY DEF InTime
<1>1. /\ now' = now + 1 /\ now < Horizon /\ row' = row /\ worker' = worker /\ events' = events
      /\ lastEvent' = lastEvent /\ waiting' = waiting /\ lastFail' = lastFail
  BY DEF TimePasses, history
<1>2. TypeOK'
  BY <1>0, <1>1, Bounds DEF TypeOK
<1>3. RowInTime'
  BY <1>0, <1>1, Fields, Bounds DEF RowInTime
<1>4. ASSUME NEW v \in Workers PROVE WorkerInTime(worker[v])'
  <2>1. WorkerInTime(worker[v]) /\ now < worker[v].tick
        /\ (worker[v].at # "idle" => now < worker[v].until)
    BY <1>0 DEF TimePasses
  <2> QED BY <1>0, <1>1, <2>1, Fields, Bounds DEF WorkerInTime
<1>5. ClaimedInTime'
  <2> SUFFICES ASSUME row.dirty PROVE now < waiting + MaxDelay
    BY <1>0, <1>1, Fields, Bounds DEF ClaimedInTime
  <2>1. PICK w \in Workers : TRUE
    BY Bounds DEF TimersAssumption
  <2>2. /\ WorkerInTime(worker[w]) /\ now < worker[w].tick /\ ~Ready(w)
        /\ worker[w].at # "idle" => now < worker[w].until
    BY <1>0 DEF TimePasses
  <2>3. CASE worker[w].at # "idle"
    BY <1>0, <2>2, <2>3, Fields, Bounds DEF WorkerInTime
  <2>4. CASE worker[w].at = "idle"
    <3>1. ~worker[w].ticked
      BY <2>2, <2>4 DEF Ready
    <3> QED BY <1>0, <2>2, <3>1, Fields, Bounds DEF WorkerInTime
  <2> QED BY <2>3, <2>4
<1> QED BY <1>2, <1>3, <1>4, <1>5 DEF InTime

LEMMA InTimeNext == ASSUME InTime, [Next]_vars PROVE InTime'
<1>1. CASE UNCHANGED vars
  BY <1>1 DEF vars, InTime, TypeOK, RowInTime, WorkerInTime, ClaimedInTime
<1> QED BY <1>1, InTimeUpsert, InTimeTick, InTimeOthers, InTimeSavesOthers, InTimeClean,
           InTimeFailed, InTimePasses DEF Next

-----------------------------------------------------------------------------
(* Theorems.                                                               *)

(* InTime is inductive.                                                    *)
THEOREM InTimeAlways == Spec => []InTime
<1>1. Init => InTime
  BY InTimeInit
<1>2. InTime /\ [Next]_vars => InTime'
  BY InTimeNext
<1> QED BY <1>1, <1>2, PTL DEF Spec

(* The variables have their types, and only a dirty row waits.             *)
THEOREM TypeCorrect == Spec => []TypeOK
<1>1. InTime => TypeOK
  BY DEF InTime
<1> QED BY <1>1, InTimeAlways, PTL

(* A dirty row never waits longer than MaxDelay for its claim, whatever    *)
(* events come, flushes fail and other groups keep the workers busy.       *)
THEOREM ClaimedInTimeAlways == Spec => []ClaimedInTime
<1>1. InTime => ClaimedInTime
  BY DEF InTime
<1> QED BY <1>1, InTimeAlways, PTL
(* The timer of a row that did not fail is the debounce of its last event, *)
(* or the end of the window.                                               *)
LEMMA DebouncedNext ==
  ASSUME TypeOK, Debounced, [Next]_vars PROVE Debounced'
<1>1. CASE UpsertGroupMember
  BY <1>1, UpsertEffect DEF Debounced
<1>2. ASSUME NEW w \in Workers, ClaimDueGroups(w) \/ SaveGroupProgress(w) PROVE Debounced'
  <2>1. row'.dirty = FALSE
    BY <1>2, ClaimEffect, Fields DEF SaveGroupProgress, RowType
  <2> QED BY <2>1 DEF Debounced
<1>3. ASSUME NEW w \in Workers, SaveGroupProgressFailed(w) PROVE Debounced'
  <2>1. row'.attempts = row.attempts + 1 /\ row.attempts \in Nat
    BY <1>3, FailedEffect, Fields
  <2>2. row'.attempts # 0
    BY <2>1
  <2> QED BY <2>2 DEF Debounced
<1>4. CASE row' = row /\ lastEvent' = lastEvent
  BY <1>4 DEF Debounced
<1>5. ASSUME NEW w \in Workers, TickerFires(w) \/ ClaimsOthers(w) \/ SavesOthers(w) PROVE Debounced'
  BY <1>4, <1>5 DEF TickerFires, ClaimsOthers, SavesOthers, history
<1>6. CASE TimePasses \/ UNCHANGED vars
  BY <1>4, <1>6 DEF TimePasses, vars, history
<1> QED BY <1>1, <1>2, <1>3, <1>5, <1>6 DEF Next

(* A row that did not fail is not claimed before the debounce of its last  *)
(* event, or its window, is over.                                          *)
THEOREM DebounceOrWindowAlways == Spec => DebounceOrWindow
<1> DEFINE Kept == \A w \in Workers : ClaimDueGroups(w) /\ row.attempts = 0 =>
                     now >= lastEvent + Interval(Debounce) \/ now >= row.maxFlushBy
<1>1. Init => Debounced
  BY DEF Init, NoRow, Debounced
<1>2. TypeOK /\ Debounced /\ [Next]_vars => Debounced'
  BY DebouncedNext
<1>3. TypeOK /\ Debounced => Kept
  <2> SUFFICES ASSUME TypeOK, Debounced, NEW w \in Workers, ClaimDueGroups(w), row.attempts = 0
               PROVE  now >= lastEvent + Interval(Debounce) \/ now >= row.maxFlushBy
    OBVIOUS
  <2>1. row.flushAfter <= now /\ row.dirty
    BY DEF ClaimDueGroups, Due
  <2>2. row.flushAfter >= lastEvent + Interval(Debounce) \/ row.flushAfter >= row.maxFlushBy
    BY <2>1 DEF Debounced
  <2>3. /\ now \in Nat /\ row.flushAfter \in Nat /\ row.maxFlushBy \in Nat
        /\ lastEvent + Interval(Debounce) \in Int
    BY Fields, Bounds
  <2> QED BY <2>1, <2>2, <2>3
<1> HIDE DEF Kept
<1>4. Spec => [][Kept]_vars
  BY <1>1, <1>2, <1>3, TypeCorrect, PTL DEF Spec
<1> QED BY <1>4 DEF Kept, DebounceOrWindow

LEMMA BackedOffNext ==
  ASSUME NEW w, Workers = {w}, TypeOK, BackedOff(w), [Next]_vars PROVE BackedOff(w)'
<1>0. w \in Workers /\ row.attempts \in Nat /\ worker[w].attempts \in Nat
  BY Fields
<1>1. CASE UpsertGroupMember
  <2>1. row'.attempts = 0 /\ worker' = worker
    BY <1>1, UpsertEffect
  <2> QED BY <1>0, <2>1 DEF BackedOff
<1>2. CASE ClaimDueGroups(w)
  <2>1. row'.dirty = FALSE /\ row'.attempts = row.attempts /\ worker'[w].attempts = row.attempts
    BY <1>0, <1>2, ClaimEffect
  <2> QED BY <1>0, <2>1 DEF BackedOff
<1>3. CASE SaveGroupProgress(w)
  <2>1. row'.dirty = FALSE /\ worker'[w].at = "idle"
    BY <1>0, <1>3, LeavesEffect, Fields DEF SaveGroupProgress, RowType
  <2> QED BY <2>1 DEF BackedOff
<1>4. CASE SaveGroupProgressFailed(w)
  <2> DEFINE i == row.attempts
             j == worker[w].attempts
  <2>1. i \in Nat /\ j \in Nat /\ i <= j
    BY <1>0, <1>4 DEF BackedOff, SaveGroupProgressFailed
  <2>2. /\ row'.attempts = i + 1 /\ row'.flushAfter = now + Interval(Backoff(j))
        /\ lastFail' = now /\ worker'[w].at = "idle" /\ now \in Nat
    BY <1>0, <1>4, FailedEffect, LeavesEffect, Fields
  <2> HIDE DEF i, j
  <2>3. Backoff(i) \in Nat /\ Backoff(j) \in Nat /\ Backoff(i) <= Backoff(j)
    BY <2>1, Bounds, BackoffGrows
  <2>4. /\ Interval(Backoff(i)) \in Nat /\ Interval(Backoff(j)) \in Nat
        /\ Interval(Backoff(i)) <= Interval(Backoff(j))
    BY <2>3, Bounds, IntervalType, IntervalGrows
  <2>5. row'.attempts - 1 = i
    BY <2>1, <2>2
  <2>6. row'.flushAfter >= lastFail' + Interval(Backoff(row'.attempts - 1))
    BY <2>2, <2>4, <2>5
  <2> QED BY <2>2, <2>6 DEF BackedOff
<1>5. CASE TickerFires(w)
  <2>1. /\ row' = row /\ lastFail' = lastFail /\ worker'[w].at = worker[w].at
        /\ worker'[w].attempts = worker[w].attempts
    BY <1>0, <1>5, TickEffect DEF history
  <2> QED BY <2>1 DEF BackedOff
<1>6. CASE ClaimsOthers(w) \/ SavesOthers(w)
  <2>1. row' = row /\ lastFail' = lastFail /\ worker'[w].at # "row"
    BY <1>0, <1>6, OthersEffect, LeavesEffect DEF SavesOthers, history
  <2> QED BY <2>1 DEF BackedOff
<1>7. CASE TimePasses \/ UNCHANGED vars
  <2>1. row' = row /\ lastFail' = lastFail /\ worker' = worker
    BY <1>7 DEF TimePasses, vars, history
  <2> QED BY <2>1 DEF BackedOff
<1> QED BY <1>1, <1>2, <1>3, <1>4, <1>5, <1>6, <1>7 DEF Next

(* With one worker, a row that failed several times in a row is not        *)
(* claimed before the backoff of that many failures is over, whatever      *)
(* events come in between.                                                 *)
THEOREM BackoffIsKeptByOne ==
  ASSUME NEW one, Workers = {one} PROVE Spec => BackoffIsKept
<1> DEFINE Kept == \A w \in Workers : ClaimDueGroups(w) /\ row.attempts > 0 =>
                     now >= lastFail + Interval(Backoff(row.attempts - 1))
<1>1. Init => BackedOff(one)
  <2> SUFFICES ASSUME Init PROVE BackedOff(one)
    OBVIOUS
  <2>1. row.dirty = FALSE /\ worker[one].at = "idle"
    BY DEF Init, NoRow
  <2> QED BY <2>1 DEF BackedOff
<1>2. TypeOK /\ BackedOff(one) /\ [Next]_vars => BackedOff(one)'
  BY BackedOffNext
<1>3. TypeOK /\ BackedOff(one) => Kept
  <2> SUFFICES ASSUME TypeOK, BackedOff(one), NEW w \in Workers, ClaimDueGroups(w), row.attempts > 0
               PROVE  now >= lastFail + Interval(Backoff(row.attempts - 1))
    OBVIOUS
  <2>1. row.flushAfter <= now /\ row.dirty
    BY DEF ClaimDueGroups, Due
  <2>2. row.flushAfter >= lastFail + Interval(Backoff(row.attempts - 1))
    BY <2>1 DEF BackedOff
  <2>3. row.attempts - 1 \in Nat
    BY Fields
  <2>4. /\ now \in Nat /\ row.flushAfter \in Nat
        /\ lastFail + Interval(Backoff(row.attempts - 1)) \in Int
    BY <2>3, Fields, Bounds
  <2> QED BY <2>1, <2>2, <2>4
<1> HIDE DEF Kept
<1>4. Spec => [][Kept]_vars
  BY <1>1, <1>2, <1>3, TypeCorrect, PTL DEF Spec
<1> QED BY <1>4 DEF Kept, BackoffIsKept
=============================================================================
