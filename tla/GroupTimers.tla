---------------------------- MODULE GroupTimers ----------------------------
(***************************************************************************)
(* When the row of one alert group is flushed: the debounce of             *)
(* UpsertGroupMember, the window that caps it, the ticker of               *)
(* RunFlushWorker, the lease of ClaimDueGroups and the backoff of          *)
(* SaveGroupProgressFailed.  What is sent is left to AlertGroups; here a   *)
(* flush is a period at the end of which it succeeded or failed.  A worker *)
(* may be busy with other groups when the row becomes due, but there are   *)
(* never more due groups than it claims at a time (flushBatch).            *)
(*                                                                         *)
(* Time is discrete, with Second units to the second, and the database's   *)
(* now() and the workers' clocks are the same.  A step of a worker that is *)
(* due happens before time goes on.                                        *)
(***************************************************************************)
EXTENDS Integers

CONSTANTS Workers,
          Second,         \* time units of a second
          Debounce,       \* ALERT_DEBOUNCE
          MaxWindow,      \* ALERT_MAX_WINDOW
          FlushInterval,  \* flushInterval
          Lease,          \* claimLease
          BackoffStep,    \* 10 seconds
          BackoffCap,     \* 5 minutes
          MaxSend,        \* the longest a worker is busy with what it claimed
          Horizon,        \* bound: when time ends
          MaxEvents       \* bound: upserts

ASSUME TimersAssumption ==
  /\ Workers # {}
  /\ Second \in Nat \ {0} /\ FlushInterval \in Nat \ {0}
  /\ Debounce \in Nat /\ MaxWindow \in Nat /\ Lease \in Nat /\ BackoffStep \in Nat
  /\ BackoffCap \in Nat /\ MaxSend \in Nat /\ Horizon \in Nat /\ MaxEvents \in Nat

VARIABLES now,
          row,       \* the columns of the group's row that are about time
          worker,    \* what a worker is at, and its ticker
          events,    \* how many upserts there were
          lastEvent, \* when the last of them was
          waiting,   \* since when the row has been dirty
          lastFail   \* when a flush last failed

vars == <<now, row, worker, events, lastEvent, waiting, lastFail>>

history == <<lastEvent, waiting, lastFail>>

Never == -1

Least(a, b) == IF a <= b THEN a ELSE b
Greatest(a, b) == IF a >= b THEN a ELSE b

(* Intervals reach the database as fmt.Sprintf("%d seconds",               *)
(* int(d.Seconds())): fractions of a second are cut off.                   *)
Interval(d) == (d \div Second) * Second

NoRow == [exists |-> FALSE, dirty |-> FALSE, flushAfter |-> 0, maxFlushBy |-> 0, attempts |-> 0]

Init == /\ now = 0
        /\ row = NoRow
        /\ worker \in [Workers -> [at : {"idle"}, attempts : {0}, until : {0},
                                   tick : 1..FlushInterval, ticked : {FALSE}]]
        /\ events = 0
        /\ lastEvent = Never /\ waiting = Never /\ lastFail = Never

-----------------------------------------------------------------------------
(* Mutant of Armed: every event moves flush_after, without the cap.        *)
ArmedWithoutCap == now + Interval(Debounce)

(* The first event's debounce is not capped; a later one's is, by the      *)
(* window of the row's first event ever.                                   *)
Armed == IF row.exists THEN Least(now + Interval(Debounce), row.maxFlushBy)
                       ELSE now + Interval(Debounce)

UpsertGroupMember ==
  /\ events < MaxEvents
  /\ events' = events + 1
  /\ row' = [exists |-> TRUE, dirty |-> TRUE, attempts |-> 0, flushAfter |-> Armed,
             maxFlushBy |-> IF row.exists THEN row.maxFlushBy ELSE now + Interval(MaxWindow)]
  /\ lastEvent' = now
  /\ waiting' = IF waiting = Never THEN now ELSE waiting
  /\ UNCHANGED <<now, worker, lastFail>>

(* The ticker's channel holds one tick; more are dropped while the worker  *)
(* is busy.                                                                *)
TickerFires(w) ==
  /\ now = worker[w].tick
  /\ worker' = [worker EXCEPT ![w].tick = worker[w].tick + FlushInterval,
                              ![w].ticked = TRUE]
  /\ UNCHANGED <<now, row, events, history>>

(* Mutant of Due: a dirty row is due at once.                              *)
DueWhenDirty == row.dirty

Due == row.dirty /\ row.flushAfter <= now

Ready(w) == worker[w].ticked /\ worker[w].at = "idle"

ClaimDueGroups(w) ==
  /\ Ready(w) /\ Due
  /\ row' = [row EXCEPT !.dirty = FALSE, !.flushAfter = now + Interval(Lease)]
  /\ worker' = [worker EXCEPT ![w].ticked = FALSE, ![w].at = "row",
                              ![w].attempts = row.attempts, ![w].until = now + MaxSend]
  /\ waiting' = Never
  /\ UNCHANGED <<now, events, lastEvent, lastFail>>

(* The claim finds other groups that are due, or none.                     *)
ClaimsOthers(w) ==
  /\ Ready(w) /\ ~Due
  /\ \/ worker' = [worker EXCEPT ![w].ticked = FALSE]
     \/ worker' = [worker EXCEPT ![w].ticked = FALSE, ![w].at = "others",
                                 ![w].until = now + MaxSend]
  /\ UNCHANGED <<now, row, events, history>>

Leaves(w) == worker' = [worker EXCEPT ![w].at = "idle", ![w].attempts = 0, ![w].until = 0]

SavesOthers(w) ==
  /\ worker[w].at = "others"
  /\ Leaves(w)
  /\ UNCHANGED <<now, row, events, history>>

(* Mutant of SaveGroupProgress: the row is left as dirty as it is.         *)
SaveGroupProgressKeepsDirty(w) ==
  /\ worker[w].at = "row"
  /\ row' = [row EXCEPT !.attempts = 0]
  /\ Leaves(w)
  /\ waiting' = Never
  /\ UNCHANGED <<now, events, lastEvent, lastFail>>

SaveGroupProgress(w) ==
  /\ worker[w].at = "row"
  /\ row' = [row EXCEPT !.dirty = FALSE, !.attempts = 0]
  /\ Leaves(w)
  /\ waiting' = Never
  /\ UNCHANGED <<now, events, lastEvent, lastFail>>

(* The delay comes from the attempts the worker read when it claimed.      *)
Backoff(attempts) == Least((attempts + 1) * BackoffStep, BackoffCap)

(* Mutant of SaveGroupProgressFailed: the delay never grows.               *)
SaveGroupProgressFailedAsFirst(w) ==
  /\ worker[w].at = "row"
  /\ row' = [row EXCEPT !.dirty = TRUE, !.attempts = row.attempts + 1,
                        !.flushAfter = now + Interval(Backoff(0))]
  /\ Leaves(w)
  /\ waiting' = IF waiting = Never THEN now ELSE waiting
  /\ lastFail' = now
  /\ UNCHANGED <<now, events, lastEvent>>

SaveGroupProgressFailed(w) ==
  /\ worker[w].at = "row"
  /\ row' = [row EXCEPT !.dirty = TRUE, !.attempts = row.attempts + 1,
                        !.flushAfter = now + Interval(Backoff(worker[w].attempts))]
  /\ Leaves(w)
  /\ waiting' = IF waiting = Never THEN now ELSE waiting
  /\ lastFail' = now
  /\ UNCHANGED <<now, events, lastEvent>>

(* Time goes on when no worker has a step to do at this moment.            *)
TimePasses ==
  /\ now < Horizon
  /\ \A w \in Workers : /\ now < worker[w].tick
                        /\ ~Ready(w)
                        /\ worker[w].at # "idle" => now < worker[w].until
  /\ now' = now + 1
  /\ UNCHANGED <<row, worker, events, history>>

Next ==
  \/ UpsertGroupMember
  \/ \E w \in Workers : TickerFires(w) \/ ClaimDueGroups(w) \/ ClaimsOthers(w)
  \/ \E w \in Workers : SavesOthers(w) \/ SaveGroupProgress(w) \/ SaveGroupProgressFailed(w)
  \/ TimePasses

Spec == Init /\ [][Next]_vars

-----------------------------------------------------------------------------
(* Properties.                                                             *)

Time == Nat \cup {Never}

(* The types of the variables, and that only a dirty row waits.            *)
TypeOK ==
  /\ now \in 0..Horizon
  /\ row \in [exists : BOOLEAN, dirty : BOOLEAN, flushAfter : Nat, maxFlushBy : Nat,
              attempts : Nat]
  /\ worker \in [Workers -> [at : {"idle", "row", "others"}, attempts : Nat, until : Nat, tick : Nat,
                             ticked : BOOLEAN]]
  /\ events \in 0..MaxEvents
  /\ lastEvent \in Time /\ waiting \in Time /\ lastFail \in Time
  /\ row.dirty <=> waiting # Never

(* No storm of events, no failure and no busy worker keeps a dirty row     *)
(* from being claimed for longer than this ("capped at 45s", README.md:17, *)
(* for the row that did not fail, and five minutes for the one that did).  *)
MaxDelay == Greatest(Greatest(Interval(Debounce), Interval(MaxWindow)),
                     MaxSend + Interval(BackoffCap))
              + Greatest(MaxSend, FlushInterval)

ClaimedInTime == row.dirty => now <= waiting + MaxDelay

(* A row that did not fail is not claimed before the debounce of the last  *)
(* event has passed, unless the window of the row's first event ever has.  *)
DebounceOrWindow ==
  [][\A w \in Workers : ClaimDueGroups(w) /\ row.attempts = 0 =>
       now >= lastEvent + Interval(Debounce) \/ now >= row.maxFlushBy]_vars

(* A row that failed and has had no event since is not claimed before the  *)
(* backoff of as many failures has passed (groups.go:246-250).  Holds for  *)
(* one worker: two can leave a row with more attempts than either waited   *)
(* for.                                                                    *)
BackoffIsKept ==
  [][\A w \in Workers : ClaimDueGroups(w) /\ row.attempts > 0 =>
       now >= lastFail + Interval(Backoff(row.attempts - 1))]_vars
=============================================================================
