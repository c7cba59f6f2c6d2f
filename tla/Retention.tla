----------------------------- MODULE Retention -----------------------------
(***************************************************************************)
(* How long alerts are kept and what the dashboard makes of those that     *)
(* are: the cleanup loop (runCleanupLoop in cmd/app/main.go over           *)
(* DeleteOldAlerts in internal/db/alerts.go), and dashboardHandler with    *)
(* its pages and history bars (internal/http/webui.go).                    *)
(*                                                                         *)
(* A pass of the loop fixes its cutoff when it begins and deletes in       *)
(* batches, while alerts keep arriving and other processes run their own   *)
(* passes.  The dashboard only reads; it is a set of operators on the      *)
(* tables.                                                                 *)
(***************************************************************************)
EXTENDS Integers, FiniteSetsExt, SequencesExt

CONSTANTS Alerts,      \* fingerprints
          Cleaners,    \* processes, each with its cleanup loop
          Day,         \* clock ticks of a day
          KeepFor,     \* ALERT_RETENTION
          BatchSize,   \* rows one DELETE takes, LIMIT 5000
          PageSize,    \* dashboardPageSize
          MaxTime,     \* bound: the clock
          MaxEvents,   \* bound: events received
          MaxStale,    \* bound: sessions and groups that become stale
          MaxFaults    \* bound: statements that fail and processes that end

ASSUME RetentionAssumption ==
  /\ Day \in Nat \ {0} /\ KeepFor \in Nat /\ BatchSize \in Nat \ {0} /\ PageSize \in Nat \ {0}
  /\ MaxTime \in Nat /\ MaxEvents \in Nat /\ MaxStale \in Nat /\ MaxFaults \in Nat

VARIABLES now,       \* the clock
          active,    \* active_alerts: status and last_seen
          events,    \* alert_events (the id tells events of the same time apart)
          received,  \* every event there has been
          stale,     \* rows the other two cleanups would delete, of each kind
          passes,    \* what every process' cleanup is at
          staled, faults

vars == <<now, active, events, received, stale, passes, staled, faults>>

Absent == [status |-> "none", seen |-> -1]
Listed == {a \in Alerts : active[a] # Absent}
Kinds == {"groups", "sessions"}
Resting == [at |-> "rest", cutoff |-> 0]

-----------------------------------------------------------------------------
(* The tables fill.                                                        *)

Tick ==
  /\ now < MaxTime /\ now' = now + 1
  /\ UNCHANGED <<active, events, received, stale, passes, staled, faults>>

(* BatchUpsertAlerts: an event is added and the alert's row is set.        *)
Receive(a, status) ==
  LET alike == {e \in received : e.at = now /\ e.status = status}
      event == [id |-> Cardinality(alike) + 1, at |-> now, status |-> status]
  IN
  /\ Cardinality(received) < MaxEvents
  /\ received' = received \cup {event} /\ events' = events \cup {event}
  /\ active' = [active EXCEPT ![a] = [status |-> status, seen |-> now]]
  /\ UNCHANGED <<now, stale, passes, staled, faults>>

(* A session expires, or a group has been resolved for an hour.            *)
GoesStale(kind) ==
  /\ staled < MaxStale /\ staled' = staled + 1
  /\ stale' = [stale EXCEPT ![kind] = @ + 1]
  /\ UNCHANGED <<now, active, events, received, passes, faults>>

-----------------------------------------------------------------------------
(* A pass of runCleanup.                                                   *)

Moves(c, to) == passes' = [passes EXCEPT ![c].at = to]
Rests(c) == passes' = [passes EXCEPT ![c] = Resting]
KeepsAlerts == UNCHANGED <<now, active, events, received>>
Fault == faults < MaxFaults /\ faults' = faults + 1

BeginPass(c) ==
  /\ passes[c].at = "rest"
  /\ passes' = [passes EXCEPT ![c] = [at |-> "alerts", cutoff |-> now - KeepFor]]
  /\ KeepsAlerts /\ UNCHANGED <<stale, staled, faults>>

(* The rows one DELETE may take: any BatchSize of the old ones.            *)
Batches(old) == kSubset(Min({BatchSize, Cardinality(old)}), old)

(* Mutant of EndsBatches: the first batch is the last.                     *)
EndsAfterOne(n) == TRUE

(* deleteInBatches goes on until a DELETE has taken nothing.               *)
EndsBatches(n) == n = 0

DeleteOldActive(c) ==
  /\ passes[c].at = "alerts"
  /\ \E gone \in Batches({a \in Listed : active[a].seen < passes[c].cutoff}) :
       /\ active' = [a \in Alerts |-> IF a \in gone THEN Absent ELSE active[a]]
       /\ Moves(c, IF EndsBatches(Cardinality(gone)) THEN "events" ELSE "alerts")
  /\ UNCHANGED <<now, events, received, stale, staled, faults>>

DeleteOldEvents(c) ==
  /\ passes[c].at = "events"
  /\ \E gone \in Batches({e \in events : e.at < passes[c].cutoff}) :
       /\ events' = events \ gone
       /\ Moves(c, IF EndsBatches(Cardinality(gone)) THEN "groups" ELSE "events")
  /\ UNCHANGED <<now, active, received, stale, staled, faults>>

(* The pass returns before it has looked at groups and sessions.           *)
DeleteFails(c) ==
  /\ passes[c].at \in {"alerts", "events"}
  /\ Fault /\ Rests(c)
  /\ KeepsAlerts /\ UNCHANGED <<stale, staled>>

(* Mutant of After: a pass ends with the groups.                           *)
AfterGroupsNothing(kind) == "vacuum"

After(kind) == IF kind = "groups" THEN "sessions" ELSE "vacuum"

(* CleanupResolvedGroups and CleanupExpiredSessions; an error is logged    *)
(* and the pass goes on.                                                   *)
Sweep(c, kind) ==
  /\ passes[c].at = kind
  /\ \/ stale' = [stale EXCEPT ![kind] = 0] /\ UNCHANGED faults
     \/ UNCHANGED stale /\ Fault
  /\ Moves(c, After(kind))
  /\ KeepsAlerts /\ UNCHANGED staled

(* VacuumAnalyze, which changes no row.                                    *)
EndPass(c) ==
  /\ passes[c].at = "vacuum" /\ Rests(c)
  /\ KeepsAlerts /\ UNCHANGED <<stale, staled, faults>>

(* The process ends; the next one begins with a pass.                      *)
Stop(c) ==
  /\ passes[c].at # "rest" /\ Fault /\ Rests(c)
  /\ KeepsAlerts /\ UNCHANGED <<stale, staled>>

Cleaning(c) == BeginPass(c) \/ DeleteOldActive(c) \/ DeleteOldEvents(c)
               \/ (\E kind \in Kinds : Sweep(c, kind)) \/ EndPass(c)

Init ==
  /\ now = 0 /\ active = [a \in Alerts |-> Absent]
  /\ events = {} /\ received = {}
  /\ stale = [kind \in Kinds |-> 0]
  /\ passes = [c \in Cleaners |-> Resting]
  /\ staled = 0 /\ faults = 0

Next ==
  \/ Tick
  \/ \E a \in Alerts : Receive(a, "firing") \/ Receive(a, "resolved")
  \/ \E kind \in Kinds : GoesStale(kind)
  \/ \E c \in Cleaners : Cleaning(c)
  \/ \E c \in Cleaners : DeleteFails(c) \/ Stop(c)

Spec == Init /\ [][Next]_vars

(* The ticker starts pass after pass, and a pass runs to its end.          *)
FairSpec == Spec /\ \A c \in Cleaners : WF_vars(Cleaning(c))

-----------------------------------------------------------------------------
(* dashboardHandler.  A filter is a status, or any, and the alerts whose   *)
(* name and text it matches: here all of them, or one.                     *)

Filters == [status : {"any", "firing", "resolved"}, among : {Alerts} \cup {{a} : a \in Alerts}]
Found(f) == {a \in Listed \cap f.among : f.status \in {"any", active[a].status}}

(* ORDER BY last_seen DESC: rows seen at the same time in any order.       *)
Orders(rows) ==
  {o \in SetToSeqs(rows) : \A i, j \in DOMAIN o : i < j => active[o[i]].seen >= active[o[j]].seen}

(* Mutant of Offset: pages are counted from zero.                          *)
OffsetFromZero(page) == page * PageSize

Offset(page) == (page - 1) * PageSize

(* ListActiveAlerts for one of the orders: a page of rows, and the total   *)
(* that comes with every row.                                              *)
ListActiveAlerts(order, page) ==
  LET rows == SubSeq(order, Offset(page) + 1, Min({Len(order), Offset(page) + PageSize}))
  IN  [rows |-> rows, total |-> IF rows = << >> THEN 0 ELSE Len(order)]

(* Mutant of TotalPages: rounded the wrong way.                            *)
TotalPagesPlusOne(total) == total \div PageSize + 1

TotalPages(total) == Max({1, (total + PageSize - 1) \div PageSize})

(* What a request for a page shows.                                        *)
Dashboard(order, asked) ==
  LET list == ListActiveAlerts(order, Max({1, asked}))
      pages == TotalPages(list.total)
      page == Min({Max({1, asked}), pages})
  IN  [rows |-> list.rows, total |-> list.total, page |-> page, pages |-> pages,
       hasNext |-> page < pages]

(* Mutant of HistoryDays: a day more than is kept.                         *)
HistoryDaysAndOne == KeepFor \div Day + 1

HistoryDays == Max({1, KeepFor \div Day})

DayOf(t) == t \div Day

(* CountFiringEventsByDay: one count for each of the last days.            *)
CountFiringEventsByDay(rows) ==
  [d \in (DayOf(now) - (HistoryDays - 1))..DayOf(now) |->
     Cardinality({e \in rows : e.status = "firing" /\ DayOf(e.at) = d})]

(* buildHistoryBars: the heights, of which a small one is made visible.    *)
BuildHistoryBars(counts) ==
  LET most == Max({counts[d] : d \in DOMAIN counts})
      height(n) == IF most = 0 THEN 0 ELSE (n * 100) \div most
  IN  [d \in DOMAIN counts |->
         IF counts[d] > 0 THEN Max({4, height(counts[d])}) ELSE height(counts[d])]

-----------------------------------------------------------------------------
(* Properties.                                                             *)

(* The variables have their types.                                         *)
TypeOK ==
  /\ now \in 0..MaxTime
  /\ \A a \in Listed : active[a].status \in {"firing", "resolved"} /\ active[a].seen \in 0..now
  /\ events \subseteq received
  /\ \A c \in Cleaners :
       /\ passes[c].at \in {"rest", "alerts", "events", "groups", "sessions", "vacuum"}
       /\ passes[c].cutoff <= now

(* A pass that has got to the groups has left no alert and no event that   *)
(* is older than its cutoff, though it deletes in batches while the tables *)
(* change (alerts.go:233-260, 275-288).                                    *)
CleanupComplete ==
  \A c \in Cleaners : passes[c].at \in {"groups", "sessions", "vacuum"} =>
    /\ \A a \in Listed : active[a].seen >= passes[c].cutoff
    /\ \A e \in events : e.at >= passes[c].cutoff

(* "The alert-volume graph only goes back as far as history is actually    *)
(* kept" (webui.go:54-57): every bar stands for all the events its day     *)
(* had, and one is visible exactly where there were any.  (With less than  *)
(* a day of retention there is still a bar for today.)                     *)
BarsAreComplete ==
  LET kept == CountFiringEventsByDay(events)
      bars == BuildHistoryBars(kept)
  IN  KeepFor >= Day =>
        /\ kept = CountFiringEventsByDay(received)
        /\ \A d \in DOMAIN bars : bars[d] > 0 <=> kept[d] > 0

(* A page that shows any alerts says which page it is and how many alerts  *)
(* there are, and if it has a link to a next page there are alerts on it.  *)
(* (Past the last page it says that there are none at all, alerts.go:142.) *)
PageIsRight ==
  \A f \in Filters : \A order \in Orders(Found(f)) : \A asked \in 0..(Cardinality(Alerts) + 1) :
    LET shown == Dashboard(order, asked) IN
    shown.rows # << >> =>
      /\ shown.total = Cardinality(Found(f)) /\ shown.page = Max({1, asked})
      /\ shown.hasNext => Dashboard(order, shown.page + 1).rows # << >>

(* Whoever goes through all pages sees every alert once, unless rows were  *)
(* seen at the same time, for which every page may choose another order.   *)
PagesCoverAlerts ==
  \A f \in Filters :
    (\A a, b \in Found(f) : active[a].seen = active[b].seen => a = b) =>
      \A order \in Orders(Found(f)) :
        order = FlattenSeq([p \in 1..TotalPages(Len(order)) |-> Dashboard(order, p).rows])

(* Whatever failed before, in the end nothing is left that is too old, in  *)
(* any of the tables (main.go:116-166).                                    *)
CleanupCatchesUp ==
  <>[](/\ \A a \in Listed : active[a].seen >= now - KeepFor
       /\ \A e \in events : e.at >= now - KeepFor
       /\ \A kind \in Kinds : stale[kind] = 0)
=============================================================================
