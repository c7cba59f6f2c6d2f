------------------------------- MODULE Ingest -------------------------------
(***************************************************************************)
(* The ingestion path: AlertsHandler (internal/http/handlers.go),          *)
(* ProcessAlert (internal/workflows/rules.go) and the active_alerts table  *)
(* (internal/db/alerts.go), for requests that are handled at the same time *)
(* by one or several instances.                                            *)
(*                                                                         *)
(* A request reads which alerts are known, runs every alert through the    *)
(* rules - an HTTP enrichment for what it takes for new, then an upsert    *)
(* into the group - and writes all its alerts to active_alerts at the end. *)
(* There is no lock and no transaction over these steps, and one deadline  *)
(* for all of them except the enrichments, which have their own.           *)
(*                                                                         *)
(* A fingerprint stands for its labels, so that a rule and an alert name   *)
(* the member of a group (computeGroupKey): names of rules are unique.  An *)
(* alert's labels and annotations are the keys that have a value in either. *)
(***************************************************************************)
EXTENDS Integers, FiniteSets, Sequences

CONSTANTS Alerts,       \* fingerprints
          Keys,         \* keys of labels and annotations
          NoKey,        \* no enrichment
          MaxStart,     \* startsAt is one of 1..MaxStart
          Unit,         \* how much of startsAt a timestamptz column keeps: a microsecond
          Rules,        \* the enabled rules, by name; one enrichment each at most
          Payloads,     \* what Alertmanager may send
          Handlers,     \* requests handled at the same time
          Budget,       \* enrichments that hang and use up the deadline: 20 s / 5 s
          MaxRequests,  \* bound: requests
          MaxFaults     \* bound: queries that fail, clients that leave, crashes

Reported == {"firing", "resolved"}
Absent == "none"
Status == Reported \cup {Absent}
Starts == 1..MaxStart
Never == 0

Event == [fp : Alerts, status : Reported, start : Starts, annots : SUBSET Keys]

(* WorkflowRule: the alerts that Matches, the key its enrichment stores    *)
(* into, the keys of its ExtraFields, and NotificationOnly.                *)
Rule == [matches : SUBSET Alerts, stores : Keys \cup {NoKey}, fields : SUBSET Keys,
         notificationOnly : BOOLEAN]

ASSUME IngestAssumption ==
  /\ NoKey \notin Keys
  /\ MaxStart \in Nat /\ Unit \in Nat \ {0} /\ Budget \in Nat \ {0} /\ MaxRequests \in Nat /\ MaxFaults \in Nat
  /\ Rules \in Seq(Rule)
  /\ Payloads \subseteq Seq(Event)
  /\ \A p \in Payloads : \A i \in DOMAIN p : p[i].start >= Unit
  /\ \A p \in Payloads : p # << >> /\ \A i, j \in DOMAIN p : p[i].fp = p[j].fp => i = j

VARIABLES active,    \* active_alerts: status and starts_at, Never without a row
          members,   \* alert_groups: by rule and alert, what the request writes
          handlers,  \* the requests in progress, and the last answer given
          requests,  \* how many requests there were
          faults,    \* how many faults there were
          calls,     \* how often an enrichment was called, by rule, alert and start
          orderly    \* requests came one by one and in order, and all succeeded

vars == <<active, members, handlers, requests, faults, calls, orderly>>

-----------------------------------------------------------------------------
NoMember == [status |-> Absent, start |-> Never, fields |-> {}]

IdleHandler == [at |-> "idle", payload |-> << >>, known |-> [a \in Alerts |-> Never],
                annots |-> << >>, todo |-> {}, tried |-> FALSE, spent |-> 0,
                cancelled |-> FALSE, answer |-> "none"]

Init == /\ active = [a \in Alerts |-> [status |-> Absent, start |-> Never]]
        /\ members = [r \in DOMAIN Rules |-> [a \in Alerts |-> NoMember]]
        /\ handlers = [h \in Handlers |-> IdleHandler]
        /\ requests = 0 /\ faults = 0
        /\ calls = [r \in DOMAIN Rules |-> [a \in Alerts |-> [s \in Starts |-> 0]]]
        /\ orderly = TRUE

(* Mutant of Matching: the first rule that matches an alert is the last.   *)
MatchingFirstOnly(payload) ==
  {p \in (DOMAIN payload) \X (DOMAIN Rules) :
     /\ payload[p[1]].fp \in Rules[p[2]].matches
     /\ \A r \in 1..(p[2] - 1) : payload[p[1]].fp \notin Rules[r].matches}

(* Every alert of the payload with every rule that matches it.             *)
Matching(payload) ==
  {p \in (DOMAIN payload) \X (DOMAIN Rules) : payload[p[1]].fp \in Rules[p[2]].matches}

(* The loops over the alerts and over the rules are at this pair.          *)
AtPair(self, p) ==
  /\ p \in self.todo
  /\ \A q \in self.todo : p[1] < q[1] \/ (p[1] = q[1] /\ p[2] <= q[2])

Becomes(h, self) == handlers' = [handlers EXCEPT ![h] = self]

Fine == UNCHANGED <<faults, orderly>>

Fault == faults < MaxFaults /\ faults' = faults + 1 /\ orderly' = FALSE

-----------------------------------------------------------------------------
(* The handler up to its loop.  When BatchGetActiveAlerts fails the error  *)
(* is logged and nothing is known.                                         *)
Accept(h, payload, known) ==
  /\ handlers[h].at = "idle"
  /\ requests < MaxRequests /\ requests' = requests + 1
  /\ Becomes(h, [IdleHandler EXCEPT
       !.at = "alerts", !.payload = payload, !.known = known,
       !.annots = [i \in DOMAIN payload |-> payload[i].annots],
       !.todo = Matching(payload)])
  /\ UNCHANGED <<active, members, calls>>

Receive(h, payload) ==
  /\ Accept(h, payload, [a \in Alerts |-> active[a].start])
  /\ orderly' = (/\ orderly
                 /\ \A k \in Handlers : handlers[k].at = "idle"
                 /\ \A i \in DOMAIN payload : payload[i].start >= active[payload[i].fp].start)
  /\ UNCHANGED faults

ReceiveBlind(h, payload) ==
  /\ Accept(h, payload, [a \in Alerts |-> Never])
  /\ Fault

(* The context's deadline has passed, or the client has gone.              *)
Expired(self) == self.cancelled \/ self.spent >= Budget

Cancel(h) ==
  /\ handlers[h].at = "alerts" /\ ~Expired(handlers[h])
  /\ Becomes(h, [handlers[h] EXCEPT !.cancelled = TRUE])
  /\ Fault
  /\ UNCHANGED <<active, members, requests, calls>>

(* The process ends.                                                       *)
Crash(h) ==
  /\ handlers[h].at = "alerts"
  /\ Becomes(h, IdleHandler)
  /\ Fault
  /\ UNCHANGED <<active, members, requests, calls>>

(* Mutant of IsNew: every event counts as new.                             *)
AlwaysNew(self, i) == TRUE

IsNew(self, i) == self.known[self.payload[i].fp] # self.payload[i].start

ShouldEnrich(self, p) ==
  /\ Rules[p[2]].stores # NoKey
  /\ IsNew(self, p[1])
  /\ self.payload[p[1]].status = "firing" \/ Rules[p[2]].notificationOnly

(* enrichAlert: "stored" writes into the map of annotations that the rules *)
(* after this one see too; "failed" is an error at once; "hung" is one     *)
(* after five seconds, which count against the deadline of the request but *)
(* are not ended by it.                                                    *)
EnrichOutcomes == {"stored", "failed", "hung"}

Enrich(h, outcome) ==
  LET self == handlers[h] IN
  \E p \in self.todo :
    LET i == p[1]
        e == self.payload[i]
    IN
    /\ AtPair(self, p) /\ ~self.tried /\ ShouldEnrich(self, p)
    /\ Becomes(h, [self EXCEPT
         !.tried = TRUE,
         !.spent = IF outcome = "hung" THEN self.spent + 1 ELSE self.spent,
         !.annots = IF outcome = "stored"
                    THEN [self.annots EXCEPT ![i] = self.annots[i] \cup {Rules[p[2]].stores}]
                    ELSE self.annots])
    /\ calls' = [calls EXCEPT ![p[2]][e.fp][e.start] = calls[p[2]][e.fp][e.start] + 1]
    /\ UNCHANGED <<active, members, requests>>
    /\ Fine

(* Mutant of Merged: a list without fields replaces one that has some.     *)
Replaced(old, fields) == fields

(* display_fields in jsonb_set .. ||: an empty list is omitted from the    *)
(* member's JSON and keeps the old one, any other replaces it.             *)
Merged(old, fields) == IF fields = {} THEN old ELSE fields

(* The keys of the rule that have a value.                                 *)
ResolveDisplayFields(r, annots) == Rules[r].fields \cap annots

MemberStatus(e, r) == IF Rules[r].notificationOnly THEN "resolved" ELSE e.status

(* On to the next rule, or the next alert.                                 *)
Advance(self, p) == [self EXCEPT !.todo = self.todo \ {p}, !.tried = FALSE]

(* The rest of an iteration of ProcessAlert.  A failed upsert is logged.   *)
UpsertGroupMember(h, done) ==
  LET self == handlers[h] IN
  \E p \in self.todo :
    LET r == p[2]
        e == self.payload[p[1]]
    IN
    /\ AtPair(self, p) /\ (self.tried \/ ~ShouldEnrich(self, p))
    /\ Becomes(h, Advance(self, p))
    /\ \/ /\ done /\ ~Expired(self) /\ Fine
          /\ members' = [members EXCEPT ![r][e.fp] =
               [status |-> MemberStatus(e, r), start |-> e.start,
                fields |-> Merged(members[r][e.fp].fields,
                                  ResolveDisplayFields(r, self.annots[p[1]]))]]
       \/ /\ ~done /\ UNCHANGED members
          /\ IF Expired(self) THEN Fine ELSE Fault
    /\ UNCHANGED <<active, requests, calls>>

-----------------------------------------------------------------------------
(* starts_at of what was sent: the driver cuts it to the column's unit.    *)
StoredStart(start) == start - (start % Unit)

(* BatchUpsertAlerts: one implicit transaction.                            *)
Stored(payload) ==
  [a \in Alerts |->
     IF \E i \in DOMAIN payload : payload[i].fp = a
     THEN LET e == payload[CHOOSE i \in DOMAIN payload : payload[i].fp = a]
          IN  [status |-> e.status, start |-> StoredStart(e.start)]
     ELSE active[a]]

AtBatch(self) == self.at = "alerts" /\ self.todo = {}

Answer(h, code) == Becomes(h, [handlers[h] EXCEPT !.at = "idle", !.answer = code,
                                                  !.annots = << >>, !.spent = 0,
                                                  !.cancelled = FALSE,
                                                  !.known = [a \in Alerts |-> Never]])

(* Mutant of BatchUpsertAlerts: an expired context is not noticed.         *)
BatchUpsertAlertsAnyway(h) ==
  /\ AtBatch(handlers[h])
  /\ active' = Stored(handlers[h].payload)
  /\ Answer(h, "200")
  /\ UNCHANGED <<members, requests, calls>>
  /\ Fine

BatchUpsertAlerts(h) ==
  /\ AtBatch(handlers[h]) /\ ~Expired(handlers[h])
  /\ active' = Stored(handlers[h].payload)
  /\ Answer(h, "200")
  /\ UNCHANGED <<members, requests, calls>>
  /\ Fine

(* The context has expired; or the batch was ended by the database - it    *)
(* deadlocked with another one - or its answer was lost after the commit.  *)
BatchUpsertFails(h) ==
  /\ AtBatch(handlers[h])
  /\ \/ Expired(handlers[h]) /\ active' = active /\ orderly' = FALSE /\ UNCHANGED faults
     \/ ~Expired(handlers[h]) /\ active' \in {active, Stored(handlers[h].payload)} /\ Fault
  /\ Answer(h, "500")
  /\ UNCHANGED <<members, requests, calls>>

-----------------------------------------------------------------------------
Next ==
  \/ \E h \in Handlers, p \in Payloads : Receive(h, p) \/ ReceiveBlind(h, p)
  \/ \E h \in Handlers, o \in EnrichOutcomes : Enrich(h, o)
  \/ \E h \in Handlers, done \in BOOLEAN : UpsertGroupMember(h, done)
  \/ \E h \in Handlers : BatchUpsertAlerts(h) \/ BatchUpsertFails(h)
  \/ \E h \in Handlers : Cancel(h) \/ Crash(h)

Spec == Init /\ [][Next]_vars

-----------------------------------------------------------------------------
(* Properties.                                                             *)

HandlerOK(self) ==
  /\ self.at \in {"idle", "alerts"}
  /\ self.payload \in Payloads \cup {<< >>}
  /\ self.known \in [Alerts -> Starts \cup {Never}]
  /\ self.at = "alerts" => self.annots \in [DOMAIN self.payload -> SUBSET Keys]
  /\ self.todo \subseteq Matching(self.payload)
  /\ self.at = "idle" => self.todo = {}
  /\ self.tried => self.todo # {}
  /\ self.tried \in BOOLEAN /\ self.cancelled \in BOOLEAN /\ self.spent \in Nat
  /\ self.answer \in {"none", "200", "500"}

(* The types of the variables.                                             *)
TypeOK ==
  /\ active \in [Alerts -> [status : Status, start : Starts \cup {Never}]]
  /\ members \in [DOMAIN Rules -> [Alerts -> [status : Status, start : Starts \cup {Never},
                                              fields : SUBSET Keys]]]
  /\ DOMAIN handlers = Handlers /\ \A h \in Handlers : HandlerOK(handlers[h])
  /\ requests \in 0..MaxRequests /\ faults \in 0..MaxFaults
  /\ calls \in [DOMAIN Rules -> [Alerts -> [Starts -> Nat]]]
  /\ orderly \in BOOLEAN

(* Enrichments run once for an alert (docs/RULES.md, Enrichments), as long *)
(* as requests neither overlap nor fail and no alert comes late, and       *)
(* startsAt has no more digits than the column: a finer one is never equal *)
(* to what was stored, and every repeat of the alert counts as new.        *)
EnrichedOnce ==
  orderly => \A r \in DOMAIN Rules, a \in Alerts, s \in Starts :
               StoredStart(s) = s => calls[r][a][s] <= 1

(* When requests come one by one and succeed, the dashboard's table and    *)
(* the groups, whose JSON keeps all of startsAt, say the same of every     *)
(* alert when no request is in progress.                                   *)
GroupsAgree ==
  orderly /\ (\A h \in Handlers : handlers[h].at = "idle") =>
    \A r \in DOMAIN Rules : \A a \in Rules[r].matches : active[a].start # Never =>
      /\ StoredStart(members[r][a].start) = active[a].start
      /\ members[r][a].status = MemberStatus(active[a], r)

InItsGroups(payload) ==
  \A p \in Matching(payload) : members[p[2]][payload[p[1]].fp].status # Absent

(* A request that is answered with 200 has its alerts in the table and in  *)
(* all their groups, whatever ran at the same time: an upsert is not       *)
(* dropped by the deadline without Alertmanager being told to try again.   *)
AnsweredIsRecorded ==
  faults = 0 => \A h \in Handlers : handlers[h].answer = "200" =>
    /\ InItsGroups(handlers[h].payload)
    /\ \A i \in DOMAIN handlers[h].payload : active[handlers[h].payload[i].fp].start # Never

(* A rule that shows nothing but its enrichment keeps showing it: later    *)
(* events are not enriched, and must not take it away (groups.go:114-120). *)
LoneFieldStays ==
  [][\A r \in DOMAIN Rules, a \in Alerts : Rules[r].fields = {Rules[r].stores} =>
       members[r][a].fields \subseteq members'[r][a].fields]_vars
=============================================================================
