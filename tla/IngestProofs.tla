---------------------------- MODULE IngestProofs ----------------------------
(***************************************************************************)
(* Proofs about Ingest for any alerts, rules, payloads and number of       *)
(* requests handled at the same time: types, that what was answered with   *)
(* 200 is recorded, that a lone enriched field stays, and, for requests    *)
(* that come one by one, that enrichments run once and that the groups     *)
(* agree with active_alerts.                                               *)
(***************************************************************************)
EXTENDS Ingest, TLAPS

Annots == {<< >>} \cup UNION {[DOMAIN p -> SUBSET Keys] : p \in Payloads}
Handler == [at : {"idle", "alerts"}, payload : Payloads \cup {<< >>},
            known : [Alerts -> Starts \cup {Never}], annots : Annots,
            todo : SUBSET (Nat \X DOMAIN Rules), tried : BOOLEAN, spent : Nat,
            cancelled : BOOLEAN, answer : {"none", "200", "500"}]
Row == [status : Status, start : Starts \cup {Never}]
MemberRow == [status : Status, start : Starts \cup {Never}, fields : SUBSET Keys]

TInv ==
  /\ TypeOK
  /\ handlers \in [Handlers -> Handler]

(* What a member shows are fields of its rule.                             *)
FieldsInv == \A r \in DOMAIN Rules, a \in Alerts : members[r][a].fields \subseteq Rules[r].fields

(* In what follows k is a handler, act the table active_alerts, mem the    *)
(* members and c the calls.  While the deadline has not passed, the pairs  *)
(* that were done are in their groups.                                     *)
InGroups(k, mem) ==
  \A p \in Matching(k.payload) : p \notin k.todo => mem[p[2]][k.payload[p[1]].fp].status # Absent
InTable(k, act) == \A i \in DOMAIN k.payload : act[k.payload[i].fp].start # Never

RecordedSoFar(k, act, mem) ==
  /\ k.at = "alerts" /\ ~Expired(k) => InGroups(k, mem)
  /\ k.answer = "200" => k.todo = {} /\ InGroups(k, mem) /\ InTable(k, act)

RecordedInv == faults = 0 => \A h \in Handlers : RecordedSoFar(handlers[h], active, members)

(* Requests that come one by one.  The request that is being handled, if   *)
(* any, knows the table as it is, brings nothing older than what is there, *)
(* and has written every pair that was done.                               *)
Written(k, mem, p) ==
  LET e == k.payload[p[1]] IN
  /\ mem[p[2]][e.fp].start = e.start
  /\ mem[p[2]][e.fp].status = MemberStatus(e, p[2])

Current(k, act, mem) ==
  k.at = "alerts" =>
    /\ \A a \in Alerts : k.known[a] = act[a].start
    /\ \A i \in DOMAIN k.payload : k.payload[i].start >= act[k.payload[i].fp].start
    /\ ~Expired(k) => \A p \in Matching(k.payload) : p \notin k.todo => Written(k, mem, p)

Carries(k, a) == k.at = "alerts" /\ \E i \in DOMAIN k.payload : k.payload[i].fp = a

Agrees(act, mem, r, a) ==
  act[a].start # Never => /\ StoredStart(mem[r][a].start) = act[a].start
                          /\ mem[r][a].status = MemberStatus(act[a], r)

(* The request that is being handled has called the enrichment of rule r   *)
(* for alert a with start s already.                                       *)
HasCalled(k, r, a, s) ==
  /\ k.at = "alerts"
  /\ \E i \in DOMAIN k.payload : /\ k.payload[i].fp = a /\ k.payload[i].start = s
                                 /\ <<i, r>> \notin k.todo \/ (k.tried /\ AtPair(k, <<i, r>>))

OneByOne == \A h, k \in Handlers : handlers[h].at = "alerts" /\ handlers[k].at = "alerts" => h = k
AllCurrent == \A h \in Handlers : Current(handlers[h], active, members)
OthersAgree ==
  \A a \in Alerts : (\A h \in Handlers : ~Carries(handlers[h], a)) =>
    \A r \in DOMAIN Rules : a \in Rules[r].matches => Agrees(active, members, r, a)
CalledOnce ==
  \A r \in DOMAIN Rules, a \in Alerts, s \in Starts : StoredStart(s) = s =>
    /\ calls[r][a][s] <= 1
    /\ calls[r][a][s] # 0 => s <= active[a].start \/ \E h \in Handlers : HasCalled(handlers[h], r, a, s)

OrderlyInv == orderly => OneByOne /\ AllCurrent /\ OthersAgree /\ CalledOnce

IInv == TInv /\ FieldsInv /\ RecordedInv /\ OrderlyInv

-----------------------------------------------------------------------------
(* Payloads, rules and times.                                              *)

LEMMA PayloadFacts ==
  ASSUME NEW p \in Payloads \cup {<< >>}
  PROVE  /\ \A i \in DOMAIN p : /\ i \in Nat /\ p[i].fp \in Alerts /\ p[i].status \in Reported
                               /\ p[i].start \in Starts /\ p[i].annots \in SUBSET Keys
                               /\ p[i].start >= Unit
         /\ \A i, j \in DOMAIN p : p[i].fp = p[j].fp => i = j
<1>1. CASE p = << >>
  BY <1>1
<1>2. CASE p \in Payloads
  <2>1. p \in Seq(Event)
    BY <1>2, IngestAssumption
  <2>2. \A i \in DOMAIN p : i \in Nat /\ p[i] \in Event
    BY <2>1
  <2>3. \A i \in DOMAIN p : p[i].start >= Unit
    BY <1>2, IngestAssumption
  <2>4. \A i, j \in DOMAIN p : p[i].fp = p[j].fp => i = j
    BY <1>2, IngestAssumption
  <2> QED BY <2>2, <2>3, <2>4 DEF Event
<1> QED BY <1>1, <1>2

LEMMA RuleFacts ==
  ASSUME NEW r \in DOMAIN Rules
  PROVE  /\ r \in Nat /\ Rules[r].matches \subseteq Alerts /\ Rules[r].stores \in Keys \cup {NoKey}
         /\ Rules[r].fields \subseteq Keys /\ Rules[r].notificationOnly \in BOOLEAN
<1>1. Rules[r] \in Rule /\ r \in Nat
  BY IngestAssumption
<1> QED BY <1>1 DEF Rule

LEMMA MatchingFacts ==
  ASSUME NEW pl
  PROVE  /\ \A p \in Matching(pl) : /\ p[1] \in DOMAIN pl /\ p[2] \in DOMAIN Rules
                                    /\ p = <<p[1], p[2]>> /\ pl[p[1]].fp \in Rules[p[2]].matches
         /\ \A i \in DOMAIN pl, r \in DOMAIN Rules :
              pl[i].fp \in Rules[r].matches => <<i, r>> \in Matching(pl)
BY DEF Matching

(* The column keeps the multiples of Unit, and rounds the others down.     *)
LEMMA Rounded ==
  ASSUME NEW u \in Nat \ {0}, NEW x \in Nat
  PROVE  /\ x % u \in 0..(u - 1)
         /\ x - (x % u) \in 0..x
         /\ x >= u => x - (x % u) # 0
         /\ \A y \in Nat : y <= x /\ y - (y % u) = y => y <= x - (x % u)
<1>1. x % u \in 0..(u - 1) /\ x = u * (x \div u) + (x % u)
  OBVIOUS
<1>2. x % u <= x
  OBVIOUS
<1>3. ASSUME NEW y \in Nat, y <= x, y - (y % u) = y
      PROVE  y <= x - (x % u)
  <2>1. y % u = 0 /\ y = u * (y \div u) /\ y \div u \in Nat /\ x \div u \in Nat
    BY <1>3
  <2>2. y \div u <= x \div u
    BY <1>3
  <2>3. \A m, n \in Nat : m <= n => u * m <= u * n
    OBVIOUS
  <2>4. u * (y \div u) <= u * (x \div u)
    BY <2>1, <2>2, <2>3
  <2> QED BY <1>1, <2>1, <2>4
<1> QED BY <1>1, <1>2, <1>3

LEMMA StoredStartFacts ==
  /\ \A x \in Starts \cup {Never} : StoredStart(x) \in Starts \cup {Never}
  /\ \A x \in Starts : x >= Unit => StoredStart(x) # Never
  /\ \A x, y \in Starts : y <= x /\ StoredStart(y) = y => y <= StoredStart(x)
<1>1. Unit \in Nat \ {0} /\ MaxStart \in Nat
  BY IngestAssumption
<1>2. ASSUME NEW x \in Starts \cup {Never}
      PROVE  StoredStart(x) \in Starts \cup {Never}
  <2>1. x \in Nat /\ x <= MaxStart
    BY <1>1 DEF Starts, Never
  <2>2. StoredStart(x) \in 0..x
    BY <1>1, <2>1, Rounded DEF StoredStart
  <2> QED BY <1>1, <2>1, <2>2 DEF Starts, Never
<1>3. ASSUME NEW x \in Starts, x >= Unit
      PROVE  StoredStart(x) # Never
  BY <1>1, <1>3, Rounded DEF StoredStart, Starts, Never
<1>4. ASSUME NEW x \in Starts, NEW y \in Starts, y <= x, StoredStart(y) = y
      PROVE  y <= StoredStart(x)
  BY <1>1, <1>4, Rounded DEF StoredStart, Starts
<1> QED BY <1>2, <1>3, <1>4

-----------------------------------------------------------------------------
(* What the steps make of a handler.                                       *)

LEMMA IdleFacts ==
  /\ IdleHandler \in Handler /\ IdleHandler.at = "idle" /\ IdleHandler.payload = << >>
  /\ IdleHandler.annots = << >> /\ IdleHandler.todo = {} /\ IdleHandler.tried = FALSE
  /\ IdleHandler.spent = 0 /\ IdleHandler.cancelled = FALSE /\ IdleHandler.answer = "none"
<1>1. [a \in Alerts |-> Never] \in [Alerts -> Starts \cup {Never}]
  OBVIOUS
<1>2. << >> \in Annots /\ << >> \in Payloads \cup {<< >>}
  BY DEF Annots
<1> QED BY <1>1, <1>2 DEF IdleHandler, Handler

LEMMA TFacts ==
  ASSUME TInv, NEW h \in Handlers
  PROVE  handlers[h] \in Handler /\ HandlerOK(handlers[h])
BY DEF TInv, TypeOK

Taken(payload, known) ==
  [IdleHandler EXCEPT !.at = "alerts", !.payload = payload, !.known = known,
                      !.annots = [i \in DOMAIN payload |-> payload[i].annots],
                      !.todo = Matching(payload)]

LEMMA TakenFacts ==
  ASSUME NEW payload \in Payloads, NEW known \in [Alerts -> Starts \cup {Never}]
  PROVE  LET n == Taken(payload, known) IN
         /\ n \in Handler /\ HandlerOK(n) /\ n.at = "alerts" /\ n.payload = payload
         /\ n.known = known /\ n.todo = Matching(payload) /\ n.tried = FALSE /\ n.answer = "none"
<1> DEFINE i == IdleHandler
           an == [j \in DOMAIN payload |-> payload[j].annots]
           todo == Matching(payload)
           n == [i EXCEPT !.at = "alerts", !.payload = payload, !.known = known, !.annots = an,
                          !.todo = todo]
<1>1. n = Taken(payload, known)
  BY DEF Taken
<1>2. an \in [DOMAIN payload -> SUBSET Keys] /\ an \in Annots
  BY PayloadFacts DEF Annots
<1>3. todo \in SUBSET (Nat \X DOMAIN Rules)
  BY MatchingFacts, PayloadFacts
<1>4. i \in Handler /\ i.tried = FALSE /\ i.spent = 0 /\ i.cancelled = FALSE /\ i.answer = "none"
  BY IdleFacts
<1> HIDE DEF i, an, todo
<1>5. /\ n \in Handler /\ n.at = "alerts" /\ n.payload = payload /\ n.known = known
      /\ n.annots = an /\ n.todo = todo /\ n.spent = i.spent /\ n.answer = i.answer
  BY <1>2, <1>3, <1>4 DEF Handler
<1>6. n.tried = i.tried /\ n.cancelled = i.cancelled
  BY <1>4 DEF Handler
<1> HIDE DEF n
<1>7. HandlerOK(n)
  <2>1. n.tried = FALSE /\ n.cancelled = FALSE
    BY <1>4, <1>6, Zenon
  <2>2. n.tried \in BOOLEAN /\ n.cancelled \in BOOLEAN /\ (n.tried => n.todo # {})
    BY <2>1, Zenon
  <2>3. /\ n.at \in {"idle", "alerts"} /\ n.payload \in Payloads \cup {<< >>} /\ n.at # "idle"
        /\ n.known \in [Alerts -> Starts \cup {Never}] /\ n.spent \in Nat /\ n.answer = "none"
        /\ n.annots \in [DOMAIN n.payload -> SUBSET Keys] /\ n.todo \subseteq Matching(n.payload)
    BY <1>2, <1>4, <1>5 DEF todo
  <2> QED BY <2>2, <2>3 DEF HandlerOK
<1> QED BY <1>1, <1>4, <1>5, <1>6, <1>7 DEF todo

(* The fields the steps after that change.                                 *)
Enriched(k, more, an) == [k EXCEPT !.tried = TRUE, !.spent = more, !.annots = an]
Finished(k, code) ==
  [k EXCEPT !.at = "idle", !.answer = code, !.annots = << >>, !.spent = 0,
            !.cancelled = FALSE, !.known = [a \in Alerts |-> Never]]

LEMMA EnrichedFacts ==
  ASSUME NEW k \in Handler, HandlerOK(k), k.at = "alerts", k.todo # {}, NEW more \in Nat,
         NEW an \in [DOMAIN k.payload -> SUBSET Keys]
  PROVE  LET n == Enriched(k, more, an) IN
         /\ n \in Handler /\ HandlerOK(n) /\ n.at = k.at /\ n.payload = k.payload
         /\ n.known = k.known /\ n.todo = k.todo /\ n.tried = TRUE /\ n.spent = more
         /\ n.cancelled = k.cancelled /\ n.answer = k.answer
<1> DEFINE n == [k EXCEPT !.tried = TRUE, !.spent = more, !.annots = an]
<1>1. an \in Annots
  <2>1. k.payload \in Payloads \cup {<< >>}
    BY DEF HandlerOK
  <2>2. CASE k.payload = << >>
    <3>1. Matching(<< >>) = {}
      BY MatchingFacts
    <3> QED BY <2>2, <3>1 DEF HandlerOK
  <2> QED BY <2>1, <2>2 DEF Annots
<1>2. /\ n \in Handler /\ n.at = k.at /\ n.payload = k.payload /\ n.known = k.known
      /\ n.annots = an /\ n.todo = k.todo /\ n.spent = more /\ n.answer = k.answer
  BY <1>1 DEF Handler
<1>3. n.tried = TRUE /\ n.cancelled = k.cancelled
  BY DEF Handler
<1> HIDE DEF n
<1>4. HandlerOK(n)
  BY <1>2, <1>3 DEF HandlerOK
<1> QED BY <1>2, <1>3, <1>4 DEF n, Enriched

LEMMA AdvanceFacts ==
  ASSUME NEW k \in Handler, HandlerOK(k), k.at = "alerts", NEW p
  PROVE  LET n == Advance(k, p) IN
         /\ n \in Handler /\ HandlerOK(n) /\ n.at = k.at /\ n.payload = k.payload
         /\ n.known = k.known /\ n.todo = k.todo \ {p} /\ n.tried = FALSE /\ n.spent = k.spent
         /\ n.cancelled = k.cancelled /\ n.answer = k.answer
<1> DEFINE rest == k.todo \ {p}
           n == [k EXCEPT !.todo = rest, !.tried = FALSE]
<1>1. rest \subseteq k.todo
  OBVIOUS
<1>2. n = Advance(k, p)
  BY DEF Advance
<1> HIDE DEF rest
<1>3. /\ n \in Handler /\ n.at = k.at /\ n.payload = k.payload /\ n.known = k.known
      /\ n.annots = k.annots /\ n.todo = rest /\ n.spent = k.spent /\ n.answer = k.answer
  BY <1>1 DEF Handler
<1>4. n.tried = FALSE /\ n.cancelled = k.cancelled
  BY DEF Handler
<1> HIDE DEF n
<1>5. HandlerOK(n)
  BY <1>1, <1>3, <1>4 DEF HandlerOK
<1> QED BY <1>2, <1>3, <1>4, <1>5 DEF rest

LEMMA CancelFacts ==
  ASSUME NEW k \in Handler, HandlerOK(k)
  PROVE  LET n == [k EXCEPT !.cancelled = TRUE] IN
         /\ n \in Handler /\ HandlerOK(n) /\ n.at = k.at
<1> DEFINE n == [k EXCEPT !.cancelled = TRUE]
<1>1. /\ n \in Handler /\ n.at = k.at /\ n.payload = k.payload /\ n.known = k.known
      /\ n.annots = k.annots /\ n.todo = k.todo /\ n.spent = k.spent /\ n.answer = k.answer
  BY DEF Handler
<1>2. n.tried = k.tried /\ n.cancelled = TRUE
  BY DEF Handler
<1> HIDE DEF n
<1>3. HandlerOK(n)
  BY <1>1, <1>2 DEF HandlerOK
<1> QED BY <1>1, <1>3 DEF n

LEMMA AnswerFacts ==
  ASSUME NEW k \in Handler, HandlerOK(k), AtBatch(k), NEW code \in {"200", "500"}
  PROVE  LET n == Finished(k, code) IN
         /\ n \in Handler /\ HandlerOK(n) /\ n.at = "idle" /\ n.payload = k.payload
         /\ n.todo = {} /\ n.answer = code
<1> DEFINE none == [a \in Alerts |-> Never]
           n == [k EXCEPT !.at = "idle", !.answer = code, !.annots = << >>, !.spent = 0,
                          !.cancelled = FALSE, !.known = none]
<1>1. none \in [Alerts -> Starts \cup {Never}] /\ << >> \in Annots
  BY DEF Annots
<1> HIDE DEF none
<1>2. /\ n \in Handler /\ n.at = "idle" /\ n.payload = k.payload /\ n.known = none
      /\ n.annots = << >> /\ n.todo = k.todo /\ n.spent = 0 /\ n.answer = code
  BY <1>1 DEF Handler
<1>3. n.tried = k.tried /\ n.cancelled = FALSE
  BY DEF Handler
<1> HIDE DEF n
<1>4. HandlerOK(n) /\ n.todo = {}
  <2>1. k.todo = {} /\ k.tried = FALSE
    BY DEF HandlerOK, AtBatch
  <2>2. n.tried = FALSE /\ n.tried \in BOOLEAN /\ n.cancelled \in BOOLEAN
    BY <1>3, <2>1, Zenon
  <2>3. /\ n.at \in {"idle", "alerts"} /\ n.payload \in Payloads \cup {<< >>} /\ n.at # "alerts"
        /\ n.known \in [Alerts -> Starts \cup {Never}] /\ n.spent \in Nat /\ n.todo = {}
        /\ n.answer \in {"none", "200", "500"}
    BY <1>1, <1>2, <2>1 DEF HandlerOK
  <2> QED BY <2>2, <2>3 DEF HandlerOK
<1> QED BY <1>2, <1>4 DEF n, none, Finished

-----------------------------------------------------------------------------
(* What the steps do, with the types of what they write.                   *)

(* A pair that is left to do: an alert of the payload and a rule.          *)
LEMMA PairFacts ==
  ASSUME NEW k, HandlerOK(k), NEW p \in k.todo
  PROVE  /\ k.at = "alerts" /\ k.payload \in Payloads \cup {<< >>}
         /\ p \in Matching(k.payload) /\ p[1] \in DOMAIN k.payload /\ p[2] \in DOMAIN Rules
         /\ p = <<p[1], p[2]>> /\ p[1] \in Nat /\ p[2] \in Nat
         /\ k.payload[p[1]].fp \in Alerts /\ k.payload[p[1]].start \in Starts
         /\ k.payload[p[1]].status \in Reported /\ k.annots \in [DOMAIN k.payload -> SUBSET Keys]
<1>1. /\ k.at = "alerts" /\ k.payload \in Payloads \cup {<< >>} /\ p \in Matching(k.payload)
      /\ k.annots \in [DOMAIN k.payload -> SUBSET Keys]
  BY DEF HandlerOK
<1>2. p[1] \in DOMAIN k.payload /\ p[2] \in DOMAIN Rules /\ p = <<p[1], p[2]>>
  BY <1>1, MatchingFacts
<1> QED BY <1>1, <1>2, PayloadFacts, RuleFacts

(* The steps of an enrichment, without its outcome.                        *)
Calls(h, p, more, an) ==
  LET k == handlers[h]
      e == k.payload[p[1]]
  IN  /\ AtPair(k, p) /\ ~k.tried /\ IsNew(k, p[1]) /\ more >= k.spent
      /\ handlers' = [handlers EXCEPT ![h] = Enriched(k, more, an)]
      /\ calls' = [calls EXCEPT ![p[2]][e.fp][e.start] = calls[p[2]][e.fp][e.start] + 1]
      /\ UNCHANGED <<active, members, requests, faults, orderly>>

LEMMA EnrichCalls ==
  ASSUME TInv, NEW h \in Handlers, NEW outcome, Enrich(h, outcome)
  PROVE  \E p \in handlers[h].todo, more \in Nat,
            an \in [DOMAIN handlers[h].payload -> SUBSET Keys] : Calls(h, p, more, an)
<1> DEFINE k == handlers[h]
<1>1. HandlerOK(k) /\ k \in Handler
  BY TFacts
<1>2. PICK p \in k.todo :
        /\ AtPair(k, p) /\ ~k.tried /\ ShouldEnrich(k, p)
        /\ Becomes(h, [k EXCEPT
             !.tried = TRUE,
             !.spent = IF outcome = "hung" THEN k.spent + 1 ELSE k.spent,
             !.annots = IF outcome = "stored"
                        THEN [k.annots EXCEPT ![p[1]] = k.annots[p[1]] \cup {Rules[p[2]].stores}]
                        ELSE k.annots])
        /\ calls' = [calls EXCEPT ![p[2]][k.payload[p[1]].fp][k.payload[p[1]].start] =
                       calls[p[2]][k.payload[p[1]].fp][k.payload[p[1]].start] + 1]
        /\ UNCHANGED <<active, members, requests, faults, orderly>>
  BY DEF Enrich, Fine
<1> DEFINE more == IF outcome = "hung" THEN k.spent + 1 ELSE k.spent
           an == IF outcome = "stored"
                 THEN [k.annots EXCEPT ![p[1]] = k.annots[p[1]] \cup {Rules[p[2]].stores}]
                 ELSE k.annots
<1>3. more \in Nat /\ more >= k.spent
  BY <1>1 DEF HandlerOK
<1>4. an \in [DOMAIN k.payload -> SUBSET Keys]
  <2>1. /\ p[1] \in DOMAIN k.payload /\ p[2] \in DOMAIN Rules
        /\ k.annots \in [DOMAIN k.payload -> SUBSET Keys]
    BY <1>1, PairFacts
  <2>2. Rules[p[2]].stores \in Keys
    BY <1>2, <2>1, RuleFacts DEF ShouldEnrich
  <2> HIDE DEF k
  <2> QED BY <2>1, <2>2
<1>5. Calls(h, p, more, an)
  BY <1>2, <1>3 DEF Calls, Becomes, ShouldEnrich, Enriched
<1> QED BY <1>3, <1>4, <1>5

(* The end of an iteration of ProcessAlert: the member that is written, or *)
(* none when the deadline has passed or a query has failed.                *)
Writes(h, p) ==
  LET k == handlers[h]
      r == p[2]
      e == k.payload[p[1]]
  IN  /\ ~Expired(k) /\ UNCHANGED <<faults, orderly>>
      /\ \E fields \in SUBSET Keys :
            /\ fields \subseteq Rules[r].fields
            /\ members' = [members EXCEPT ![r][e.fp] =
                 [status |-> MemberStatus(e, r), start |-> e.start,
                  fields |-> Merged(members[r][e.fp].fields, fields)]]

WritesNot(h) ==
  /\ UNCHANGED members
  /\ \/ Expired(handlers[h]) /\ UNCHANGED <<faults, orderly>>
     \/ Fault

LEMMA UpsertWrites ==
  ASSUME TInv, NEW h \in Handlers, NEW done \in BOOLEAN, UpsertGroupMember(h, done)
  PROVE  \E p \in handlers[h].todo :
           /\ AtPair(handlers[h], p)
           /\ handlers' = [handlers EXCEPT ![h] = Advance(handlers[h], p)]
           /\ Writes(h, p) \/ WritesNot(h)
           /\ UNCHANGED <<active, requests, calls>>
<1> DEFINE k == handlers[h]
<1>1. HandlerOK(k)
  BY TFacts
<1>2. PICK p \in k.todo :
        /\ AtPair(k, p) /\ Becomes(h, Advance(k, p))
        /\ \/ /\ done /\ ~Expired(k) /\ Fine
              /\ members' = [members EXCEPT ![p[2]][k.payload[p[1]].fp] =
                   [status |-> MemberStatus(k.payload[p[1]], p[2]), start |-> k.payload[p[1]].start,
                    fields |-> Merged(members[p[2]][k.payload[p[1]].fp].fields,
                                      ResolveDisplayFields(p[2], k.annots[p[1]]))]]
           \/ /\ ~done /\ UNCHANGED members
              /\ IF Expired(k) THEN Fine ELSE Fault
        /\ UNCHANGED <<active, requests, calls>>
  BY DEF UpsertGroupMember
<1>3. p[2] \in DOMAIN Rules
  BY <1>1, PairFacts
<1> DEFINE fields == ResolveDisplayFields(p[2], k.annots[p[1]])
<1>4. fields \subseteq Rules[p[2]].fields /\ fields \in SUBSET Keys
  BY <1>3, RuleFacts DEF ResolveDisplayFields
<1> HIDE DEF fields, k
<1>5. Writes(h, p) \/ WritesNot(h)
  BY <1>2, <1>4 DEF Writes, WritesNot, Fine, fields, k
<1> QED BY <1>2, <1>5 DEF Becomes, k

(* The batch: the alerts of the payload have their rows, the others keep   *)
(* theirs.                                                                 *)
LEMMA StoredFacts ==
  ASSUME NEW pl \in Payloads \cup {<< >>}
  PROVE  /\ \A i \in DOMAIN pl : /\ Stored(pl)[pl[i].fp].status = pl[i].status
                                /\ Stored(pl)[pl[i].fp].start = StoredStart(pl[i].start)
                                /\ Stored(pl)[pl[i].fp] \in Row
                                /\ Stored(pl)[pl[i].fp].start # Never
         /\ \A a \in Alerts : (\A i \in DOMAIN pl : pl[i].fp # a) => Stored(pl)[a] = active[a]
         /\ DOMAIN Stored(pl) = Alerts /\ Stored(pl) = [a \in Alerts |-> Stored(pl)[a]]
<1>1. ASSUME NEW i \in DOMAIN pl
      PROVE  /\ Stored(pl)[pl[i].fp] = [status |-> pl[i].status, start |-> StoredStart(pl[i].start)]
             /\ pl[i].status \in Status /\ StoredStart(pl[i].start) \in Starts \cup {Never}
             /\ StoredStart(pl[i].start) # Never
  <2> DEFINE a == pl[i].fp
             j == CHOOSE j \in DOMAIN pl : pl[j].fp = a
  <2>1. j = i
    BY PayloadFacts
  <2>2. a \in Alerts /\ pl[i].status \in Status /\ pl[i].start \in Starts /\ pl[i].start >= Unit
    BY PayloadFacts DEF Status
  <2>3. Stored(pl)[a] = [status |-> pl[j].status, start |-> StoredStart(pl[j].start)]
    BY <2>2 DEF Stored
  <2> QED BY <2>1, <2>2, <2>3, StoredStartFacts
<1>2. ASSUME NEW i \in DOMAIN pl
      PROVE  /\ Stored(pl)[pl[i].fp].status = pl[i].status
             /\ Stored(pl)[pl[i].fp].start = StoredStart(pl[i].start)
             /\ Stored(pl)[pl[i].fp] \in Row
             /\ Stored(pl)[pl[i].fp].start # Never
  <2> DEFINE x == Stored(pl)[pl[i].fp]
             st == pl[i].status
             w == StoredStart(pl[i].start)
  <2>1. x = [status |-> st, start |-> w] /\ st \in Status /\ w \in Starts \cup {Never} /\ w # Never
    BY <1>1
  <2> HIDE DEF x, st, w
  <2>2. x.status = st /\ x.start = w /\ x \in Row /\ x.start # Never
    BY <2>1 DEF Row
  <2> QED BY <2>2 DEF x, st, w
<1>3. \A a \in Alerts : (\A i \in DOMAIN pl : pl[i].fp # a) => Stored(pl)[a] = active[a]
  BY DEF Stored
<1>4. DOMAIN Stored(pl) = Alerts /\ Stored(pl) = [a \in Alerts |-> Stored(pl)[a]]
  BY DEF Stored
<1> QED BY <1>2, <1>3, <1>4

LEMMA HandlersStep ==
  ASSUME TInv, NEW h \in Handlers, NEW n \in Handler, HandlerOK(n),
         handlers' = [handlers EXCEPT ![h] = n]
  PROVE  /\ handlers' \in [Handlers -> Handler] /\ DOMAIN handlers' = Handlers
         /\ \A k \in Handlers : HandlerOK(handlers'[k])
         /\ handlers'[h] = n /\ \A k \in Handlers \ {h} : handlers'[k] = handlers[k]
<1>1. handlers \in [Handlers -> Handler] /\ \A k \in Handlers : HandlerOK(handlers[k])
  BY DEF TInv, TypeOK
<1> QED BY <1>1

LEMMA FaultFacts ==
  ASSUME TInv
  PROVE  /\ faults \in Nat
         /\ Fault => faults' \in 0..MaxFaults /\ faults' # 0 /\ orderly' = FALSE
         /\ Fine => faults' \in 0..MaxFaults /\ faults' = faults /\ orderly' = orderly /\ orderly' \in BOOLEAN
BY IngestAssumption DEF TInv, TypeOK, Fault, Fine

LEMMA StoredType ==
  ASSUME TInv, NEW pl \in Payloads \cup {<< >>}
  PROVE  Stored(pl) \in [Alerts -> Row]
<1>1. active \in [Alerts -> Row]
  BY DEF TInv, TypeOK, Row
<1>2. \A a \in Alerts : Stored(pl)[a] \in Row
  BY <1>1, StoredFacts
<1> QED BY <1>2, StoredFacts

LEMMA AcceptTypes ==
  ASSUME TInv, NEW h \in Handlers, NEW payload \in Payloads,
         Receive(h, payload) \/ ReceiveBlind(h, payload)
  PROVE  TInv'
<1>1. PICK known \in [Alerts -> Starts \cup {Never}] :
        /\ Accept(h, payload, known)
        /\ \/ UNCHANGED faults /\ orderly' \in BOOLEAN
           \/ Fault
  <2>1. /\ [a \in Alerts |-> active[a].start] \in [Alerts -> Starts \cup {Never}]
        /\ [a \in Alerts |-> Never] \in [Alerts -> Starts \cup {Never}]
    BY DEF TInv, TypeOK
  <2> QED BY <2>1 DEF Receive, ReceiveBlind
<1>2. /\ handlers' = [handlers EXCEPT ![h] = Taken(payload, known)]
      /\ requests' = requests + 1 /\ requests < MaxRequests /\ UNCHANGED <<active, members, calls>>
  BY <1>1 DEF Accept, Becomes, Taken
<1>3. Taken(payload, known) \in Handler /\ HandlerOK(Taken(payload, known))
  BY TakenFacts
<1>4. /\ handlers' \in [Handlers -> Handler] /\ DOMAIN handlers' = Handlers
      /\ \A k \in Handlers : HandlerOK(handlers'[k])
  BY <1>2, <1>3, HandlersStep
<1>5. requests' \in 0..MaxRequests
  BY <1>2, IngestAssumption DEF TInv, TypeOK
<1>6. faults' \in 0..MaxFaults /\ orderly' \in BOOLEAN
  BY <1>1, FaultFacts DEF TInv, TypeOK
<1> QED BY <1>2, <1>4, <1>5, <1>6 DEF TInv, TypeOK

LEMMA EnrichTypes ==
  ASSUME TInv, NEW h \in Handlers, NEW p \in handlers[h].todo, NEW more \in Nat,
         NEW an \in [DOMAIN handlers[h].payload -> SUBSET Keys], Calls(h, p, more, an)
  PROVE  TInv'
<1> DEFINE k == handlers[h]
           e == k.payload[p[1]]
           n == Enriched(k, more, an)
<1>1. /\ HandlerOK(k) /\ k \in Handler /\ k.at = "alerts" /\ k.todo # {}
      /\ p[2] \in DOMAIN Rules /\ e.fp \in Alerts /\ e.start \in Starts
  BY TFacts, PairFacts
<1>2. /\ handlers' = [handlers EXCEPT ![h] = n]
      /\ calls' = [calls EXCEPT ![p[2]][e.fp][e.start] = calls[p[2]][e.fp][e.start] + 1]
      /\ UNCHANGED <<active, members, requests, faults, orderly>>
  BY DEF Calls
<1>3. n \in Handler /\ HandlerOK(n)
  BY <1>1, EnrichedFacts
<1> HIDE DEF k, n, e
<1>4. /\ handlers' \in [Handlers -> Handler] /\ DOMAIN handlers' = Handlers
      /\ \A o \in Handlers : HandlerOK(handlers'[o])
  BY <1>2, <1>3, HandlersStep
<1>5. calls' \in [DOMAIN Rules -> [Alerts -> [Starts -> Nat]]]
  BY <1>1, <1>2 DEF TInv, TypeOK
<1> QED BY <1>2, <1>4, <1>5 DEF TInv, TypeOK

(* The row of the member that is written.                                  *)
Wrote(h, p, row) ==
  LET e == handlers[h].payload[p[1]]
      r == p[2]
  IN  /\ members' = [members EXCEPT ![r][e.fp] = row]
      /\ row.status = MemberStatus(e, r) /\ row.status # Absent /\ row.start = e.start
      /\ \E fields \in SUBSET Keys : /\ fields \subseteq Rules[r].fields
                                     /\ row.fields = Merged(members[r][e.fp].fields, fields)

LEMMA WritesRow ==
  ASSUME TInv, NEW h \in Handlers, NEW p \in handlers[h].todo, Writes(h, p)
  PROVE  \E row \in MemberRow : Wrote(h, p, row)
<1> DEFINE k == handlers[h]
           r == p[2]
           e == k.payload[p[1]]
<1>1. /\ r \in DOMAIN Rules /\ e.fp \in Alerts /\ e.start \in Starts /\ e.status \in Reported
  BY TFacts, PairFacts
<1>2. PICK fields \in SUBSET Keys :
        /\ fields \subseteq Rules[r].fields
        /\ members' = [members EXCEPT ![r][e.fp] =
             [status |-> MemberStatus(e, r), start |-> e.start,
              fields |-> Merged(members[r][e.fp].fields, fields)]]
  BY DEF Writes
<1> DEFINE st == MemberStatus(e, r)
           w == e.start
           fs == Merged(members[r][e.fp].fields, fields)
           row == [status |-> st, start |-> w, fields |-> fs]
<1>3. st \in Reported
  BY <1>1 DEF MemberStatus, Reported
<1>4. fs \in SUBSET Keys
  <2>1. members[r][e.fp].fields \in SUBSET Keys
    BY <1>1 DEF TInv, TypeOK
  <2> QED BY <2>1 DEF Merged
<1>5. members' = [members EXCEPT ![r][e.fp] = row]
  BY <1>2
<1> HIDE DEF st, w, fs
<1>6. row \in MemberRow /\ row.status = st /\ row.start = w /\ row.fields = fs
  BY <1>1, <1>3, <1>4 DEF MemberRow, Status, w
<1>7. st # Absent
  BY <1>3 DEF Reported, Absent
<1> HIDE DEF row
<1>8. Wrote(h, p, row)
  BY <1>2, <1>5, <1>6, <1>7 DEF Wrote, st, w, fs
<1> QED BY <1>6, <1>8

LEMMA UpsertTypes ==
  ASSUME TInv, NEW h \in Handlers, NEW p \in handlers[h].todo,
         handlers' = [handlers EXCEPT ![h] = Advance(handlers[h], p)],
         Writes(h, p) \/ WritesNot(h), UNCHANGED <<active, requests, calls>>
  PROVE  TInv'
<1>1. HandlerOK(handlers[h]) /\ handlers[h] \in Handler /\ handlers[h].at = "alerts"
  BY TFacts, PairFacts
<1>2. Advance(handlers[h], p) \in Handler /\ HandlerOK(Advance(handlers[h], p))
  BY <1>1, AdvanceFacts
<1>3. /\ handlers' \in [Handlers -> Handler] /\ DOMAIN handlers' = Handlers
      /\ \A o \in Handlers : HandlerOK(handlers'[o])
  BY <1>2, HandlersStep
<1>4. faults' \in 0..MaxFaults /\ orderly' \in BOOLEAN
  BY FaultFacts DEF Writes, WritesNot, TInv, TypeOK
<1>5. members' \in [DOMAIN Rules -> [Alerts -> MemberRow]]
  <2>1. members \in [DOMAIN Rules -> [Alerts -> MemberRow]]
    BY DEF TInv, TypeOK, MemberRow
  <2>2. CASE Writes(h, p)
    <3>1. PICK row \in MemberRow : Wrote(h, p, row)
      BY <2>2, WritesRow
    <3> QED BY <2>1, <3>1 DEF Wrote
  <2>3. CASE WritesNot(h)
    BY <2>1, <2>3 DEF WritesNot
  <2> QED BY <2>2, <2>3
<1> QED BY <1>3, <1>4, <1>5 DEF TInv, TypeOK, MemberRow

LEMMA BatchTypes ==
  ASSUME TInv, NEW h \in Handlers, BatchUpsertAlerts(h) \/ BatchUpsertFails(h)
  PROVE  TInv'
<1> DEFINE k == handlers[h]
<1>1. HandlerOK(k) /\ k \in Handler /\ AtBatch(k) /\ k.payload \in Payloads \cup {<< >>}
  BY TFacts DEF BatchUpsertAlerts, BatchUpsertFails, HandlerOK
<1>2. PICK code \in {"200", "500"} : Answer(h, code)
  BY DEF BatchUpsertAlerts, BatchUpsertFails
<1> DEFINE n == Finished(k, code)
<1>3. handlers' = [handlers EXCEPT ![h] = n]
  BY <1>2 DEF Answer, Becomes, Finished
<1>4. n \in Handler /\ HandlerOK(n)
  BY <1>1, AnswerFacts
<1> HIDE DEF k, n
<1>5. /\ handlers' \in [Handlers -> Handler] /\ DOMAIN handlers' = Handlers
      /\ \A o \in Handlers : HandlerOK(handlers'[o])
  BY <1>3, <1>4, HandlersStep
<1>6. active' \in [Alerts -> Row]
  <2>1. active' = active \/ active' = Stored(k.payload)
    BY DEF BatchUpsertAlerts, BatchUpsertFails, k
  <2> QED BY <1>1, <2>1, StoredType DEF TInv, TypeOK, Row
<1>7. faults' \in 0..MaxFaults /\ orderly' \in BOOLEAN
  BY FaultFacts DEF BatchUpsertAlerts, BatchUpsertFails, TInv, TypeOK
<1>8. UNCHANGED <<members, requests, calls>>
  BY DEF BatchUpsertAlerts, BatchUpsertFails
<1> QED BY <1>5, <1>6, <1>7, <1>8 DEF TInv, TypeOK, Row

LEMMA StopTypes ==
  ASSUME TInv, NEW h \in Handlers, Cancel(h) \/ Crash(h)
  PROVE  TInv'
<1> DEFINE n == [handlers[h] EXCEPT !.cancelled = TRUE]
<1>1. n \in Handler /\ HandlerOK(n)
  BY TFacts, CancelFacts
<1>2. IdleHandler \in Handler /\ HandlerOK(IdleHandler)
  <2>1. [a \in Alerts |-> Never] \in [Alerts -> Starts \cup {Never}]
    OBVIOUS
  <2> QED BY <2>1, IdleFacts DEF HandlerOK, IdleHandler
<1>3. handlers' = [handlers EXCEPT ![h] = n] \/ handlers' = [handlers EXCEPT ![h] = IdleHandler]
  BY DEF Cancel, Crash, Becomes
<1> HIDE DEF n
<1>4. /\ handlers' \in [Handlers -> Handler] /\ DOMAIN handlers' = Handlers
      /\ \A o \in Handlers : HandlerOK(handlers'[o])
  BY <1>1, <1>2, <1>3, HandlersStep
<1>5. faults' \in 0..MaxFaults /\ orderly' \in BOOLEAN
  BY FaultFacts DEF Cancel, Crash
<1>6. UNCHANGED <<active, members, requests, calls>>
  BY DEF Cancel, Crash
<1> QED BY <1>4, <1>5, <1>6 DEF TInv, TypeOK

-----------------------------------------------------------------------------
(* What is recorded.                                                       *)

LEMMA WroteOne ==
  ASSUME TInv, NEW h \in Handlers, NEW p \in handlers[h].todo, NEW row \in MemberRow,
         Wrote(h, p, row)
  PROVE  /\ members'[p[2]][handlers[h].payload[p[1]].fp] = row
         /\ \A r \in DOMAIN Rules, a \in Alerts :
              ~(r = p[2] /\ a = handlers[h].payload[p[1]].fp) => members'[r][a] = members[r][a]
<1> DEFINE q == p[2]
           b == handlers[h].payload[p[1]].fp
<1>1. q \in DOMAIN Rules /\ b \in Alerts
  BY TFacts, PairFacts
<1>2. members' = [members EXCEPT ![q][b] = row] /\ members \in [DOMAIN Rules -> [Alerts -> MemberRow]]
  BY DEF Wrote, TInv, TypeOK, MemberRow
<1> HIDE DEF q, b
<1>3. /\ members'[q][b] = row
      /\ \A r \in DOMAIN Rules, a \in Alerts : ~(r = q /\ a = b) => members'[r][a] = members[r][a]
  BY <1>1, <1>2
<1> QED BY <1>3 DEF q, b

LEMMA WritesOne ==
  ASSUME TInv, NEW h \in Handlers, NEW p \in handlers[h].todo, Writes(h, p)
  PROVE  LET r == p[2]
             e == handlers[h].payload[p[1]]
         IN  /\ members'[r][e.fp].status = MemberStatus(e, r)
             /\ members'[r][e.fp].status # Absent
             /\ members'[r][e.fp].start = e.start
<1> DEFINE r == p[2]
           e == handlers[h].payload[p[1]]
<1>1. PICK row \in MemberRow : Wrote(h, p, row)
  BY WritesRow
<1>2. row.status = MemberStatus(e, r) /\ row.status # Absent /\ row.start = e.start
  BY <1>1, Zenon DEF Wrote
<1>3. members'[r][e.fp] = row
  BY <1>1, WroteOne, Zenon
<1> QED BY <1>2, <1>3

LEMMA WritesFrame ==
  ASSUME TInv, NEW h \in Handlers, NEW p \in handlers[h].todo, Writes(h, p),
         NEW r \in DOMAIN Rules, NEW a \in Alerts,
         ~(r = p[2] /\ a = handlers[h].payload[p[1]].fp)
  PROVE  members'[r][a] = members[r][a]
<1>1. PICK row \in MemberRow : Wrote(h, p, row)
  BY WritesRow
<1> QED BY <1>1, WroteOne

LEMMA FieldsStep ==
  ASSUME TInv, FieldsInv, NEW h \in Handlers, NEW p \in handlers[h].todo,
         Writes(h, p) \/ WritesNot(h)
  PROVE  /\ FieldsInv'
         /\ \A r \in DOMAIN Rules, a \in Alerts : Rules[r].fields = {Rules[r].stores} =>
              members[r][a].fields \subseteq members'[r][a].fields
<1>1. CASE WritesNot(h)
  BY <1>1 DEF WritesNot, FieldsInv
<1>2. CASE Writes(h, p)
  <2> DEFINE q == p[2]
             b == handlers[h].payload[p[1]].fp
             old == members[q][b].fields
  <2>1. PICK row \in MemberRow : Wrote(h, p, row)
    BY <1>2, WritesRow
  <2>2. /\ members'[q][b] = row
        /\ \A r \in DOMAIN Rules, a \in Alerts : ~(r = q /\ a = b) => members'[r][a] = members[r][a]
    BY <2>1, WroteOne
  <2>3. q \in DOMAIN Rules /\ b \in Alerts
    BY TFacts, PairFacts
  <2>4. old \subseteq Rules[q].fields
    BY <2>3 DEF FieldsInv
  <2>5. PICK fields \in SUBSET Keys : fields \subseteq Rules[q].fields /\ row.fields = Merged(old, fields)
    BY <2>1 DEF Wrote
  <2> HIDE DEF q, b, old
  <2>6. /\ row.fields \subseteq Rules[q].fields
        /\ Rules[q].fields = {Rules[q].stores} => old \subseteq row.fields
    BY <2>4, <2>5 DEF Merged
  <2>7. ASSUME NEW r \in DOMAIN Rules, NEW a \in Alerts
        PROVE  /\ members'[r][a].fields \subseteq Rules[r].fields
               /\ Rules[r].fields = {Rules[r].stores} => members[r][a].fields \subseteq members'[r][a].fields
    <3>1. CASE r = q /\ a = b
      BY <2>2, <2>6, <3>1 DEF old
    <3>2. CASE ~(r = q /\ a = b)
      BY <2>2, <3>2 DEF FieldsInv
    <3> QED BY <3>1, <3>2
  <2> QED BY <2>7 DEF FieldsInv
<1> QED BY <1>1, <1>2

(* No member and no row goes away.                                         *)
Grown(act, mem, act2, mem2) ==
  /\ \A r \in DOMAIN Rules, a \in Alerts : mem[r][a].status # Absent => mem2[r][a].status # Absent
  /\ \A a \in Alerts : act[a].start # Never => act2[a].start # Never

LEMMA GrownGroups ==
  ASSUME NEW k, HandlerOK(k), NEW act, NEW mem, NEW act2, NEW mem2, Grown(act, mem, act2, mem2)
  PROVE  /\ InGroups(k, mem) => InGroups(k, mem2)
         /\ InTable(k, act) => InTable(k, act2)
<1>1. k.payload \in Payloads \cup {<< >>}
  BY DEF HandlerOK
<1>2. \A p \in Matching(k.payload) : p[2] \in DOMAIN Rules /\ k.payload[p[1]].fp \in Alerts
  BY <1>1, MatchingFacts, PayloadFacts
<1>3. \A i \in DOMAIN k.payload : k.payload[i].fp \in Alerts
  BY <1>1, PayloadFacts
<1> QED BY <1>2, <1>3 DEF InGroups, InTable, Grown

LEMMA RecordedStep ==
  ASSUME TInv, RecordedInv, NEW h \in Handlers, NEW n \in Handler, HandlerOK(n),
         handlers' = [handlers EXCEPT ![h] = n], Grown(active, members, active', members'),
         faults' = 0 => faults = 0 /\ RecordedSoFar(n, active', members')
  PROVE  RecordedInv'
<1> SUFFICES ASSUME faults' = 0, NEW o \in Handlers
             PROVE  RecordedSoFar(handlers'[o], active', members')
  BY DEF RecordedInv
<1>1. RecordedSoFar(handlers[o], active, members) /\ HandlerOK(handlers[o])
  BY TFacts DEF RecordedInv
<1>2. RecordedSoFar(handlers[o], active', members')
  BY <1>1, GrownGroups DEF RecordedSoFar
<1>3. handlers'[o] = IF o = h THEN n ELSE handlers[o]
  BY HandlersStep
<1> QED BY <1>2, <1>3

LEMMA AcceptRecorded ==
  ASSUME TInv, RecordedInv, NEW h \in Handlers, NEW payload \in Payloads,
         Receive(h, payload) \/ ReceiveBlind(h, payload)
  PROVE  RecordedInv'
<1>1. PICK known \in [Alerts -> Starts \cup {Never}] :
        Accept(h, payload, known) /\ (UNCHANGED faults \/ Fault)
  <2>1. /\ [a \in Alerts |-> active[a].start] \in [Alerts -> Starts \cup {Never}]
        /\ [a \in Alerts |-> Never] \in [Alerts -> Starts \cup {Never}]
    BY DEF TInv, TypeOK
  <2> QED BY <2>1 DEF Receive, ReceiveBlind
<1> DEFINE n == Taken(payload, known)
<1>2. handlers' = [handlers EXCEPT ![h] = n] /\ UNCHANGED <<active, members>>
  BY <1>1 DEF Accept, Becomes, Taken
<1>3. /\ n \in Handler /\ HandlerOK(n) /\ n.payload = payload /\ n.todo = Matching(payload)
      /\ n.answer = "none"
  BY TakenFacts, ZenonT(40)
<1> HIDE DEF n
<1>4. RecordedSoFar(n, active', members')
  BY <1>3 DEF RecordedSoFar, InGroups
<1>5. faults' = 0 => faults = 0
  BY <1>1, FaultFacts
<1> QED BY <1>2, <1>3, <1>4, <1>5, RecordedStep DEF Grown

LEMMA EnrichRecorded ==
  ASSUME TInv, RecordedInv, NEW h \in Handlers, NEW p \in handlers[h].todo, NEW more \in Nat,
         NEW an \in [DOMAIN handlers[h].payload -> SUBSET Keys], Calls(h, p, more, an)
  PROVE  RecordedInv'
<1> DEFINE k == handlers[h]
           n == Enriched(k, more, an)
<1>1. HandlerOK(k) /\ k \in Handler /\ k.at = "alerts" /\ k.todo # {}
  BY TFacts, PairFacts
<1>2. /\ handlers' = [handlers EXCEPT ![h] = n] /\ more >= k.spent
      /\ UNCHANGED <<active, members, faults>>
  BY DEF Calls
<1>3. faults = 0 => RecordedSoFar(k, active, members)
  BY DEF RecordedInv
<1>4. an \in [DOMAIN k.payload -> SUBSET Keys]
  OBVIOUS
<1> HIDE DEF k
<1>5. /\ n \in Handler /\ HandlerOK(n) /\ n.at = k.at /\ n.payload = k.payload
      /\ n.known = k.known /\ n.todo = k.todo /\ n.tried = TRUE /\ n.spent = more
      /\ n.cancelled = k.cancelled /\ n.answer = k.answer
  BY <1>1, <1>4, EnrichedFacts
<1> HIDE DEF n
<1>6. ~Expired(n) => ~Expired(k)
  BY <1>1, <1>2, <1>5, IngestAssumption DEF Expired, HandlerOK
<1>7. faults' = 0 => faults = 0 /\ RecordedSoFar(n, active', members')
  BY <1>2, <1>3, <1>5, <1>6 DEF RecordedSoFar, InGroups, InTable
<1> QED BY <1>2, <1>5, <1>7, RecordedStep DEF Grown, k

LEMMA UpsertRecorded ==
  ASSUME TInv, RecordedInv, NEW h \in Handlers, NEW p \in handlers[h].todo,
         handlers' = [handlers EXCEPT ![h] = Advance(handlers[h], p)],
         Writes(h, p) \/ WritesNot(h), UNCHANGED <<active, requests, calls>>
  PROVE  RecordedInv'
<1> DEFINE k == handlers[h]
           n == Advance(k, p)
<1>1. HandlerOK(k) /\ k \in Handler /\ k.at = "alerts" /\ k.todo # {}
  BY TFacts, PairFacts
<1>2. /\ n \in Handler /\ HandlerOK(n) /\ n.payload = k.payload /\ n.todo = k.todo \ {p}
      /\ n.answer = k.answer /\ n.at = k.at /\ n.spent = k.spent /\ n.cancelled = k.cancelled
  BY <1>1, AdvanceFacts
<1>3. faults = 0 => RecordedSoFar(k, active, members)
  BY DEF RecordedInv
<1>4. Expired(n) <=> Expired(k)
  BY <1>2 DEF Expired
<1>5. CASE WritesNot(h)
  <2>1. faults' = 0 => faults = 0 /\ Expired(k)
    BY <1>5, FaultFacts DEF WritesNot
  <2>2. faults' = 0 => faults = 0 /\ RecordedSoFar(n, active', members')
    BY <1>1, <1>2, <1>3, <1>4, <2>1 DEF RecordedSoFar
  <2>3. Grown(active, members, active', members')
    BY <1>5 DEF WritesNot, Grown
  <2> QED BY <1>2, <2>2, <2>3, RecordedStep
<1>6. CASE Writes(h, p)
  <2>1. members'[p[2]][k.payload[p[1]].fp].status # Absent
    BY <1>6, WritesOne
  <2>2. \A r \in DOMAIN Rules, a \in Alerts :
          ~(r = p[2] /\ a = k.payload[p[1]].fp) => members'[r][a] = members[r][a]
    BY <1>6, WritesFrame
  <2>3. Grown(active, members, active', members')
    BY <2>1, <2>2 DEF Grown
  <2>4. faults' = faults /\ ~Expired(k)
    BY <1>6 DEF Writes
  <2> HIDE DEF k, n
  <2>5. faults' = 0 => faults = 0 /\ RecordedSoFar(n, active', members')
    <3> SUFFICES ASSUME faults' = 0
                 PROVE  InGroups(n, members') /\ n.answer # "200"
      BY <2>4 DEF RecordedSoFar
    <3>1. InGroups(k, members) /\ k.answer # "200"
      BY <1>1, <1>3, <2>4 DEF RecordedSoFar
    <3>2. InGroups(k, members')
      BY <1>1, <2>3, <3>1, GrownGroups
    <3> QED BY <1>2, <2>1, <3>1, <3>2 DEF InGroups
  <2> QED BY <1>2, <2>3, <2>5, RecordedStep DEF n, k
<1> QED BY <1>5, <1>6

LEMMA BatchRecorded ==
  ASSUME TInv, RecordedInv, NEW h \in Handlers, BatchUpsertAlerts(h) \/ BatchUpsertFails(h)
  PROVE  RecordedInv'
<1> DEFINE k == handlers[h]
<1>1. HandlerOK(k) /\ k \in Handler /\ AtBatch(k) /\ k.payload \in Payloads \cup {<< >>}
  BY TFacts DEF BatchUpsertAlerts, BatchUpsertFails, HandlerOK
<1>2. PICK code \in {"200", "500"} :
        Answer(h, code) /\ (code = "200" => BatchUpsertAlerts(h))
  BY DEF BatchUpsertAlerts, BatchUpsertFails
<1> DEFINE n == Finished(k, code)
<1>3. handlers' = [handlers EXCEPT ![h] = n]
  BY <1>2 DEF Answer, Becomes, Finished
<1>4. /\ n \in Handler /\ HandlerOK(n) /\ n.at = "idle" /\ n.payload = k.payload /\ n.todo = {}
      /\ n.answer = code
  BY <1>1, AnswerFacts
<1> HIDE DEF n
<1>5. Grown(active, members, active', members')
  <2>1. UNCHANGED members /\ (active' = active \/ active' = Stored(k.payload))
    BY DEF BatchUpsertAlerts, BatchUpsertFails
  <2>2. \A a \in Alerts : active[a].start # Never => Stored(k.payload)[a].start # Never
    BY <1>1, StoredFacts
  <2> QED BY <2>1, <2>2 DEF Grown
<1>6. faults' = 0 => faults = 0
  BY FaultFacts DEF BatchUpsertAlerts, BatchUpsertFails, Fine
<1>7. faults' = 0 => RecordedSoFar(n, active', members')
  <2> SUFFICES ASSUME faults' = 0, code = "200"
               PROVE  InGroups(n, members') /\ InTable(n, active')
    BY <1>4 DEF RecordedSoFar
  <2>1. ~Expired(k) /\ active' = Stored(k.payload) /\ UNCHANGED members
    BY <1>2 DEF BatchUpsertAlerts
  <2>2. InGroups(k, members)
    BY <1>1, <1>6, <2>1 DEF RecordedInv, RecordedSoFar, AtBatch
  <2>3. InGroups(n, members')
    BY <1>1, <1>4, <2>1, <2>2 DEF InGroups, AtBatch
  <2>4. InTable(n, active')
    BY <1>1, <1>4, <2>1, StoredFacts DEF InTable
  <2> QED BY <2>3, <2>4
<1> QED BY <1>3, <1>4, <1>5, <1>6, <1>7, RecordedStep

-----------------------------------------------------------------------------
(* Requests that come one by one.                                          *)

(* Nobody but the request that is being handled has to be current.         *)
LEMMA LoneCurrent ==
  ASSUME NEW h \in Handlers, Current(handlers'[h], active', members'),
         \A o \in Handlers \ {h} : handlers'[o] = handlers[o] /\ handlers[o].at # "alerts"
  PROVE  AllCurrent'
<1>1. ASSUME NEW o \in Handlers
      PROVE  Current(handlers'[o], active', members')
  <2>1. CASE o = h
    BY <2>1
  <2>2. CASE o # h
    BY <2>2 DEF Current
  <2> QED BY <2>1, <2>2
<1> QED BY <1>1 DEF AllCurrent

LEMMA ReceiveOrderly ==
  ASSUME TInv, OrderlyInv, NEW h \in Handlers, NEW payload \in Payloads, Receive(h, payload)
  PROVE  OrderlyInv'
<1> SUFFICES ASSUME orderly'
             PROVE  OneByOne' /\ AllCurrent' /\ OthersAgree' /\ CalledOnce'
  BY DEF OrderlyInv
<1> DEFINE known == [a \in Alerts |-> active[a].start]
           n == Taken(payload, known)
<1>1. /\ orderly /\ \A o \in Handlers : handlers[o].at = "idle"
      /\ \A i \in DOMAIN payload : payload[i].start >= active[payload[i].fp].start
      /\ handlers' = [handlers EXCEPT ![h] = n] /\ UNCHANGED <<active, members, calls>>
  BY DEF Receive, Accept, Becomes, Taken
<1>2. OneByOne /\ AllCurrent /\ OthersAgree /\ CalledOnce
  BY <1>1 DEF OrderlyInv
<1>3. known \in [Alerts -> Starts \cup {Never}]
  BY DEF TInv, TypeOK
<1>4. \A a \in Alerts : known[a] = active[a].start
  OBVIOUS
<1> HIDE DEF known
<1>5. /\ n \in Handler /\ HandlerOK(n) /\ n.at = "alerts" /\ n.payload = payload
      /\ n.known = known /\ n.todo = Matching(payload) /\ n.tried = FALSE /\ n.answer = "none"
  BY <1>3, TakenFacts
<1> HIDE DEF n
<1>6. handlers'[h] = n /\ \A o \in Handlers \ {h} : handlers'[o] = handlers[o]
  BY <1>1, <1>5, HandlersStep
<1>7. OneByOne'
  BY <1>1, <1>6 DEF OneByOne
<1>8. AllCurrent'
  <2>1. Current(n, active, members)
    BY <1>1, <1>4, <1>5 DEF Current
  <2> QED BY <1>1, <1>6, <2>1, LoneCurrent
<1>9. OthersAgree'
  <2>1. \A a \in Alerts, o \in Handlers : ~Carries(handlers[o], a)
    BY <1>1 DEF Carries
  <2> QED BY <1>1, <1>2, <2>1 DEF OthersAgree, Agrees
<1>10. CalledOnce'
  <2>1. \A r, a, s : \A o \in Handlers : ~HasCalled(handlers[o], r, a, s)
    BY <1>1 DEF HasCalled
  <2> QED BY <1>1, <1>2, <2>1 DEF CalledOnce
<1> QED BY <1>7, <1>8, <1>9, <1>10

(* The loops are at one pair.                                              *)
LEMMA OnePair ==
  ASSUME NEW k, HandlerOK(k), NEW p \in k.todo, NEW q \in k.todo, AtPair(k, p), AtPair(k, q)
  PROVE  p = q
<1>1. /\ p = <<p[1], p[2]>> /\ p[1] \in Nat /\ p[2] \in Nat
      /\ q = <<q[1], q[2]>> /\ q[1] \in Nat /\ q[2] \in Nat
  BY PairFacts
<1>2. /\ p[1] < q[1] \/ (p[1] = q[1] /\ p[2] <= q[2])
      /\ q[1] < p[1] \/ (q[1] = p[1] /\ q[2] <= p[2])
  BY DEF AtPair
<1>3. p[1] = q[1] /\ p[2] = q[2]
  BY <1>1, <1>2
<1> QED BY <1>1, <1>3

(* What a request has not called yet and takes for new was called by no    *)
(* earlier one.                                                            *)
LEMMA EnrichOrderly ==
  ASSUME TInv, OrderlyInv, NEW h \in Handlers, NEW p \in handlers[h].todo, NEW more \in Nat,
         NEW an \in [DOMAIN handlers[h].payload -> SUBSET Keys], Calls(h, p, more, an)
  PROVE  OrderlyInv'
<1> SUFFICES ASSUME orderly'
             PROVE  OneByOne' /\ AllCurrent' /\ OthersAgree' /\ CalledOnce'
  BY DEF OrderlyInv
<1> DEFINE k == handlers[h]
           n == Enriched(k, more, an)
           i == p[1]
           e == k.payload[i]
<1>1. /\ HandlerOK(k) /\ k \in Handler /\ k.at = "alerts" /\ k.todo # {}
      /\ i \in DOMAIN k.payload /\ p[2] \in DOMAIN Rules /\ e.fp \in Alerts /\ e.start \in Starts
      /\ p = <<i, p[2]>> /\ k.payload \in Payloads \cup {<< >>}
  BY TFacts, PairFacts
<1>2. /\ AtPair(k, p) /\ ~k.tried /\ k.known[e.fp] # e.start /\ more >= k.spent
      /\ handlers' = [handlers EXCEPT ![h] = n]
      /\ calls' = [calls EXCEPT ![p[2]][e.fp][e.start] = calls[p[2]][e.fp][e.start] + 1]
      /\ orderly /\ UNCHANGED <<active, members>>
  BY DEF Calls, IsNew
<1>3. OneByOne /\ AllCurrent /\ OthersAgree /\ CalledOnce
  BY <1>2 DEF OrderlyInv
<1>4. an \in [DOMAIN k.payload -> SUBSET Keys] /\ p \in k.todo
  OBVIOUS
<1>5. Current(k, active, members) /\ \A o \in Handlers \ {h} : handlers[o].at # "alerts"
  BY <1>1, <1>3 DEF AllCurrent, OneByOne
<1>6. e.fp \in Alerts /\ e.start > active[e.fp].start
  <2>1. k.known[e.fp] = active[e.fp].start /\ e.start >= active[e.fp].start
    BY <1>1, <1>5 DEF Current
  <2>2. active[e.fp].start \in Starts \cup {Never}
    BY <1>1 DEF TInv, TypeOK
  <2>3. \A x \in Starts, y \in Starts \cup {Never} : x >= y /\ y # x => x > y
    BY IngestAssumption DEF Starts, Never
  <2> QED BY <1>1, <1>2, <2>1, <2>2, <2>3
<1> HIDE DEF k
<1>7. /\ n \in Handler /\ HandlerOK(n) /\ n.at = k.at /\ n.payload = k.payload
      /\ n.known = k.known /\ n.todo = k.todo /\ n.tried = TRUE /\ n.spent = more
      /\ n.cancelled = k.cancelled /\ n.answer = k.answer
  BY <1>1, <1>4, EnrichedFacts
<1> HIDE DEF n
<1>8. handlers'[h] = n /\ \A o \in Handlers \ {h} : handlers'[o] = handlers[o]
  BY <1>2, <1>7, HandlersStep
<1>9. ~Expired(n) => ~Expired(k)
  BY <1>1, <1>2, <1>7, IngestAssumption DEF Expired, HandlerOK
<1>10. OneByOne'
  BY <1>3, <1>5, <1>8 DEF OneByOne
<1>11. AllCurrent'
  <2>1. Current(n, active, members)
    BY <1>5, <1>7, <1>9 DEF Current, Written
  <2> QED BY <1>2, <1>5, <1>8, <2>1, LoneCurrent
<1>12. OthersAgree'
  <2>1. \A a \in Alerts : Carries(n, a) <=> Carries(k, a)
    BY <1>7 DEF Carries
  <2>2. \A a \in Alerts : (\A o \in Handlers : ~Carries(handlers'[o], a)) =>
          \A o \in Handlers : ~Carries(handlers[o], a)
    BY <1>8, <2>1 DEF k
  <2> QED BY <1>2, <1>3, <2>2 DEF OthersAgree, Agrees
<1>13. CalledOnce'
  <2> SUFFICES ASSUME NEW r \in DOMAIN Rules, NEW a \in Alerts, NEW s \in Starts, StoredStart(s) = s
               PROVE  /\ calls'[r][a][s] <= 1
                      /\ calls'[r][a][s] # 0 =>
                           s <= active'[a].start \/ \E o \in Handlers : HasCalled(handlers'[o], r, a, s)
    BY DEF CalledOnce
  <2>1. /\ calls[r][a][s] <= 1
        /\ calls[r][a][s] # 0 =>
             s <= active[a].start \/ \E o \in Handlers : HasCalled(handlers[o], r, a, s)
    BY <1>3 DEF CalledOnce
  <2>2. \A o \in Handlers : HasCalled(handlers[o], r, a, s) => o = h /\ HasCalled(k, r, a, s)
    BY <1>5 DEF HasCalled, k
  <2>3. calls \in [DOMAIN Rules -> [Alerts -> [Starts -> Nat]]]
    BY DEF TInv, TypeOK
  <2>4. CASE ~(r = p[2] /\ a = e.fp /\ s = e.start)
    <3>1. calls'[r][a][s] = calls[r][a][s]
      BY <1>1, <1>2, <2>3, <2>4
    <3>2. HasCalled(k, r, a, s) => HasCalled(n, r, a, s)
      BY <1>2, <1>7 DEF HasCalled
    <3> QED BY <1>2, <1>8, <2>1, <2>2, <3>1, <3>2
  <2>5. CASE r = p[2] /\ a = e.fp /\ s = e.start
    <3>1. ~HasCalled(k, r, a, s)
      <4>1. \A j \in DOMAIN k.payload : k.payload[j].fp = a => j = i
        BY <1>1, <2>5, PayloadFacts
      <4> QED BY <1>1, <1>2, <1>4, <2>5, <4>1 DEF HasCalled
    <3>2. ~(s <= active[a].start)
      <4>1. active[a].start \in Starts \cup {Never}
        BY DEF TInv, TypeOK
      <4> QED BY <1>6, <2>5, <4>1, IngestAssumption DEF Starts, Never
    <3>3. calls[r][a][s] = 0
      BY <2>1, <2>2, <3>1, <3>2
    <3>4. calls'[r][a][s] = 1
      BY <1>1, <1>2, <2>3, <2>5, <3>3
    <3>5. AtPair(n, p)
      BY <1>2, <1>7 DEF AtPair
    <3>6. HasCalled(n, r, a, s)
      BY <1>1, <1>7, <2>5, <3>5 DEF HasCalled
    <3> QED BY <1>8, <3>4, <3>6
  <2> QED BY <2>4, <2>5
<1> QED BY <1>10, <1>11, <1>12, <1>13

LEMMA UpsertOrderly ==
  ASSUME TInv, OrderlyInv, NEW h \in Handlers, NEW p \in handlers[h].todo, AtPair(handlers[h], p),
         handlers' = [handlers EXCEPT ![h] = Advance(handlers[h], p)],
         Writes(h, p) \/ WritesNot(h), UNCHANGED <<active, requests, calls>>
  PROVE  OrderlyInv'
<1> SUFFICES ASSUME orderly'
             PROVE  OneByOne' /\ AllCurrent' /\ OthersAgree' /\ CalledOnce'
  BY DEF OrderlyInv
<1> DEFINE k == handlers[h]
           n == Advance(k, p)
           e == k.payload[p[1]]
<1>1. /\ HandlerOK(k) /\ k \in Handler /\ k.at = "alerts"
      /\ p[1] \in DOMAIN k.payload /\ p[2] \in DOMAIN Rules /\ e.fp \in Alerts
      /\ p = <<p[1], p[2]>> /\ k.payload \in Payloads \cup {<< >>}
  BY TFacts, PairFacts
<1>2. orderly /\ (Writes(h, p) \/ (WritesNot(h) /\ Expired(k)))
  BY FaultFacts DEF Writes, WritesNot
<1>3. OneByOne /\ AllCurrent /\ OthersAgree /\ CalledOnce
  BY <1>2 DEF OrderlyInv
<1>4. AtPair(k, p) /\ p \in k.todo /\ handlers' = [handlers EXCEPT ![h] = n]
  OBVIOUS
<1>5. Current(k, active, members) /\ \A o \in Handlers \ {h} : handlers[o].at # "alerts"
  BY <1>1, <1>3 DEF AllCurrent, OneByOne
<1>6. /\ n \in Handler /\ HandlerOK(n) /\ n.at = k.at /\ n.payload = k.payload
      /\ n.known = k.known /\ n.todo = k.todo \ {p} /\ n.tried = FALSE /\ n.spent = k.spent
      /\ n.cancelled = k.cancelled /\ n.answer = k.answer
  BY <1>1, AdvanceFacts
<1>7. handlers'[h] = n /\ \A o \in Handlers \ {h} : handlers'[o] = handlers[o]
  BY <1>4, <1>6, HandlersStep
<1>8. /\ \A r \in DOMAIN Rules, a \in Alerts : ~(r = p[2] /\ a = e.fp) => members'[r][a] = members[r][a]
      /\ ~Expired(k) => /\ members'[p[2]][e.fp].start = e.start
                        /\ members'[p[2]][e.fp].status = MemberStatus(e, p[2])
  <2>1. CASE WritesNot(h) /\ Expired(k)
    BY <2>1 DEF WritesNot
  <2>2. CASE Writes(h, p)
    <3>1. \A r \in DOMAIN Rules, a \in Alerts :
            ~(r = p[2] /\ a = e.fp) => members'[r][a] = members[r][a]
      BY <2>2, WritesFrame
    <3>2. /\ members'[p[2]][e.fp].start = e.start
          /\ members'[p[2]][e.fp].status = MemberStatus(e, p[2])
      BY <2>2, WritesOne
    <3> QED BY <3>1, <3>2
  <2> QED BY <1>2, <2>1, <2>2
<1> HIDE DEF k, n
<1>9. Expired(n) <=> Expired(k)
  BY <1>6 DEF Expired
<1>10. OneByOne'
  BY <1>3, <1>5, <1>7 DEF OneByOne
<1>11. AllCurrent'
  <2>1. ASSUME ~Expired(k), NEW q \in Matching(k.payload), q \notin n.todo
        PROVE  Written(n, members', q)
    <3>1. /\ q[1] \in DOMAIN k.payload /\ q[2] \in DOMAIN Rules /\ q = <<q[1], q[2]>>
          /\ k.payload[q[1]].fp \in Alerts
      BY <1>1, MatchingFacts, PayloadFacts
    <3>2. CASE q = p
      BY <1>6, <1>8, <2>1, <3>2 DEF Written
    <3>3. CASE q # p
      <4>1. Written(k, members, q)
        BY <1>1, <1>5, <1>6, <2>1, <3>3 DEF Current
      <4>2. ~(q[2] = p[2] /\ k.payload[q[1]].fp = e.fp)
        BY <1>1, <3>1, <3>3, PayloadFacts
      <4>3. members'[q[2]][k.payload[q[1]].fp] = members[q[2]][k.payload[q[1]].fp]
        BY <1>8, <3>1, <4>2
      <4> QED BY <1>6, <4>1, <4>3 DEF Written
    <3> QED BY <3>2, <3>3
  <2>2. Current(n, active', members')
    BY <1>5, <1>6, <1>9, <2>1 DEF Current
  <2> QED BY <1>5, <1>7, <2>2, LoneCurrent
<1>12. OthersAgree'
  <2>1. ASSUME NEW a \in Alerts, \A o \in Handlers : ~Carries(handlers'[o], a),
               NEW r \in DOMAIN Rules, a \in Rules[r].matches
        PROVE  Agrees(active', members', r, a)
    <3>1. ~Carries(n, a)
      BY <1>7, <2>1
    <3>2. ~Carries(k, a) /\ a # e.fp
      BY <1>1, <1>6, <3>1 DEF Carries
    <3>3. \A o \in Handlers : ~Carries(handlers[o], a)
      BY <1>7, <2>1, <3>2 DEF k
    <3>4. Agrees(active, members, r, a)
      BY <1>3, <2>1, <3>3 DEF OthersAgree
    <3>5. members'[r][a] = members[r][a]
      BY <1>8, <3>2
    <3> QED BY <3>4, <3>5 DEF Agrees
  <2> QED BY <2>1 DEF OthersAgree
<1>13. CalledOnce'
  <2>1. ASSUME NEW r, NEW a, NEW s, HasCalled(k, r, a, s)
        PROVE  HasCalled(n, r, a, s)
    <3>1. PICK i \in DOMAIN k.payload :
            /\ k.payload[i].fp = a /\ k.payload[i].start = s
            /\ <<i, r>> \notin k.todo \/ (k.tried /\ AtPair(k, <<i, r>>))
      BY <2>1 DEF HasCalled
    <3>2. <<i, r>> \notin n.todo
      <4>1. CASE <<i, r>> \notin k.todo
        BY <1>6, <4>1
      <4>2. CASE AtPair(k, <<i, r>>)
        <5>1. <<i, r>> \in k.todo
          BY <4>2 DEF AtPair
        <5>2. <<i, r>> = p
          BY <1>1, <1>4, <4>2, <5>1, OnePair
        <5> QED BY <1>6, <5>2
      <4> QED BY <3>1, <4>1, <4>2
    <3> QED BY <1>1, <1>6, <3>1, <3>2 DEF HasCalled
  <2>2. \A o \in Handlers : \A r, a, s :
          HasCalled(handlers[o], r, a, s) => HasCalled(handlers'[o], r, a, s)
    BY <1>7, <2>1 DEF k
  <2> QED BY <1>3, <2>2 DEF CalledOnce
<1> QED BY <1>10, <1>11, <1>12, <1>13

LEMMA BatchOrderly ==
  ASSUME TInv, OrderlyInv, NEW h \in Handlers, BatchUpsertAlerts(h)
  PROVE  OrderlyInv'
<1> SUFFICES ASSUME orderly'
             PROVE  OneByOne' /\ AllCurrent' /\ OthersAgree' /\ CalledOnce'
  BY DEF OrderlyInv
<1> DEFINE k == handlers[h]
           n == Finished(k, "200")
           pl == k.payload
<1>1. /\ HandlerOK(k) /\ k \in Handler /\ AtBatch(k) /\ pl \in Payloads \cup {<< >>}
      /\ k.at = "alerts" /\ k.todo = {} /\ ~Expired(k)
  BY TFacts DEF BatchUpsertAlerts, HandlerOK, AtBatch
<1>2. /\ handlers' = [handlers EXCEPT ![h] = n] /\ active' = Stored(pl) /\ orderly
      /\ UNCHANGED <<members, calls>>
  BY DEF BatchUpsertAlerts, Answer, Becomes, Finished, Fine
<1>3. OneByOne /\ AllCurrent /\ OthersAgree /\ CalledOnce
  BY <1>2 DEF OrderlyInv
<1>4. n \in Handler /\ HandlerOK(n) /\ n.at = "idle"
  BY <1>1, AnswerFacts
<1>5. handlers'[h] = n /\ \A o \in Handlers \ {h} : handlers'[o] = handlers[o]
  BY <1>2, <1>4, HandlersStep
<1>6. Current(k, active, members) /\ \A o \in Handlers \ {h} : handlers[o].at # "alerts"
  BY <1>1, <1>3 DEF AllCurrent, OneByOne
<1> HIDE DEF n
<1>7. \A o \in Handlers : handlers'[o].at # "alerts"
  BY <1>4, <1>5, <1>6
<1>8. OneByOne' /\ AllCurrent'
  BY <1>7 DEF OneByOne, AllCurrent, Current
<1>9. /\ \A i \in DOMAIN pl : /\ active'[pl[i].fp].status = pl[i].status
                             /\ active'[pl[i].fp].start = StoredStart(pl[i].start)
      /\ \A a \in Alerts : (\A i \in DOMAIN pl : pl[i].fp # a) => active'[a] = active[a]
  BY <1>1, <1>2, StoredFacts
<1>10. OthersAgree'
  <2>1. ASSUME NEW a \in Alerts, NEW r \in DOMAIN Rules, a \in Rules[r].matches
        PROVE  Agrees(active', members', r, a)
    <3>1. CASE \A i \in DOMAIN pl : pl[i].fp # a
      <4>1. \A o \in Handlers : ~Carries(handlers[o], a)
        BY <1>6, <3>1 DEF Carries
      <4>2. Agrees(active, members, r, a)
        BY <1>3, <2>1, <4>1 DEF OthersAgree
      <4> QED BY <1>2, <1>9, <3>1, <4>2 DEF Agrees
    <3>2. CASE \E i \in DOMAIN pl : pl[i].fp = a
      <4>1. PICK i \in DOMAIN pl : pl[i].fp = a
        BY <3>2
      <4>2. <<i, r>> \in Matching(pl)
        BY <2>1, <4>1, MatchingFacts
      <4>3. Written(k, members, <<i, r>>)
        BY <1>1, <1>6, <4>2 DEF Current
      <4>4. members[r][a].start = pl[i].start /\ members[r][a].status = MemberStatus(pl[i], r)
        BY <4>1, <4>3 DEF Written
      <4>5. active'[a].status = pl[i].status /\ active'[a].start = StoredStart(pl[i].start)
        BY <1>9, <4>1
      <4> QED BY <1>2, <4>4, <4>5 DEF Agrees, MemberStatus
    <3> QED BY <3>1, <3>2
  <2> QED BY <2>1 DEF OthersAgree
<1>11. CalledOnce'
  <2> SUFFICES ASSUME NEW r \in DOMAIN Rules, NEW a \in Alerts, NEW s \in Starts, StoredStart(s) = s
               PROVE  calls[r][a][s] <= 1 /\ (calls[r][a][s] # 0 => s <= active'[a].start)
    BY <1>2 DEF CalledOnce
  <2>1. /\ calls[r][a][s] <= 1
        /\ calls[r][a][s] # 0 =>
             s <= active[a].start \/ \E o \in Handlers : HasCalled(handlers[o], r, a, s)
    BY <1>3 DEF CalledOnce
  <2>2. CASE \A i \in DOMAIN pl : pl[i].fp # a
    <3>1. \A o \in Handlers : ~HasCalled(handlers[o], r, a, s)
      BY <1>6, <2>2 DEF HasCalled
    <3> QED BY <1>9, <2>1, <2>2, <3>1
  <2>3. CASE \E i \in DOMAIN pl : pl[i].fp = a
    <3>1. PICK i \in DOMAIN pl : pl[i].fp = a
      BY <2>3
    <3>2. /\ active'[a].start = StoredStart(pl[i].start) /\ pl[i].start \in Starts
          /\ pl[i].start >= active[a].start /\ active[a].start \in Starts \cup {Never}
      BY <1>1, <1>6, <1>9, <3>1, PayloadFacts DEF Current, TInv, TypeOK
    <3>3. \A o \in Handlers : HasCalled(handlers[o], r, a, s) => s = pl[i].start
      <4>1. \A j \in DOMAIN pl : pl[j].fp = a => j = i
        BY <1>1, <3>1, PayloadFacts
      <4> QED BY <1>6, <4>1 DEF HasCalled
    <3>4. \A x, z \in Starts, y \in Starts \cup {Never} : x >= y /\ z <= y => z <= x
      BY IngestAssumption DEF Starts, Never
    <3>5. \A z \in Starts : z <= z
      BY IngestAssumption DEF Starts
    <3>6. calls[r][a][s] # 0 => s <= pl[i].start
      BY <2>1, <3>2, <3>3, <3>4, <3>5
    <3> QED BY <2>1, <3>2, <3>6, StoredStartFacts
  <2> QED BY <2>2, <2>3
<1> QED BY <1>8, <1>10, <1>11

-----------------------------------------------------------------------------
(* The theorems.                                                           *)

LEMMA IInvInit == Init => IInv
<1> SUFFICES ASSUME Init PROVE IInv
  OBVIOUS
<1> DEFINE no == NoMember
           row == [status |-> Absent, start |-> Never]
<1>1. /\ active = [a \in Alerts |-> row] /\ members = [r \in DOMAIN Rules |-> [a \in Alerts |-> no]]
      /\ handlers = [h \in Handlers |-> IdleHandler] /\ requests = 0 /\ faults = 0 /\ orderly = TRUE
      /\ calls = [r \in DOMAIN Rules |-> [a \in Alerts |-> [s \in Starts |-> 0]]]
  BY DEF Init
<1>2. no \in MemberRow /\ no.fields = {}
  BY DEF NoMember, MemberRow, Status
<1>3. row \in Row /\ row.start = Never
  BY DEF Row, Status
<1> HIDE DEF no, row
<1>4. HandlerOK(IdleHandler)
  <2>1. [a \in Alerts |-> Never] \in [Alerts -> Starts \cup {Never}]
    OBVIOUS
  <2> QED BY <2>1, IdleFacts DEF HandlerOK, IdleHandler
<1>5. TInv
  <2>1. active \in [Alerts -> Row] /\ members \in [DOMAIN Rules -> [Alerts -> MemberRow]]
    BY <1>1, <1>2, <1>3
  <2>2. handlers \in [Handlers -> Handler] /\ \A h \in Handlers : HandlerOK(handlers[h])
    BY <1>1, <1>4, IdleFacts
  <2>3. calls \in [DOMAIN Rules -> [Alerts -> [Starts -> Nat]]]
    BY <1>1
  <2> QED BY <1>1, <2>1, <2>2, <2>3, IngestAssumption DEF TInv, TypeOK, Row, MemberRow
<1>6. FieldsInv
  BY <1>1, <1>2 DEF FieldsInv
<1>7. \A h \in Handlers : handlers[h].at = "idle" /\ handlers[h].answer = "none"
  BY <1>1, IdleFacts
<1>8. RecordedInv
  BY <1>7 DEF RecordedInv, RecordedSoFar
<1>9. OrderlyInv
  <2>1. OneByOne /\ AllCurrent
    BY <1>7 DEF OneByOne, AllCurrent, Current
  <2>2. OthersAgree
    BY <1>1, <1>3 DEF OthersAgree, Agrees
  <2>3. CalledOnce
    BY <1>1 DEF CalledOnce
  <2> QED BY <2>1, <2>2, <2>3 DEF OrderlyInv
<1> QED BY <1>5, <1>6, <1>8, <1>9 DEF IInv

LEMMA IInvStep == IInv /\ [Next]_vars => IInv'
<1> SUFFICES ASSUME TInv, FieldsInv, RecordedInv, OrderlyInv, [Next]_vars
             PROVE  TInv' /\ FieldsInv' /\ RecordedInv' /\ OrderlyInv'
  BY DEF IInv
<1>1. CASE UNCHANGED vars
  BY <1>1 DEF vars, TInv, TypeOK, FieldsInv, RecordedInv, OrderlyInv, OneByOne, AllCurrent,
              OthersAgree, CalledOnce
<1>2. ASSUME NEW h \in Handlers, NEW p \in Payloads, Receive(h, p) \/ ReceiveBlind(h, p)
      PROVE  TInv' /\ FieldsInv' /\ RecordedInv' /\ OrderlyInv'
  <2>1. FieldsInv'
    BY <1>2 DEF Receive, ReceiveBlind, Accept, FieldsInv
  <2>2. OrderlyInv'
    BY <1>2, ReceiveOrderly, FaultFacts DEF ReceiveBlind, OrderlyInv
  <2> QED BY <1>2, <2>1, <2>2, AcceptTypes, AcceptRecorded
<1>3. ASSUME NEW h \in Handlers, NEW o \in EnrichOutcomes, Enrich(h, o)
      PROVE  TInv' /\ FieldsInv' /\ RecordedInv' /\ OrderlyInv'
  <2>1. PICK p \in handlers[h].todo, more \in Nat,
             an \in [DOMAIN handlers[h].payload -> SUBSET Keys] : Calls(h, p, more, an)
    BY <1>3, EnrichCalls
  <2>2. FieldsInv'
    BY <2>1 DEF Calls, FieldsInv
  <2> QED BY <2>1, <2>2, EnrichTypes, EnrichRecorded, EnrichOrderly
<1>4. ASSUME NEW h \in Handlers, NEW done \in BOOLEAN, UpsertGroupMember(h, done)
      PROVE  TInv' /\ FieldsInv' /\ RecordedInv' /\ OrderlyInv'
  <2>1. PICK p \in handlers[h].todo :
           /\ AtPair(handlers[h], p)
           /\ handlers' = [handlers EXCEPT ![h] = Advance(handlers[h], p)]
           /\ Writes(h, p) \/ WritesNot(h)
           /\ UNCHANGED <<active, requests, calls>>
    BY <1>4, UpsertWrites
  <2>2. TInv'
    BY <2>1, UpsertTypes
  <2>3. FieldsInv'
    BY <2>1, FieldsStep
  <2>4. RecordedInv'
    BY <2>1, UpsertRecorded
  <2>5. OrderlyInv'
    BY <2>1, UpsertOrderly
  <2> QED BY <2>2, <2>3, <2>4, <2>5
<1>5. ASSUME NEW h \in Handlers, BatchUpsertAlerts(h) \/ BatchUpsertFails(h)
      PROVE  TInv' /\ FieldsInv' /\ RecordedInv' /\ OrderlyInv'
  <2>1. FieldsInv'
    BY <1>5 DEF BatchUpsertAlerts, BatchUpsertFails, FieldsInv
  <2>2. BatchUpsertFails(h) => orderly' = FALSE
    BY FaultFacts DEF BatchUpsertFails
  <2>3. OrderlyInv'
    BY <1>5, <2>2, BatchOrderly DEF OrderlyInv
  <2> QED BY <1>5, <2>1, <2>3, BatchTypes, BatchRecorded
<1>6. ASSUME NEW h \in Handlers, Cancel(h) \/ Crash(h)
      PROVE  TInv' /\ FieldsInv' /\ RecordedInv' /\ OrderlyInv'
  <2>1. FieldsInv'
    BY <1>6 DEF Cancel, Crash, FieldsInv
  <2>2. faults' # 0 /\ orderly' = FALSE
    BY <1>6, FaultFacts DEF Cancel, Crash
  <2> QED BY <1>6, <2>1, <2>2, StopTypes DEF RecordedInv, OrderlyInv
<1> QED BY <1>1, <1>2, <1>3, <1>4, <1>5, <1>6 DEF Next

(* The inductive invariant: the types, the fields a member may show, what  *)
(* a request has recorded before its deadline, and what holds while        *)
(* requests come one by one.                                               *)
THEOREM IInvAlways == Spec => []IInv
<1> QED BY IInvInit, IInvStep, PTL DEF Spec

(* The variables keep their types, whatever overlaps, fails or is cut off  *)
(* by the deadline (AlertsHandler, ProcessAlert).                          *)
THEOREM TypeCorrect == Spec => []TypeOK
<1>1. IInv => TypeOK
  BY DEF IInv, TInv
<1> QED BY <1>1, IInvAlways, PTL

(* An answer of 200 means that every alert of the request is in            *)
(* active_alerts and in the group of every rule that matches it, as long   *)
(* as no query fails: what the deadline cuts off is answered with 500      *)
(* (AlertsHandler, handlers.go).                                           *)
THEOREM AnsweredIsRecordedAlways == Spec => []AnsweredIsRecorded
<1>1. IInv => AnsweredIsRecorded
  BY DEF IInv, RecordedInv, RecordedSoFar, InGroups, InTable, AnsweredIsRecorded, InItsGroups
<1> QED BY <1>1, IInvAlways, PTL

(* While requests come one by one and succeed, an enrichment is called     *)
(* once for an alert and a start that the column keeps (IsNew, rules.go).  *)
THEOREM EnrichedOnceAlways == Spec => []EnrichedOnce
<1>1. IInv => EnrichedOnce
  BY DEF IInv, OrderlyInv, CalledOnce, EnrichedOnce
<1> QED BY <1>1, IInvAlways, PTL

(* While requests come one by one and succeed, the groups and the          *)
(* dashboard's table say the same between them (UpsertGroupMember,         *)
(* BatchUpsertAlerts).                                                     *)
THEOREM GroupsAgreeAlways == Spec => []GroupsAgree
<1>1. IInv => GroupsAgree
  <2> SUFFICES ASSUME IInv, orderly, \A h \in Handlers : handlers[h].at = "idle",
                      NEW r \in DOMAIN Rules, NEW a \in Rules[r].matches, active[a].start # Never
               PROVE  /\ StoredStart(members[r][a].start) = active[a].start
                      /\ members[r][a].status = MemberStatus(active[a], r)
    BY DEF GroupsAgree
  <2>1. OthersAgree /\ a \in Alerts
    BY RuleFacts DEF IInv, OrderlyInv
  <2>2. \A h \in Handlers : ~Carries(handlers[h], a)
    BY DEF Carries
  <2> QED BY <2>1, <2>2 DEF OthersAgree, Agrees
<1> QED BY <1>1, IInvAlways, PTL

(* A rule that shows nothing but its enrichment keeps showing it           *)
(* (UpsertGroupMember, groups.go:114-120).                                 *)
THEOREM LoneFieldStaysAlways == Spec => LoneFieldStays
<1>1. IInv /\ [Next]_vars =>
        [\A r \in DOMAIN Rules, a \in Alerts : Rules[r].fields = {Rules[r].stores} =>
           members[r][a].fields \subseteq members'[r][a].fields]_vars
  <2> SUFFICES ASSUME TInv, FieldsInv, Next
               PROVE  \A r \in DOMAIN Rules, a \in Alerts : Rules[r].fields = {Rules[r].stores} =>
                        members[r][a].fields \subseteq members'[r][a].fields
    BY DEF IInv
  <2>1. CASE UNCHANGED members
    BY <2>1
  <2>2. ASSUME NEW h \in Handlers, NEW done \in BOOLEAN, UpsertGroupMember(h, done)
        PROVE  \A r \in DOMAIN Rules, a \in Alerts : Rules[r].fields = {Rules[r].stores} =>
                 members[r][a].fields \subseteq members'[r][a].fields
    <3>1. \E p \in handlers[h].todo : Writes(h, p) \/ WritesNot(h)
      BY <2>2, UpsertWrites
    <3> QED BY <3>1, FieldsStep
  <2> QED BY <2>1, <2>2 DEF Next, Receive, ReceiveBlind, Accept, Enrich, BatchUpsertAlerts,
          BatchUpsertFails, Cancel, Crash
<1> QED BY <1>1, IInvAlways, PTL DEF Spec, LoneFieldStays
=============================================================================
