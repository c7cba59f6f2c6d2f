------------------------ MODULE WorkflowRulesProofs ------------------------
(***************************************************************************)
(* Proofs about WorkflowRules for any instances, forms, files and labels:  *)
(* that names stay unique, that a rule that was deleted stays deleted,     *)
(* that seeding overwrites nothing it found, that processes that start     *)
(* together import all of the files, and, of rules that spell alike, that  *)
(* a resolved event reaches the group its alert fired in.                  *)
(***************************************************************************)
EXTENDS WorkflowRules, FiniteSetTheorems, TLAPS

(* Ids come from the sequence and a name has one row.                      *)
TableInv ==
  /\ table = [id \in Ids |-> table[id]]
  /\ nextId \in 1..(MaxId + 1)
  /\ \A id \in Ids : id >= nextId => table[id] = NoRule
  /\ \A id, other \in Rows : table[id].name = table[other].name => id = other

(* A process that seeds found nothing, for it would not seed otherwise.    *)
ProcessOK(k) ==
  /\ DOMAIN k = {"at", "todo", "found", "fetched", "cache"}
  /\ k.at \in {"down", "seed", "load", "up"}
  /\ k.at = "seed" <=> k.todo # << >>
  /\ k.at \in {"down", "seed"} => k.fetched = Nothing
  /\ k.found = {}

InstancesInv ==
  /\ instances = [i \in Instances |-> instances[i]]
  /\ \A i \in Instances : ProcessOK(instances[i])

FormIds(n) == {-1, 0} \cup 1..(n - 1)

FormsInv ==
  /\ forms = [u \in Admins |-> forms[u]]
  /\ \A u \in Admins : forms[u].id \in FormIds(nextId)

LastInv == last \in [Alerts -> {"none", "firing", "resolved"}]

WInv == TableInv /\ InstancesInv /\ FormsInv /\ LastInv

(* What a step does to the rows that are gone.                             *)
GoneStays == \A id \in Ids : id < nextId /\ table[id] = NoRule => table'[id] = NoRule

(* A step of the table that the rest of the invariant is safe from.        *)
TableStep == TableInv' /\ nextId <= nextId' /\ GoneStays

-----------------------------------------------------------------------------
(* The table.                                                              *)

LEMMA IdsAreNumbers ==
  /\ MaxId \in Nat /\ Ids \subseteq Nat /\ \A id \in Ids : id >= 1 /\ id <= MaxId
BY RulesAssumption DEF Ids

LEMMA NoTableStep == ASSUME TableInv, KeepsTable PROVE TableStep
BY DEF KeepsTable, TableStep, TableInv, GoneStays, Rows, Ids

(* A name that is there is updated in its row.                             *)
LEMMA InsertOverName ==
  ASSUME TableInv, NEW rule, Insert(rule), Named(rule.name) # {}
  PROVE  TableStep
<1>1. /\ table' = [id \in Ids |-> IF id \in Named(rule.name) THEN rule ELSE table[id]]
      /\ nextId' = nextId
  BY DEF Insert
<1>2. Named(rule.name) \subseteq Rows /\ Rows \subseteq Ids /\ Rows' \subseteq Rows
  BY <1>1 DEF Named, Rows
<1>3. \A id \in Rows : id \in Named(rule.name) <=> table[id].name = rule.name
  BY DEF Named
<1>4. \A id \in Rows : table'[id] = IF id \in Named(rule.name) THEN rule ELSE table[id]
  BY <1>1, <1>2
<1>5. \A id \in Rows : table'[id].name = table[id].name
  BY <1>3, <1>4
<1>6. \A id, other \in Rows' : table'[id].name = table'[other].name => id = other
  BY <1>2, <1>5 DEF TableInv
<1>7. \A id \in Ids : table[id] = NoRule => table'[id] = NoRule
  BY <1>1, <1>2 DEF Rows
<1>8. table' = [id \in Ids |-> table'[id]]
  BY <1>1
<1>9. TableInv'
  BY <1>1, <1>6, <1>7, <1>8 DEF TableInv, Ids
<1>10. nextId \in Int
  BY IdsAreNumbers DEF TableInv
<1>. QED  BY <1>1, <1>7, <1>9, <1>10 DEF TableStep, GoneStays

(* A new name gets a new row.                                              *)
LEMMA InsertNewName ==
  ASSUME TableInv, NEW rule, Insert(rule), Named(rule.name) = {}
  PROVE  TableStep
<1>1. /\ nextId <= MaxId /\ table' = [table EXCEPT ![nextId] = rule] /\ nextId' = nextId + 1
  BY DEF Insert
<1>2. nextId \in Ids /\ nextId \in Nat /\ nextId' \in 1..(MaxId + 1)
  BY <1>1, IdsAreNumbers DEF TableInv, Ids
<1>3. \A id \in Ids : table'[id] = IF id = nextId THEN rule ELSE table[id]
  BY <1>1 DEF TableInv
<1>4. \A id \in Rows : table[id].name # rule.name
  BY DEF Named
<1>5. \A id \in Rows' : id = nextId \/ (id \in Rows /\ table'[id] = table[id] /\ id # nextId)
  BY <1>3 DEF Rows
<1>6. \A id, other \in Rows' : table'[id].name = table'[other].name => id = other
  <2>. SUFFICES ASSUME NEW id \in Rows', NEW other \in Rows',
                       table'[id].name = table'[other].name
                PROVE  id = other
    OBVIOUS
  <2>1. table'[nextId] = rule
    BY <1>2, <1>3
  <2>. QED  BY <1>4, <1>5, <2>1 DEF TableInv
<1>7. \A id \in Ids : id < nextId /\ table[id] = NoRule => table'[id] = NoRule
  BY <1>2, <1>3
<1>8. \A id \in Ids : id >= nextId' => table'[id] = NoRule
  BY <1>1, <1>2, <1>3, IdsAreNumbers DEF TableInv
<1>9. table' = [id \in Ids |-> table'[id]]
  BY <1>1 DEF TableInv
<1>10. TableInv'
  BY <1>2, <1>6, <1>8, <1>9 DEF TableInv, Ids
<1>. QED  BY <1>1, <1>2, <1>7, <1>10 DEF TableStep, GoneStays

LEMMA InsertIsTableStep == ASSUME TableInv, NEW rule, Insert(rule) PROVE TableStep
BY InsertOverName, InsertNewName

(* Another row of the same name keeps an update from being made.           *)
LEMMA UpdateIsTableStep ==
  ASSUME TableInv, NEW id, NEW rule, Update(id, rule)
  PROVE  TableStep
<1>1. CASE id \in Rows /\ Named(rule.name) \subseteq {id}
  <2>1. table' = [table EXCEPT ![id] = rule] /\ nextId' = nextId
    BY <1>1 DEF Update
  <2>2. \A o \in Ids : table'[o] = IF o = id THEN rule ELSE table[o]
    BY <2>1 DEF TableInv
  <2>3. \A o \in Rows : table[o].name = rule.name => o = id
    BY <1>1 DEF Named
  <2>4. \A o \in Rows' : o \in Rows /\ (o # id => table'[o] = table[o])
    BY <1>1, <2>2 DEF Rows
  <2>5. table'[id] = rule
    BY <1>1, <2>2 DEF Rows
  <2>6. \A o, other \in Rows' : table'[o].name = table'[other].name => o = other
    <3>. SUFFICES ASSUME NEW o \in Rows', NEW other \in Rows',
                         table'[o].name = table'[other].name
                  PROVE  o = other
      OBVIOUS
    <3>. QED  BY <2>3, <2>4, <2>5 DEF TableInv
  <2>7. \A o \in Ids : table[o] = NoRule => table'[o] = NoRule
    BY <1>1, <2>2 DEF Rows
  <2>8. table' = [o \in Ids |-> table'[o]]
    BY <2>1 DEF TableInv
  <2>9. TableInv'
    BY <2>1, <2>6, <2>7, <2>8 DEF TableInv, Ids
  <2>10. nextId \in Int
    BY IdsAreNumbers DEF TableInv
  <2>. QED  BY <2>1, <2>7, <2>9, <2>10 DEF TableStep, GoneStays
<1>2. CASE ~(id \in Rows /\ Named(rule.name) \subseteq {id})
  <2>1. KeepsTable
    BY <1>2 DEF Update, KeepsTable
  <2>. QED  BY <2>1, NoTableStep
<1>. QED  BY <1>1, <1>2

LEMMA DeleteIsTableStep ==
  ASSUME TableInv, NEW id \in Ids, DeleteRule(id)
  PROVE  TableStep
<1>1. table' = [table EXCEPT ![id] = NoRule] /\ nextId' = nextId
  BY DEF DeleteRule
<1>2. \A o \in Ids : table'[o] = IF o = id THEN NoRule ELSE table[o]
  BY <1>1 DEF TableInv
<1>3. \A o \in Rows' : o \in Rows /\ table'[o] = table[o]
  BY <1>2 DEF Rows
<1>4. \A o, other \in Rows' : table'[o].name = table'[other].name => o = other
  BY <1>3 DEF TableInv
<1>5. \A o \in Ids : table[o] = NoRule => table'[o] = NoRule
  BY <1>2
<1>6. table' = [o \in Ids |-> table'[o]]
  BY <1>1 DEF TableInv
<1>7. TableInv'
  BY <1>1, <1>4, <1>5, <1>6 DEF TableInv, Ids
<1>8. nextId \in Int
  BY IdsAreNumbers DEF TableInv
<1>. QED  BY <1>1, <1>5, <1>7, <1>8 DEF TableStep, GoneStays

-----------------------------------------------------------------------------
(* The processes.                                                          *)

LEMMA DownIsOK == ProcessOK(Down)
BY DEF ProcessOK, Down

LEMMA BecomesKeeps ==
  ASSUME InstancesInv, NEW i \in Instances, NEW self, ProcessOK(self), Becomes(i, self)
  PROVE  InstancesInv'
<1>1. instances' = [instances EXCEPT ![i] = self]
  BY DEF Becomes
<1>2. \A o \in Instances : instances'[o] = IF o = i THEN self ELSE instances[o]
  BY <1>1 DEF InstancesInv
<1>3. instances' = [o \in Instances |-> instances'[o]]
  BY <1>1 DEF InstancesInv
<1>4. \A o \in Instances : ProcessOK(instances'[o])
  BY <1>2 DEF InstancesInv
<1>. QED  BY <1>3, <1>4 DEF InstancesInv

(* A process seeds only if there are no rows, so what it found is nothing. *)
LEMMA StartKeeps ==
  ASSUME WInv, NEW i \in Instances, Start(i)
  PROVE  InstancesInv'
<1>. DEFINE seeds == LoadLegacyYAMLRules # << >> /\ CountWorkflowRules = 0
            self == [Down EXCEPT !.at = IF seeds THEN "seed" ELSE "load",
                                 !.todo = IF seeds THEN LoadLegacyYAMLRules ELSE << >>,
                                 !.found = IF seeds THEN Rows ELSE {}]
<1>1. Becomes(i, self)
  BY DEF Start
<1>2. seeds => Rows = {}
  <2>1. IsFiniteSet(Ids)
    BY FS_Interval, RulesAssumption DEF Ids
  <2>2. IsFiniteSet(Rows)
    BY <2>1, FS_Subset DEF Rows
  <2>. QED  BY <2>2, FS_EmptySet DEF CountWorkflowRules
<1>3. /\ DOMAIN self = {"at", "todo", "found", "fetched", "cache"}
      /\ self.at = IF seeds THEN "seed" ELSE "load"
      /\ self.todo = IF seeds THEN LoadLegacyYAMLRules ELSE << >>
      /\ self.found = IF seeds THEN Rows ELSE {}
      /\ self.fetched = Nothing
  BY DEF Down
<1>4. seeds => LoadLegacyYAMLRules # << >>
  OBVIOUS
<1>. HIDE DEF seeds, self
<1>5. ProcessOK(self)
  BY <1>2, <1>3, <1>4 DEF ProcessOK
<1>. QED  BY <1>1, <1>5, BecomesKeeps DEF WInv

LEMMA SeededIsOK ==
  ASSUME NEW k, ProcessOK(k), k.at = "seed"
  PROVE  /\ ProcessOK(Seeded(k))
         /\ Seeded(k).todo = Tail(k.todo) /\ Seeded(k).at # "down"
<1>. DEFINE rest == Tail(k.todo)
<1>1. Seeded(k) = [k EXCEPT !.todo = rest, !.at = IF rest = << >> THEN "load" ELSE "seed",
                            !.found = IF rest = << >> THEN {} ELSE k.found]
  BY DEF Seeded
<1>. HIDE DEF rest
<1>2. /\ DOMAIN Seeded(k) = {"at", "todo", "found", "fetched", "cache"}
      /\ Seeded(k).at = IF rest = << >> THEN "load" ELSE "seed"
      /\ Seeded(k).todo = rest /\ Seeded(k).fetched = k.fetched
      /\ Seeded(k).found = IF rest = << >> THEN {} ELSE k.found
  BY <1>1 DEF ProcessOK
<1>. QED  BY <1>2 DEF ProcessOK, rest

LEMMA RefreshIsOK ==
  ASSUME NEW k, ProcessOK(k)
  PROVE  /\ k.at \in {"load", "up"} =>
              \A rules : /\ ProcessOK([k EXCEPT !.fetched = rules])
                         /\ [k EXCEPT !.fetched = rules].at = k.at
                         /\ [k EXCEPT !.fetched = rules].todo = k.todo
         /\ k.fetched # Nothing =>
              LET done == [k EXCEPT !.cache = k.fetched, !.fetched = Nothing, !.at = "up"]
              IN  ProcessOK(done) /\ done.at = "up" /\ done.todo = k.todo
         /\ k.at \in {"load", "up"} =>
              LET up == [k EXCEPT !.at = "up"]
              IN  ProcessOK(up) /\ up.at = "up" /\ up.todo = k.todo
<1>1. ASSUME k.at \in {"load", "up"}, NEW rules
      PROVE  /\ ProcessOK([k EXCEPT !.fetched = rules])
             /\ [k EXCEPT !.fetched = rules].at = k.at
             /\ [k EXCEPT !.fetched = rules].todo = k.todo
  <2>. DEFINE new == [k EXCEPT !.fetched = rules]
  <2>1. /\ DOMAIN new = {"at", "todo", "found", "fetched", "cache"}
        /\ new.at = k.at /\ new.todo = k.todo /\ new.found = k.found
    BY DEF ProcessOK
  <2>. HIDE DEF new
  <2>2. ProcessOK(new)
    BY <1>1, <2>1 DEF ProcessOK
  <2>. QED  BY <2>1, <2>2 DEF new
<1>2. ASSUME k.fetched # Nothing
      PROVE  LET done == [k EXCEPT !.cache = k.fetched, !.fetched = Nothing, !.at = "up"]
             IN  ProcessOK(done) /\ done.at = "up" /\ done.todo = k.todo
  <2>. DEFINE done == [k EXCEPT !.cache = k.fetched, !.fetched = Nothing, !.at = "up"]
  <2>1. /\ DOMAIN done = {"at", "todo", "found", "fetched", "cache"}
        /\ done.at = "up" /\ done.todo = k.todo /\ done.found = k.found
        /\ done.fetched = Nothing
    BY DEF ProcessOK
  <2>. HIDE DEF done
  <2>2. k.at \in {"load", "up"} /\ ProcessOK(done)
    BY <1>2, <2>1 DEF ProcessOK
  <2>. QED  BY <2>1, <2>2 DEF done
<1>3. ASSUME k.at \in {"load", "up"}
      PROVE  LET up == [k EXCEPT !.at = "up"]
             IN  ProcessOK(up) /\ up.at = "up" /\ up.todo = k.todo
  <2>. DEFINE up == [k EXCEPT !.at = "up"]
  <2>1. /\ DOMAIN up = {"at", "todo", "found", "fetched", "cache"}
        /\ up.at = "up" /\ up.todo = k.todo /\ up.found = k.found /\ up.fetched = k.fetched
    BY DEF ProcessOK
  <2>. HIDE DEF up
  <2>2. ProcessOK(up)
    BY <1>3, <2>1 DEF ProcessOK
  <2>. QED  BY <2>1, <2>2 DEF up
<1>. QED  BY <1>1, <1>2, <1>3

LEMMA ProcessKeeps ==
  ASSUME WInv, NEW i \in Instances, Process(i)
  PROVE  TableStep /\ InstancesInv' /\ UNCHANGED <<forms, last>>
<1>. DEFINE k == instances[i]
<1>1. TableInv /\ InstancesInv /\ ProcessOK(k)
  BY DEF WInv, InstancesInv
<1>. HIDE DEF k
<1>2. CASE Start(i)
  <2>1. KeepsTable /\ UNCHANGED <<forms, last>>
    BY <1>2 DEF Start, KeepsAlerts
  <2>. QED  BY <1>1, <1>2, <2>1, StartKeeps, NoTableStep
<1>3. CASE SeedRule(i)
  <2>1. /\ k.at = "seed" /\ Becomes(i, Seeded(k))
        /\ Insert(Head(k.todo)) /\ UNCHANGED <<forms, last>>
    BY <1>3 DEF SeedRule, KeepsAlerts, k
  <2>2. ProcessOK(Seeded(k))
    BY <1>1, <2>1, SeededIsOK
  <2>. QED  BY <1>1, <2>1, <2>2, InsertIsTableStep, BecomesKeeps
<1>4. CASE SeedFails(i)
  <2>. DEFINE self == [Down EXCEPT !.at = "load"]
  <2>1. Becomes(i, self) /\ KeepsTable /\ UNCHANGED <<forms, last>>
    BY <1>4 DEF SeedFails, KeepsAlerts
  <2>2. ProcessOK(self)
    BY DEF ProcessOK, Down
  <2>. HIDE DEF self
  <2>. QED  BY <1>1, <2>1, <2>2, NoTableStep, BecomesKeeps
<1>5. CASE FetchRules(i)
  <2>. DEFINE self == [k EXCEPT !.fetched = EnabledRules(table)]
  <2>1. /\ Becomes(i, self) /\ KeepsTable /\ UNCHANGED <<forms, last>>
        /\ k.at \in {"load", "up"}
    BY <1>5 DEF FetchRules, KeepsAlerts, Refreshing, k
  <2>2. ProcessOK(self)
    BY <1>1, <2>1, RefreshIsOK
  <2>. HIDE DEF self
  <2>. QED  BY <1>1, <2>1, <2>2, NoTableStep, BecomesKeeps
<1>6. CASE InstallRules(i)
  <2>. DEFINE self == [k EXCEPT !.cache = k.fetched, !.fetched = Nothing, !.at = "up"]
  <2>1. /\ Becomes(i, self) /\ KeepsTable /\ UNCHANGED <<forms, last>>
        /\ k.fetched # Nothing
    BY <1>6 DEF InstallRules, KeepsAlerts, k
  <2>2. ProcessOK(self)
    BY <1>1, <2>1, RefreshIsOK
  <2>. HIDE DEF self
  <2>. QED  BY <1>1, <2>1, <2>2, NoTableStep, BecomesKeeps
<1>7. CASE RefreshFails(i)
  <2>. DEFINE self == [k EXCEPT !.at = "up"]
  <2>1. /\ Becomes(i, self) /\ KeepsTable /\ UNCHANGED <<forms, last>>
        /\ k.at \in {"load", "up"}
    BY <1>7 DEF RefreshFails, KeepsAlerts, Refreshing, k
  <2>2. ProcessOK(self)
    BY <1>1, <2>1, RefreshIsOK
  <2>. HIDE DEF self
  <2>. QED  BY <1>1, <2>1, <2>2, NoTableStep, BecomesKeeps
<1>8. CASE Stop(i)
  <2>1. Becomes(i, Down) /\ KeepsTable /\ UNCHANGED <<forms, last>>
    BY <1>8 DEF Stop, KeepsAlerts
  <2>. QED  BY <1>1, <2>1, DownIsOK, NoTableStep, BecomesKeeps
<1>. QED  BY <1>2, <1>3, <1>4, <1>5, <1>6, <1>7, <1>8 DEF Process

-----------------------------------------------------------------------------
(* The web UI, and the alerts.                                             *)

LEMMA FormIdsGrow ==
  ASSUME WInv, TableStep
  PROVE  FormIds(nextId) \subseteq FormIds(nextId')
<1>1. nextId \in Int /\ nextId' \in Int /\ nextId <= nextId'
  BY IdsAreNumbers DEF WInv, TableStep, TableInv
<1>2. ASSUME NEW n \in Int, NEW m \in Int, n <= m PROVE 1..(n - 1) \subseteq 1..(m - 1)
  BY <1>2
<1>. QED  BY <1>1, <1>2 DEF FormIds

(* A form is of a rule that the table has had.                             *)
LEMMA FormKeeps ==
  ASSUME WInv, TableStep, NEW u \in Admins, NEW f, f.id \in FormIds(nextId),
         forms' = [forms EXCEPT ![u] = f]
  PROVE  FormsInv'
<1>1. FormIds(nextId) \subseteq FormIds(nextId')
  BY FormIdsGrow
<1>2. \A v \in Admins : forms'[v] = IF v = u THEN f ELSE forms[v]
  BY DEF WInv, FormsInv
<1>3. forms' = [v \in Admins |-> forms'[v]]
  BY DEF WInv, FormsInv
<1>. QED  BY <1>1, <1>2, <1>3 DEF WInv, FormsInv

LEMMA FormsKept ==
  ASSUME WInv, TableStep, UNCHANGED forms
  PROVE  FormsInv'
<1>1. FormIds(nextId) \subseteq FormIds(nextId')
  BY FormIdsGrow
<1>. QED  BY <1>1 DEF WInv, FormsInv

LEMMA ConsoleKeeps ==
  ASSUME WInv, NEW u \in Admins, Console(u)
  PROVE  TableStep /\ FormsInv' /\ UNCHANGED <<instances, last>>
<1>1. CASE NewRuleForm(u)
  <2>. DEFINE f == [id |-> 0, rule |-> NoRule]
  <2>1. KeepsTable /\ UNCHANGED <<instances, last>> /\ forms' = [forms EXCEPT ![u] = f]
    BY <1>1 DEF NewRuleForm, KeepsAlerts
  <2>2. f.id \in FormIds(nextId)
    BY DEF FormIds
  <2>. HIDE DEF f
  <2>3. TableStep
    BY <2>1, NoTableStep DEF WInv
  <2>. QED  BY <2>1, <2>2, <2>3, FormKeeps
<1>2. ASSUME NEW id \in Ids, EditRuleForm(u, id)
      PROVE  TableStep /\ FormsInv' /\ UNCHANGED <<instances, last>>
  <2>. DEFINE f == [id |-> id, rule |-> table[id]]
  <2>1. /\ KeepsTable /\ UNCHANGED <<instances, last>> /\ forms' = [forms EXCEPT ![u] = f]
        /\ id \in Rows
    BY <1>2 DEF EditRuleForm, KeepsAlerts
  <2>2. f.id \in FormIds(nextId)
    <3>1. id \in Nat /\ id >= 1 /\ nextId \in Int /\ ~(id >= nextId)
      BY <2>1, IdsAreNumbers DEF WInv, TableInv, Rows
    <3>. QED  BY <3>1 DEF FormIds
  <2>. HIDE DEF f
  <2>3. TableStep
    BY <2>1, NoTableStep DEF WInv
  <2>. QED  BY <2>1, <2>2, <2>3, FormKeeps
<1>3. ASSUME NEW d \in Entries(u), SaveRule(u, d)
      PROVE  TableStep /\ FormsInv' /\ UNCHANGED <<instances, last>>
  <2>1. /\ UNCHANGED <<instances, last>> /\ forms' = [forms EXCEPT ![u] = NoForm]
        /\ KeepsTable \/ Insert(Posted(d)) \/ Update(forms[u].id, Posted(d))
    BY <1>3 DEF SaveRule, KeepsAlerts
  <2>2. TableStep
    BY <2>1, NoTableStep, InsertIsTableStep, UpdateIsTableStep DEF WInv
  <2>3. NoForm.id \in FormIds(nextId)
    BY DEF FormIds, NoForm
  <2>. QED  BY <2>1, <2>2, <2>3, FormKeeps
<1>. QED  BY <1>1, <1>2, <1>3 DEF Console

LEMMA StepKeepsInvariant == WInv /\ [Next]_vars => WInv' /\ GoneStays
<1>. SUFFICES ASSUME WInv, [Next]_vars PROVE WInv' /\ GoneStays
  OBVIOUS
<1>1. ASSUME NEW i \in Instances, Process(i) PROVE WInv' /\ GoneStays
  <2>1. TableStep /\ InstancesInv' /\ UNCHANGED <<forms, last>>
    BY <1>1, ProcessKeeps
  <2>2. FormsInv'
    BY <2>1, FormsKept
  <2>. QED  BY <2>1, <2>2 DEF WInv, TableStep, LastInv
<1>2. ASSUME NEW u \in Admins, Console(u) PROVE WInv' /\ GoneStays
  <2>1. TableStep /\ FormsInv' /\ UNCHANGED <<instances, last>>
    BY <1>2, ConsoleKeeps
  <2>. QED  BY <2>1 DEF WInv, TableStep, InstancesInv, LastInv
<1>3. ASSUME NEW id \in Ids, DeleteRule(id) PROVE WInv' /\ GoneStays
  <2>1. TableStep
    BY <1>3, DeleteIsTableStep DEF WInv
  <2>2. UNCHANGED <<instances, forms, last>>
    BY <1>3 DEF DeleteRule, KeepsAlerts
  <2>3. FormsInv'
    BY <2>1, <2>2, FormsKept
  <2>. QED  BY <2>1, <2>2, <2>3 DEF WInv, TableStep, InstancesInv, LastInv
<1>4. ASSUME NEW i \in Instances, NEW a \in Alerts, NEW status \in {"firing", "resolved"},
             Route(i, a, status)
      PROVE  WInv' /\ GoneStays
  <2>1. /\ KeepsTable /\ UNCHANGED <<instances, forms>>
        /\ last' = [last EXCEPT ![a] = status]
    BY <1>4 DEF Route
  <2>2. TableStep
    BY <2>1, NoTableStep DEF WInv
  <2>3. FormsInv'
    BY <2>1, <2>2, FormsKept
  <2>4. LastInv'
    BY <2>1 DEF WInv, LastInv
  <2>. QED  BY <2>1, <2>2, <2>3, <2>4 DEF WInv, TableStep, InstancesInv
<1>5. CASE UNCHANGED vars
  <2>1. KeepsTable /\ UNCHANGED <<instances, forms, last>>
    BY <1>5 DEF vars, KeepsTable
  <2>2. TableStep
    BY <2>1, NoTableStep DEF WInv
  <2>. QED  BY <2>1, <2>2, FormsKept DEF WInv, TableStep, InstancesInv, LastInv
<1>. QED  BY <1>1, <1>2, <1>3, <1>4, <1>5 DEF Next

LEMMA InitInvariant == Init => WInv
<1>. SUFFICES ASSUME Init PROVE WInv
  OBVIOUS
<1>1. TableInv
  BY RulesAssumption DEF Init, TableInv, Rows, Ids
<1>2. InstancesInv
  BY DownIsOK DEF Init, InstancesInv
<1>3. FormsInv
  BY DEF Init, FormsInv, FormIds, NoForm
<1>. QED  BY <1>1, <1>2, <1>3 DEF Init, WInv, LastInv

(* The invariant holds of every state of every behaviour of the table, the *)
(* forms and the processes.                                                *)
THEOREM WInvAlways == Spec => []WInv
BY InitInvariant, StepKeepsInvariant, PTL DEF Spec

(* The variables have their types, and no two rows of workflow_rules have  *)
(* the same name, whoever seeds, inserts and renames (migrate.go:151).     *)
THEOREM TypeCorrect == Spec => []TypeOK
<1>1. WInv => TypeOK
  BY DEF WInv, TableInv, InstancesInv, ProcessOK, FormsInv, FormIds, LastInv, TypeOK
<1>. QED  BY <1>1, WInvAlways, PTL

(* A rule that was deleted does not come back by a form that was opened    *)
(* before, nor by seeding: UpsertWorkflowRule with an id updates a row or  *)
(* nothing, and a new row has a new id (rules.go).                         *)
THEOREM DeletedStaysDeletedAlways == Spec => DeletedStaysDeleted
<1>1. WInv /\ [Next]_vars =>
        [\A id \in Ids : id < nextId /\ table[id] = NoRule => table'[id] = NoRule]_vars
  BY StepKeepsInvariant DEF GoneStays
<1>. QED  BY <1>1, WInvAlways, PTL DEF Spec, DeletedStaysDeleted

(* Seeding "never clobbers edits made from the web UI" (rules.go:220-222): *)
(* the rules a process has found when it counted them are never            *)
(* overwritten by it, because a process that found any does not seed.      *)
THEOREM SeedKeepsWhatItFoundAlways == Spec => SeedKeepsWhatItFound
<1>1. WInv /\ [Next]_vars =>
        [\A i \in Instances :
           instances[i].at = "seed" /\ instances'[i].todo # instances[i].todo =>
             \A id \in instances[i].found : table'[id] = table[id]]_vars
  BY DEF WInv, InstancesInv, ProcessOK
<1>. QED  BY <1>1, WInvAlways, PTL DEF Spec, SeedKeepsWhatItFound

-----------------------------------------------------------------------------
(* Seeding by processes that start together.                               *)

Imported == LoadLegacyYAMLRules
NamesOf(rules) == {rules[j].name : j \in DOMAIN rules}
NamesThere == {table[id].name : id \in Rows}
Waiting(x) == \E i \in Instances : x \in NamesOf(instances[i].todo)

(* What is still to be imported is in the table or on the list of some     *)
(* process, once a process has started.                                    *)
ImportInv ==
  /\ saves \in Nat /\ faults \in Nat
  /\ \A i \in Instances : /\ instances[i].todo \in Seq(ToSet(Imported))
                          /\ instances[i].at = "down" => instances[i].todo = << >>
  /\ saves = 0 /\ faults = 0 =>
       /\ NamesThere \subseteq NamesOf(Imported)
       /\ (\A i \in Instances : instances[i].at = "down") => Rows = {}
       /\ (\E i \in Instances : instances[i].at # "down") =>
            \A x \in NamesOf(Imported) : x \in NamesThere \/ Waiting(x)

SInv == WInv /\ ImportInv

(* A concatenation of sequences of rules is a sequence of rules: take the  *)
(* first place at which FlattenSeq could go wrong.                         *)
LEMMA FlattenType ==
  ASSUME NEW S, NEW N \in Nat, NEW seqs \in [1..N -> Seq(S)]
  PROVE  FlattenSeq(seqs) \in Seq(S)
<1>. DEFINE Step(f, i) == IF i = 1 THEN seqs[i] ELSE f[i - 1] \o seqs[i]
            Flattens(f, n) == f = [i \in 1..n |-> Step(f, i)]
            flatten == CHOOSE f : Flattens(f, N)
<1>1. CASE N = 0
  <2>1. Len(seqs) = 0 /\ seqs = << >>
    BY <1>1
  <2>. QED  BY <2>1 DEF FlattenSeq
<1>2. CASE N # 0
  <2>1. N \in 1..N /\ Len(seqs) = N
    BY <1>2
  <2>2. FlattenSeq(seqs) = flatten[N]
    BY <1>2, <2>1 DEF FlattenSeq
  <2>. DEFINE Exists(n) == \E f : Flattens(f, n)
              none == {n \in 1..N : ~Exists(n)}
  <2>3. none = {}
    <3>1. SUFFICES ASSUME none # {} PROVE FALSE
      OBVIOUS
    <3>2. PICK x \in none : \A y \in none : ~(<<y, x>> \in OpToRel(<, Nat))
      <4>1. none \subseteq Nat
        <5>. HIDE DEF Exists
        <5>. QED  OBVIOUS
      <4>. HIDE DEF none
      <4>. QED  BY <3>1, <4>1, NatLessThanWellFounded, WFMin
    <3>3. x \in 1..N /\ ~Exists(x)
      <4>. HIDE DEF Exists
      <4>. QED  OBVIOUS
    <3>4. x # 1
      <4>1. ASSUME x = 1 PROVE Flattens([i \in 1..1 |-> seqs[i]], x)
        BY <4>1
      <4>. QED  BY <3>3, <4>1
    <3>5. x - 1 \in 1..N /\ x - 1 \in Nat /\ x \in Nat /\ x - 1 < x
      BY <3>3, <3>4
    <3>6. Exists(x - 1)
      <4>. HIDE DEF Exists
      <4>. QED  BY <3>2, <3>5 DEF OpToRel
    <3>7. PICK f : Flattens(f, x - 1)
      BY <3>6
    <3>. DEFINE g == [i \in 1..x |-> IF i = x THEN f[x - 1] \o seqs[x] ELSE f[i]]
    <3>8. ASSUME NEW i \in 1..x PROVE g[i] = Step(g, i)
      <4>1. CASE i = x
        <5>1. x - 1 \in 1..x /\ x - 1 # x /\ g[x - 1] = f[x - 1]
          BY <3>5
        <5>2. x \in 1..x /\ g[x] = f[x - 1] \o seqs[x]
          BY <3>5
        <5>. QED  BY <3>4, <4>1, <5>1, <5>2
      <4>2. CASE i # x
        <5>1. i \in 1..(x - 1) /\ i - 1 # x
          BY <3>5, <4>2
        <5>2. f[i] = Step(f, i)
          BY <3>7, <5>1
        <5>3. i # 1 => i - 1 \in 1..x /\ g[i - 1] = f[i - 1]
          BY <3>5, <5>1
        <5>. QED  BY <4>2, <5>2, <5>3
      <4>. QED  BY <4>1, <4>2
    <3>9. Flattens(g, x)
      BY <3>8
    <3>. QED  BY <3>3, <3>9
  <2>4. Flattens(flatten, N)
    <3>1. \E f : Flattens(f, N)
      BY <2>1, <2>3
    <3>. HIDE DEF Flattens
    <3>. QED  BY <3>1
  <2>. HIDE DEF flatten
  <2>5. \A i \in 1..N : flatten[i] = Step(flatten, i)
    BY <2>4
  <2>. DEFINE wrong == {i \in 1..N : flatten[i] \notin Seq(S)}
  <2>6. SUFFICES ASSUME wrong # {} PROVE FALSE
    BY <2>1, <2>2
  <2>7. PICK x \in wrong : \A y \in wrong : ~(<<y, x>> \in OpToRel(<, Nat))
    <3>1. wrong \subseteq Nat
      OBVIOUS
    <3>. HIDE DEF wrong
    <3>. QED  BY <2>6, <3>1, NatLessThanWellFounded, WFMin
  <2>8. x \in 1..N /\ flatten[x] \notin Seq(S) /\ seqs[x] \in Seq(S)
    OBVIOUS
  <2>9. x # 1
    BY <2>5, <2>8
  <2>10. x - 1 \in 1..N /\ x - 1 \in Nat /\ x \in Nat /\ x - 1 < x
    BY <2>8, <2>9
  <2>11. flatten[x - 1] \in Seq(S)
    BY <2>7, <2>10 DEF OpToRel
  <2>12. flatten[x] = flatten[x - 1] \o seqs[x]
    BY <2>5, <2>8, <2>9
  <2>. QED  BY <2>8, <2>11, <2>12
<1>. QED  BY <1>1, <1>2

ImportedRules == UNION {ToSet(ImportedFrom(Files[i])) : i \in DOMAIN Files}

LEMMA ImportedIsSequence ==
  Imported \in Seq(ImportedRules) /\ Imported \in Seq(ToSet(Imported))
<1>. DEFINE seqs == [i \in DOMAIN Files |-> ImportedFrom(Files[i])]
<1>1. PICK N \in Nat : DOMAIN Files = 1..N
  BY RulesAssumption
<1>2. seqs \in [1..N -> Seq(ImportedRules)]
  <2>1. ASSUME NEW i \in 1..N PROVE ImportedFrom(Files[i]) \in Seq(ImportedRules)
    <3>1. ToSet(ImportedFrom(Files[i])) \subseteq ImportedRules
      BY <1>1 DEF ImportedRules
    <3>2. CASE SlackChannels(Files[i]) = << >>
      BY <3>2 DEF ImportedFrom
    <3>3. CASE SlackChannels(Files[i]) # << >>
      <4>1. PICK r : ImportedFrom(Files[i]) = <<r>>
        BY <3>3 DEF ImportedFrom
      <4>2. r \in ToSet(<<r>>)
        BY DEF ToSet
      <4>. QED  BY <3>1, <4>1, <4>2
    <3>. QED  BY <3>2, <3>3
  <2>. QED  BY <1>1, <2>1
<1>3. Imported \in Seq(ImportedRules)
  <2>1. FlattenSeq(seqs) \in Seq(ImportedRules)
    <3>. HIDE DEF seqs
    <3>. QED  BY <1>2, FlattenType
  <2>. QED  BY <2>1 DEF Imported, LoadLegacyYAMLRules
<1>4. Imported \in Seq(ToSet(Imported))
  BY <1>3 DEF ToSet
<1>. QED  BY <1>3, <1>4

(* A rule that is imported has a channel and is no empty row.              *)
LEMMA ImportedIsRule ==
  ASSUME NEW r \in ToSet(Imported)
  PROVE  r # NoRule /\ r.name \in NamesOf(Imported)
<1>1. PICK j \in DOMAIN Imported : r = Imported[j]
  BY DEF ToSet
<1>2. "match" \in DOMAIN r
  <2>1. r \in ImportedRules
    BY <1>1, ImportedIsSequence
  <2>2. PICK i \in DOMAIN Files : r \in ToSet(ImportedFrom(Files[i]))
    BY <2>1 DEF ImportedRules
  <2>3. SlackChannels(Files[i]) # << >>
    BY <2>2 DEF ImportedFrom, ToSet
  <2>. QED  BY <2>2, <2>3 DEF ImportedFrom, ToSet
<1>3. "match" \notin DOMAIN NoRule
  BY DEF NoRule
<1>. QED  BY <1>1, <1>2, <1>3 DEF NamesOf

LEMMA InsertAddsName ==
  ASSUME TableInv, NEW rule, rule # NoRule, Insert(rule)
  PROVE  NamesThere' = NamesThere \cup {rule.name}
<1>1. CASE Named(rule.name) # {}
  <2>1. \A id \in Ids : table'[id] = IF id \in Named(rule.name) THEN rule ELSE table[id]
    BY <1>1 DEF Insert
  <2>2. Rows' = Rows /\ \A id \in Rows : table'[id].name = table[id].name
    BY <2>1 DEF Rows, Named
  <2>3. rule.name \in NamesThere
    BY <1>1 DEF Named, NamesThere
  <2>. QED  BY <2>2, <2>3 DEF NamesThere
<1>2. CASE Named(rule.name) = {}
  <2>1. nextId <= MaxId /\ table' = [table EXCEPT ![nextId] = rule]
    BY <1>2 DEF Insert
  <2>2. nextId \in Ids /\ nextId \notin Rows
    BY <2>1, IdsAreNumbers DEF TableInv, Ids, Rows
  <2>3. \A id \in Ids : table'[id] = IF id = nextId THEN rule ELSE table[id]
    BY <2>1 DEF TableInv
  <2>4. Rows' = Rows \cup {nextId}
    BY <2>2, <2>3 DEF Rows
  <2>5. \A id \in Rows : table'[id] = table[id] /\ id \in Ids
    BY <2>2, <2>3 DEF Rows
  <2>6. table'[nextId] = rule
    BY <2>2, <2>3
  <2>. QED  BY <2>4, <2>5, <2>6 DEF NamesThere
<1>. QED  BY <1>1, <1>2

LEMMA HeadAndTail ==
  ASSUME NEW S, NEW todo \in Seq(S), todo # << >>
  PROVE  /\ Head(todo) \in S /\ Tail(todo) \in Seq(S)
         /\ NamesOf(todo) = NamesOf(Tail(todo)) \cup {Head(todo).name}
<1>1. Head(todo) \in S /\ Tail(todo) \in Seq(S) /\ Len(todo) \in Nat /\ Len(todo) > 0
  OBVIOUS
<1>2. /\ DOMAIN todo = 1..Len(todo) /\ DOMAIN Tail(todo) = 1..(Len(todo) - 1)
      /\ \A j \in 1..(Len(todo) - 1) : Tail(todo)[j] = todo[j + 1]
      /\ Head(todo) = todo[1]
  BY <1>1
<1>3. ASSUME NEW x \in NamesOf(todo)
      PROVE  x \in NamesOf(Tail(todo)) \cup {Head(todo).name}
  <2>1. PICK j \in 1..Len(todo) : x = todo[j].name
    BY <1>2, <1>3 DEF NamesOf
  <2>2. CASE j = 1  BY <1>2, <2>1, <2>2
  <2>3. CASE j # 1
    <3>1. j - 1 \in 1..(Len(todo) - 1) /\ (j - 1) + 1 = j
      BY <1>1, <2>3
    <3>2. Tail(todo)[j - 1] = todo[j]
      BY <1>2, <3>1
    <3>. QED  BY <1>2, <2>1, <3>1, <3>2 DEF NamesOf
  <2>. QED  BY <2>2, <2>3
<1>4. ASSUME NEW x \in NamesOf(Tail(todo)) \cup {Head(todo).name}
      PROVE  x \in NamesOf(todo)
  <2>1. CASE x = Head(todo).name
    <3>1. 1 \in 1..Len(todo)
      BY <1>1
    <3>. QED  BY <1>2, <2>1, <3>1 DEF NamesOf
  <2>2. CASE x \in NamesOf(Tail(todo))
    <3>1. PICK j \in 1..(Len(todo) - 1) : x = Tail(todo)[j].name
      BY <1>2, <2>2 DEF NamesOf
    <3>2. j + 1 \in 1..Len(todo) /\ x = todo[j + 1].name
      BY <1>1, <1>2, <3>1
    <3>. QED  BY <1>2, <3>2 DEF NamesOf
  <2>. QED  BY <1>4, <2>1, <2>2
<1>. QED  BY <1>1, <1>3, <1>4

LEMMA BecomesOnly ==
  ASSUME InstancesInv, NEW i \in Instances, NEW self, Becomes(i, self)
  PROVE  \A o \in Instances : instances'[o] = IF o = i THEN self ELSE instances[o]
<1>1. instances' = [instances EXCEPT ![i] = self]
  BY DEF Becomes
<1>. QED  BY <1>1 DEF InstancesInv

(* A step that seeds nothing and starts nothing.                           *)
LEMMA QuietImport ==
  ASSUME ImportInv, UNCHANGED <<table, saves, faults>>,
         \A o \in Instances : /\ instances'[o].todo = instances[o].todo
                              /\ instances'[o].at = "down" <=> instances[o].at = "down"
  PROVE  ImportInv'
BY DEF ImportInv, NamesThere, Rows, Waiting

(* Steps after which something has failed or was edited.                   *)
LEMMA LateImport ==
  ASSUME ImportInv, faults' = faults + 1 /\ saves' = saves,
         \A o \in Instances : \/ instances'[o].todo = instances[o].todo
                                 /\ (instances'[o].at = "down" => instances[o].at = "down")
                              \/ instances'[o].todo = << >>
  PROVE  ImportInv'
<1>1. saves' \in Nat /\ faults' \in Nat /\ ~(saves' = 0 /\ faults' = 0)
  BY DEF ImportInv
<1>2. << >> \in Seq(ToSet(Imported))
  OBVIOUS
<1>3. \A o \in Instances : /\ instances'[o].todo \in Seq(ToSet(Imported))
                           /\ instances'[o].at = "down" => instances'[o].todo = << >>
  BY <1>2 DEF ImportInv
<1>. QED  BY <1>1, <1>3 DEF ImportInv

LEMMA EditImport ==
  ASSUME ImportInv, saves' = saves + 1, UNCHANGED <<instances, faults>>
  PROVE  ImportInv'
<1>1. saves' \in Nat /\ saves' # 0
  BY DEF ImportInv
<1>. QED  BY <1>1 DEF ImportInv

LEMMA StartImport ==
  ASSUME SInv, NEW i \in Instances, Start(i)
  PROVE  ImportInv'
<1>. DEFINE seeds == LoadLegacyYAMLRules # << >> /\ CountWorkflowRules = 0
            self == [Down EXCEPT !.at = IF seeds THEN "seed" ELSE "load",
                                 !.todo = IF seeds THEN LoadLegacyYAMLRules ELSE << >>,
                                 !.found = IF seeds THEN Rows ELSE {}]
<1>1. Becomes(i, self) /\ instances[i].at = "down" /\ UNCHANGED <<table, saves, faults>>
  BY DEF Start, KeepsTable, counts
<1>2. /\ self.at = IF seeds THEN "seed" ELSE "load"
      /\ self.todo = IF seeds THEN Imported ELSE << >>
  BY DEF Down, Imported
<1>3. Rows = {} => (seeds <=> Imported # << >>)
  BY FS_EmptySet DEF CountWorkflowRules, Imported
<1>. HIDE DEF seeds, self
<1>4. \A o \in Instances : instances'[o] = IF o = i THEN self ELSE instances[o]
  BY <1>1, BecomesOnly DEF SInv, WInv
<1>5. instances'[i] = self /\ self.at # "down"
  BY <1>2, <1>4
<1>6. \A o \in Instances : /\ instances'[o].todo \in Seq(ToSet(Imported))
                           /\ instances'[o].at = "down" => instances'[o].todo = << >>
  <2>1. << >> \in Seq(ToSet(Imported))
    OBVIOUS
  <2>2. self.todo \in Seq(ToSet(Imported))
    BY <1>2, <2>1, ImportedIsSequence
  <2>. QED  BY <1>4, <1>5, <2>2 DEF SInv, ImportInv
<1>7. NamesThere' = NamesThere
  BY <1>1 DEF NamesThere, Rows
<1>8. ASSUME saves' = 0, faults' = 0
      PROVE  /\ NamesThere' \subseteq NamesOf(Imported)
             /\ \A x \in NamesOf(Imported) : x \in NamesThere' \/ Waiting(x)'
  <2>1. saves = 0 /\ faults = 0
    BY <1>1, <1>8
  <2>. SUFFICES ASSUME NEW x \in NamesOf(Imported)
                PROVE  x \in NamesThere' \/ Waiting(x)'
    BY <1>7, <2>1 DEF SInv, ImportInv
  <2>2. CASE \A o \in Instances : instances[o].at = "down"
    <3>1. Rows = {}
      BY <2>1, <2>2 DEF SInv, ImportInv
    <3>2. Imported # << >>
      BY DEF NamesOf
    <3>3. self.todo = Imported
      BY <1>2, <1>3, <3>1, <3>2
    <3>4. x \in NamesOf(instances'[i].todo)
      BY <1>5, <3>3
    <3>. QED  BY <3>4 DEF Waiting
  <2>3. CASE \E o \in Instances : instances[o].at # "down"
    <3>1. x \in NamesThere \/ Waiting(x)
      BY <2>1, <2>3 DEF SInv, ImportInv
    <3>2. ASSUME Waiting(x) PROVE Waiting(x)'
      <4>1. PICK o \in Instances : x \in NamesOf(instances[o].todo)
        BY <3>2 DEF Waiting
      <4>2. instances[o].todo # << >>
        BY <4>1 DEF NamesOf
      <4>3. o # i
        BY <1>1, <4>2 DEF SInv, ImportInv
      <4>4. x \in NamesOf(instances'[o].todo)
        BY <1>4, <4>1, <4>3
      <4>. QED  BY <4>4 DEF Waiting
    <3>. QED  BY <1>7, <3>1, <3>2
  <2>. QED  BY <2>2, <2>3
<1>9. saves' \in Nat /\ faults' \in Nat
  BY <1>1 DEF SInv, ImportInv
<1>. QED  BY <1>5, <1>6, <1>8, <1>9 DEF ImportInv

LEMMA SeedImport ==
  ASSUME SInv, NEW i \in Instances, SeedRule(i)
  PROVE  ImportInv'
<1>. DEFINE k == instances[i]
            rule == Head(k.todo)
<1>1. /\ k.at = "seed" /\ Insert(rule) /\ Becomes(i, Seeded(k)) /\ UNCHANGED <<saves, faults>>
  BY DEF SeedRule, counts
<1>2. ProcessOK(k) /\ k.todo \in Seq(ToSet(Imported)) /\ k.todo # << >>
  BY <1>1 DEF SInv, WInv, InstancesInv, ImportInv, ProcessOK
<1>. HIDE DEF k
<1>3. Seeded(k).todo = Tail(k.todo) /\ Seeded(k).at # "down"
  BY <1>1, <1>2, SeededIsOK
<1>4. \A o \in Instances : instances'[o] = IF o = i THEN Seeded(k) ELSE instances[o]
  BY <1>1, BecomesOnly DEF SInv, WInv
<1>5. /\ rule \in ToSet(Imported) /\ Tail(k.todo) \in Seq(ToSet(Imported))
      /\ NamesOf(k.todo) = NamesOf(Tail(k.todo)) \cup {rule.name}
  BY <1>2, HeadAndTail
<1>6. rule # NoRule /\ rule.name \in NamesOf(Imported)
  BY <1>5, ImportedIsRule
<1>. HIDE DEF rule
<1>7. NamesThere' = NamesThere \cup {rule.name}
  BY <1>1, <1>6, InsertAddsName DEF SInv, WInv
<1>8. \A o \in Instances : /\ instances'[o].todo \in Seq(ToSet(Imported))
                           /\ instances'[o].at = "down" => instances'[o].todo = << >>
  BY <1>3, <1>4, <1>5 DEF SInv, ImportInv
<1>9. ASSUME saves' = 0, faults' = 0
      PROVE  /\ NamesThere' \subseteq NamesOf(Imported)
             /\ \A x \in NamesOf(Imported) : x \in NamesThere' \/ Waiting(x)'
  <2>1. /\ NamesThere \subseteq NamesOf(Imported)
        /\ \A x \in NamesOf(Imported) : x \in NamesThere \/ Waiting(x)
    BY <1>1, <1>9 DEF SInv, ImportInv, k
  <2>2. ASSUME NEW x, Waiting(x) PROVE x \in NamesThere' \/ Waiting(x)'
    <3>1. PICK o \in Instances : x \in NamesOf(instances[o].todo)
      BY <2>2 DEF Waiting
    <3>2. CASE o = i
      <4>1. x \in NamesOf(Tail(k.todo)) \/ x = rule.name
        BY <1>5, <3>1, <3>2 DEF k
      <4>2. instances'[i].todo = Tail(k.todo)
        BY <1>3, <1>4
      <4>. QED  BY <1>7, <4>1, <4>2 DEF Waiting
    <3>3. CASE o # i
      <4>1. x \in NamesOf(instances'[o].todo)
        BY <1>4, <3>1, <3>3
      <4>. QED  BY <4>1 DEF Waiting
    <3>. QED  BY <3>2, <3>3
  <2>. QED  BY <1>6, <1>7, <2>1, <2>2
<1>10. instances'[i].at # "down" /\ saves' \in Nat /\ faults' \in Nat
  BY <1>1, <1>3, <1>4 DEF SInv, ImportInv
<1>. QED  BY <1>8, <1>9, <1>10 DEF ImportInv

LEMMA ProcessImport ==
  ASSUME SInv, NEW i \in Instances, Process(i)
  PROVE  ImportInv'
<1>. DEFINE k == instances[i]
<1>1. InstancesInv /\ ProcessOK(k) /\ ImportInv
  BY DEF SInv, WInv, InstancesInv
<1>. HIDE DEF k
<1>2. CASE Start(i)  BY <1>2, StartImport
<1>3. CASE SeedRule(i)  BY <1>3, SeedImport
<1>4. CASE SeedFails(i)
  <2>. DEFINE self == [Down EXCEPT !.at = "load"]
  <2>1. Becomes(i, self) /\ faults' = faults + 1 /\ saves' = saves
    BY <1>4 DEF SeedFails, Fault
  <2>2. self.todo = << >>
    BY DEF Down
  <2>. HIDE DEF self
  <2>3. \A o \in Instances : instances'[o] = IF o = i THEN self ELSE instances[o]
    BY <1>1, <2>1, BecomesOnly
  <2>. QED  BY <1>1, <2>1, <2>2, <2>3, LateImport
<1>5. CASE FetchRules(i)
  <2>. DEFINE self == [k EXCEPT !.fetched = EnabledRules(table)]
  <2>1. /\ Becomes(i, self) /\ UNCHANGED <<table, saves, faults>> /\ k.at \in {"load", "up"}
    BY <1>5 DEF FetchRules, KeepsTable, counts, Refreshing, k
  <2>2. self.todo = k.todo /\ self.at = k.at
    BY <1>1, <2>1, RefreshIsOK
  <2>. HIDE DEF self
  <2>3. \A o \in Instances : instances'[o] = IF o = i THEN self ELSE instances[o]
    BY <1>1, <2>1, BecomesOnly
  <2>. QED  BY <1>1, <2>1, <2>2, <2>3, QuietImport DEF k
<1>6. CASE InstallRules(i)
  <2>. DEFINE self == [k EXCEPT !.cache = k.fetched, !.fetched = Nothing, !.at = "up"]
  <2>1. /\ Becomes(i, self) /\ UNCHANGED <<table, saves, faults>> /\ k.fetched # Nothing
    BY <1>6 DEF InstallRules, KeepsTable, counts, k
  <2>2. self.todo = k.todo /\ self.at = "up" /\ k.at # "down"
    BY <1>1, <2>1, RefreshIsOK DEF ProcessOK
  <2>. HIDE DEF self
  <2>3. \A o \in Instances : instances'[o] = IF o = i THEN self ELSE instances[o]
    BY <1>1, <2>1, BecomesOnly
  <2>. QED  BY <1>1, <2>1, <2>2, <2>3, QuietImport DEF k
<1>7. CASE RefreshFails(i)
  <2>. DEFINE self == [k EXCEPT !.at = "up"]
  <2>1. /\ Becomes(i, self) /\ faults' = faults + 1 /\ saves' = saves
        /\ k.at \in {"load", "up"}
    BY <1>7 DEF RefreshFails, Fault, Refreshing, k
  <2>2. self.todo = k.todo /\ self.at = "up"
    BY <1>1, <2>1, RefreshIsOK
  <2>. HIDE DEF self
  <2>3. \A o \in Instances : instances'[o] = IF o = i THEN self ELSE instances[o]
    BY <1>1, <2>1, BecomesOnly
  <2>. QED  BY <1>1, <2>1, <2>2, <2>3, LateImport DEF k
<1>8. CASE Stop(i)
  <2>1. Becomes(i, Down) /\ faults' = faults + 1 /\ saves' = saves
    BY <1>8 DEF Stop, Fault
  <2>2. Down.todo = << >>
    BY DEF Down
  <2>3. \A o \in Instances : instances'[o] = IF o = i THEN Down ELSE instances[o]
    BY <1>1, <2>1, BecomesOnly
  <2>. QED  BY <1>1, <2>1, <2>2, <2>3, LateImport
<1>. QED  BY <1>2, <1>3, <1>4, <1>5, <1>6, <1>7, <1>8 DEF Process

LEMMA StepKeepsImport ==
  ASSUME SInv, [Next]_vars
  PROVE  SInv'
<1>1. WInv'
  BY StepKeepsInvariant DEF SInv
<1>2. ImportInv
  BY DEF SInv
<1>3. ASSUME NEW i \in Instances, Process(i) PROVE ImportInv'
  BY <1>3, ProcessImport
<1>4. ASSUME NEW u \in Admins, Console(u) PROVE ImportInv'
  <2>1. CASE NewRuleForm(u)
    BY <1>2, <2>1, QuietImport DEF NewRuleForm, KeepsTable, counts
  <2>2. ASSUME NEW id \in Ids, EditRuleForm(u, id) PROVE ImportInv'
    BY <1>2, <2>2, QuietImport DEF EditRuleForm, KeepsTable, counts
  <2>3. ASSUME NEW d \in Entries(u), SaveRule(u, d) PROVE ImportInv'
    <3>1. saves' = saves + 1 /\ UNCHANGED <<instances, faults>>
      BY <2>3 DEF SaveRule
    <3>. QED  BY <1>2, <3>1, EditImport
  <2>. QED  BY <1>4, <2>1, <2>2, <2>3 DEF Console
<1>5. ASSUME NEW id \in Ids, DeleteRule(id) PROVE ImportInv'
  <2>1. saves' = saves + 1 /\ UNCHANGED <<instances, faults>>
    BY <1>5 DEF DeleteRule
  <2>. QED  BY <1>2, <2>1, EditImport
<1>6. ASSUME NEW i \in Instances, NEW a \in Alerts, NEW status \in {"firing", "resolved"},
             Route(i, a, status)
      PROVE  ImportInv'
  BY <1>2, <1>6, QuietImport DEF Route, KeepsTable
<1>7. ASSUME UNCHANGED vars PROVE ImportInv'
  BY <1>2, <1>7, QuietImport DEF vars
<1>8. ImportInv'
  BY <1>3, <1>4, <1>5, <1>6, <1>7 DEF Next
<1>. QED  BY <1>1, <1>8 DEF SInv

LEMMA InitSeeding == Init => SInv
<1>. SUFFICES ASSUME Init PROVE SInv
  OBVIOUS
<1>1. << >> \in Seq(ToSet(Imported)) /\ Down.todo = << >> /\ Down.at = "down"
  BY DEF Down
<1>2. Rows = {}
  BY DEF Init, Rows
<1>3. ImportInv
  BY <1>1, <1>2 DEF Init, ImportInv, NamesThere
<1>. QED  BY <1>3, InitInvariant DEF SInv

(* Processes that start together on an empty table import all of the files *)
(* between them (main.go, SeedWorkflowRulesFromYAML).                      *)
THEOREM SeedingCompletesAlways == Spec => []SeedingCompletes
<1>1. Init => SInv
  BY InitSeeding
<1>2. SInv /\ [Next]_vars => SInv'
  BY StepKeepsImport
<1>3. ASSUME SInv PROVE SeedingCompletes
  <2>. SUFFICES ASSUME saves = 0, faults = 0, \A i \in Instances : instances[i].at = "up"
                PROVE  NamesThere = {r.name : r \in ToSet(Imported)}
    BY DEF SeedingCompletes, NamesThere, Imported
  <2>1. NamesOf(Imported) = {r.name : r \in ToSet(Imported)}
    BY DEF NamesOf, ToSet
  <2>2. \A i \in Instances : instances[i].todo = << >>
    BY <1>3 DEF SInv, WInv, InstancesInv, ProcessOK
  <2>3. \A x : ~Waiting(x)
    BY <2>2 DEF Waiting, NamesOf
  <2>4. \E i \in Instances : instances[i].at # "down"
    BY RulesAssumption
  <2>. QED  BY <1>3, <2>1, <2>3, <2>4 DEF SInv, ImportInv
<1>. QED  BY <1>1, <1>2, <1>3, PTL DEF Spec

-----------------------------------------------------------------------------
(* Routing.  In what follows U is a set of rules that has all that may get *)
(* into the table: what is imported, and what a form makes of a draft or   *)
(* of a rule.                                                              *)

SavedIn(U) == ToSet(Imported) \subseteq U /\ \A d \in Drafts \cup U : Posted(d) \in U

(* Rules that send an alert to the same incident spell it the same way: no *)
(* two of them differ only in how a channel list is written or in a label  *)
(* that is named twice.                                                    *)
SpellAlike(U) ==
  \A a \in Alerts : \A r, q \in U :
    Incident(r, LabelsOf[a]) = Incident(q, LabelsOf[a]) =>
      ComputeGroupKey(r, LabelsOf[a]) = ComputeGroupKey(q, LabelsOf[a])

Members(rules, a) == {<<k, a>> : k \in KeysOf(rules, a)}

TableFrom(U) == \A id \in Rows : table[id] \in U

RulesFrom(rules, U) == rules \subseteq U /\ IsFiniteSet(rules)

KnowsFrom(k, U) == RulesFrom(k.cache, U) /\ (k.fetched # Nothing => RulesFrom(k.fetched, U))

FormsFrom(U) == \A u \in Admins : forms[u].rule \in U \cup {NoRule}

FromInv(U) == TableFrom(U) /\ FormsFrom(U) /\ \A i \in Instances : KnowsFrom(instances[i], U)

(* An alert whose routing has not changed is open where the rules send it, *)
(* or nowhere.                                                             *)
SteadyInv ==
  /\ IsFiniteSet(open)
  /\ \A a \in Alerts : steady[a] =>
       /\ Agreed(table, instances, a)
       /\ OpenFor(open, a) = IF last[a] = "firing" THEN Members(EnabledRules(table), a) ELSE {}

(* The key says more than the incident.                                    *)
LEMMA KeyGivesIncident ==
  ASSUME NEW r, NEW q, NEW labels, ComputeGroupKey(r, labels) = ComputeGroupKey(q, labels)
  PROVE  Incident(r, labels) = Incident(q, labels)
<1>. DEFINE byR == GroupBy(r)
            byQ == GroupBy(q)
            count(by, k) == Cardinality({i \in DOMAIN by : by[i] = k})
            keyR == [k \in ToSet(byR) |-> <<count(byR, k), Value(labels, k)>>]
            keyQ == [k \in ToSet(byQ) |-> <<count(byQ, k), Value(labels, k)>>]
<1>1. r.name = q.name /\ r.channel = q.channel /\ keyR = keyQ
  BY DEF ComputeGroupKey
<1>2. ToSet(byR) = DOMAIN keyR /\ ToSet(byQ) = DOMAIN keyQ
  OBVIOUS
<1>. HIDE DEF keyR, keyQ
<1>3. ToSet(byR) = ToSet(byQ)
  BY <1>1, <1>2
<1>. QED  BY <1>1, <1>3 DEF Incident

LEMMA SameIncidentsSameKeys ==
  ASSUME NEW U, SpellAlike(U), NEW R \in SUBSET U, NEW Q \in SUBSET U, NEW a \in Alerts,
         Incidents(R, a) = Incidents(Q, a)
  PROVE  Members(R, a) = Members(Q, a)
<1>1. ASSUME NEW S \in SUBSET U, NEW T \in SUBSET U, Incidents(S, a) = Incidents(T, a),
             NEW k \in KeysOf(S, a)
      PROVE  k \in KeysOf(T, a)
  <2>1. PICK r \in S : Matches(r, LabelsOf[a]) /\ k = ComputeGroupKey(r, LabelsOf[a])
    BY <1>1 DEF KeysOf
  <2>2. Incident(r, LabelsOf[a]) \in Incidents(T, a)
    BY <1>1, <2>1 DEF Incidents
  <2>3. PICK q \in T : /\ Matches(q, LabelsOf[a])
                       /\ Incident(r, LabelsOf[a]) = Incident(q, LabelsOf[a])
    BY <2>2 DEF Incidents
  <2>4. ComputeGroupKey(r, LabelsOf[a]) = ComputeGroupKey(q, LabelsOf[a])
    BY <2>1, <2>3 DEF SpellAlike
  <2>. QED  BY <2>1, <2>3, <2>4 DEF KeysOf
<1>2. KeysOf(R, a) = KeysOf(Q, a)
  BY <1>1
<1>. QED  BY <1>2 DEF Members

(* As many groups as incidents.                                            *)
LEMMA AsManyKeys ==
  ASSUME NEW U, SpellAlike(U), NEW R, RulesFrom(R, U), NEW a \in Alerts
  PROVE  /\ IsFiniteSet(Members(R, a))
         /\ Cardinality(Members(R, a)) = Cardinality(Incidents(R, a))
<1>. DEFINE used == {q \in R : Matches(q, LabelsOf[a])}
            Key(r) == ComputeGroupKey(r, LabelsOf[a])
            Inc(r) == Incident(r, LabelsOf[a])
            f == [r \in used |-> <<Key(r), a>>]
            g == [p \in Members(R, a) |->
                    CHOOSE x \in Incidents(R, a) : \E r \in used : p = <<Key(r), a>> /\ x = Inc(r)]
<1>1. IsFiniteSet(used) /\ used \subseteq U
  BY FS_Subset DEF RulesFrom
<1>2. /\ Members(R, a) = {<<Key(r), a>> : r \in used}
      /\ Incidents(R, a) = {Inc(r) : r \in used}
  BY DEF Members, KeysOf, Incidents
<1>3. \A r, q \in used : Key(r) = Key(q) <=> Inc(r) = Inc(q)
  BY <1>1, KeyGivesIncident DEF SpellAlike
<1>. HIDE DEF used, Key, Inc
<1>4. f \in Surjection(used, Members(R, a))
  BY <1>2 DEF Surjection
<1>5. IsFiniteSet(Members(R, a))
  <2>. HIDE DEF f
  <2>. QED  BY <1>1, <1>4, FS_Surjection
<1>6. \A r \in used : g[<<Key(r), a>>] = Inc(r)
  <2>. SUFFICES ASSUME NEW r \in used PROVE g[<<Key(r), a>>] = Inc(r)
    OBVIOUS
  <2>1. <<Key(r), a>> \in Members(R, a) /\ Inc(r) \in Incidents(R, a)
    BY <1>2
  <2>2. \E x \in Incidents(R, a) : \E q \in used : <<Key(r), a>> = <<Key(q), a>> /\ x = Inc(q)
    BY <2>1
  <2>3. \E q \in used : <<Key(r), a>> = <<Key(q), a>> /\ g[<<Key(r), a>>] = Inc(q)
    BY <2>1, <2>2
  <2>4. PICK q \in used : Key(r) = Key(q) /\ g[<<Key(r), a>>] = Inc(q)
    BY <2>3
  <2>. QED  BY <1>3, <2>4
<1>7. g = [p \in Members(R, a) |-> g[p]]
  OBVIOUS
<1>. HIDE DEF g
<1>8. g \in Bijection(Members(R, a), Incidents(R, a))
  <2>1. \A p \in Members(R, a) : \E r \in used : p = <<Key(r), a>> /\ g[p] = Inc(r)
    BY <1>2, <1>6
  <2>2. g \in [Members(R, a) -> Incidents(R, a)]
    BY <1>2, <1>7, <2>1
  <2>3. \A p, o \in Members(R, a) : g[p] = g[o] => p = o
    BY <1>3, <2>1
  <2>4. \A x \in Incidents(R, a) : \E p \in Members(R, a) : g[p] = x
    BY <1>2, <1>6
  <2>. QED  BY <2>2, <2>3, <2>4 DEF Bijection, Injection, Surjection, IsInjective
<1>9. ExistsBijection(Members(R, a), Incidents(R, a))
  BY <1>8 DEF ExistsBijection
<1>. QED  BY <1>5, <1>9, FS_Bijection

(* What is enabled in the table comes from U as well.                      *)
LEMMA EnabledFrom ==
  ASSUME NEW U, TableFrom(U)
  PROVE  RulesFrom(EnabledRules(table), U)
<1>. DEFINE on == {i \in Ids : table[i] # NoRule /\ table[i].enabled}
            f == [i \in on |-> table[i]]
<1>1. IsFiniteSet(Ids)
  BY FS_Interval, RulesAssumption DEF Ids
<1>2. IsFiniteSet(on)
  BY <1>1, FS_Subset
<1>3. EnabledRules(table) = {table[i] : i \in on}
  BY DEF EnabledRules
<1>4. f \in Surjection(on, EnabledRules(table))
  BY <1>3 DEF Surjection
<1>5. IsFiniteSet(EnabledRules(table))
  <2>. HIDE DEF on, f
  <2>. QED  BY <1>2, <1>4, FS_Surjection
<1>6. EnabledRules(table) \subseteq U
  BY <1>3 DEF TableFrom, Rows
<1>. QED  BY <1>5, <1>6 DEF RulesFrom

LEMMA InsertFrom ==
  ASSUME NEW U, TableInv, TableFrom(U), NEW rule \in U, Insert(rule)
  PROVE  TableFrom(U)'
<1>1. \A id \in Ids : table'[id] = table[id] \/ table'[id] = rule
  BY DEF Insert, TableInv
<1>. QED  BY <1>1 DEF TableFrom, Rows

LEMMA UpdateFrom ==
  ASSUME NEW U, TableInv, TableFrom(U), NEW id, NEW rule \in U, Update(id, rule)
  PROVE  TableFrom(U)'
<1>1. \A o \in Ids : table'[o] = table[o] \/ table'[o] = rule
  BY DEF Update, TableInv
<1>. QED  BY <1>1 DEF TableFrom, Rows

LEMMA KeptFrom ==
  ASSUME NEW U, TableFrom(U), KeepsTable
  PROVE  TableFrom(U)'
BY DEF TableFrom, Rows, KeepsTable

LEMMA BecomesKnows ==
  ASSUME NEW U, InstancesInv, \A i \in Instances : KnowsFrom(instances[i], U),
         NEW i \in Instances, NEW self, KnowsFrom(self, U), Becomes(i, self)
  PROVE  \A o \in Instances : KnowsFrom(instances'[o], U)
BY BecomesOnly

LEMMA Knows ==
  ASSUME NEW U, NEW k, ProcessOK(k), KnowsFrom(k, U)
  PROVE  /\ KnowsFrom(Seeded(k), U)
         /\ \A rules : RulesFrom(rules, U) => KnowsFrom([k EXCEPT !.fetched = rules], U)
         /\ k.fetched # Nothing =>
              KnowsFrom([k EXCEPT !.cache = k.fetched, !.fetched = Nothing, !.at = "up"], U)
         /\ KnowsFrom([k EXCEPT !.at = "up"], U)
<1>1. Seeded(k).cache = k.cache /\ Seeded(k).fetched = k.fetched
  BY DEF Seeded, ProcessOK
<1>2. ASSUME NEW rules
      PROVE  /\ [k EXCEPT !.fetched = rules].cache = k.cache
             /\ [k EXCEPT !.fetched = rules].fetched = rules
  BY DEF ProcessOK
<1>. DEFINE done == [k EXCEPT !.cache = k.fetched, !.fetched = Nothing, !.at = "up"]
            up == [k EXCEPT !.at = "up"]
<1>3. done.cache = k.fetched /\ done.fetched = Nothing
  BY DEF ProcessOK
<1>4. up.cache = k.cache /\ up.fetched = k.fetched
  BY DEF ProcessOK
<1>. HIDE DEF done, up
<1>5. KnowsFrom(Seeded(k), U)
  BY <1>1 DEF KnowsFrom
<1>6. ASSUME NEW rules, RulesFrom(rules, U) PROVE KnowsFrom([k EXCEPT !.fetched = rules], U)
  BY <1>2, <1>6 DEF KnowsFrom
<1>7. k.fetched # Nothing => KnowsFrom(done, U)
  BY <1>3 DEF KnowsFrom
<1>8. KnowsFrom(up, U)
  BY <1>4 DEF KnowsFrom
<1>. QED  BY <1>5, <1>6, <1>7, <1>8 DEF done, up

LEMMA ProcessFrom ==
  ASSUME SInv, NEW U, SavedIn(U), FromInv(U), NEW i \in Instances, Process(i)
  PROVE  FromInv(U)'
<1>. DEFINE k == instances[i]
            AllKnow == \A o \in Instances : KnowsFrom(instances'[o], U)
<1>1. /\ TableInv /\ InstancesInv /\ ProcessOK(k) /\ KnowsFrom(k, U) /\ TableFrom(U)
      /\ \A o \in Instances : KnowsFrom(instances[o], U)
  BY DEF SInv, WInv, InstancesInv, FromInv
<1>. HIDE DEF k
<1>2. FormsFrom(U)'
  <2>1. UNCHANGED forms
    BY ProcessKeeps DEF SInv
  <2>. QED  BY <2>1 DEF FromInv, FormsFrom
<1>3. ASSUME NEW at \in {"seed", "load"}, NEW todo, NEW found,
             Becomes(i, [Down EXCEPT !.at = at, !.todo = todo, !.found = found])
      PROVE  AllKnow
  <2>. DEFINE self == [Down EXCEPT !.at = at, !.todo = todo, !.found = found]
  <2>1. self.cache = {} /\ self.fetched = Nothing
    BY DEF Down
  <2>. HIDE DEF self
  <2>2. KnowsFrom(self, U)
    BY <2>1, FS_EmptySet DEF KnowsFrom, RulesFrom
  <2>3. Becomes(i, self)
    BY <1>3 DEF self
  <2>. QED  BY <1>1, <2>2, <2>3, BecomesKnows
<1>4. CASE Start(i)
  <2>1. KeepsTable
    BY <1>4 DEF Start
  <2>. DEFINE seeds == LoadLegacyYAMLRules # << >> /\ CountWorkflowRules = 0
              at == IF seeds THEN "seed" ELSE "load"
              todo == IF seeds THEN LoadLegacyYAMLRules ELSE << >>
              found == IF seeds THEN Rows ELSE {}
  <2>2. Becomes(i, [Down EXCEPT !.at = at, !.todo = todo, !.found = found])
    BY <1>4 DEF Start
  <2>3. at \in {"seed", "load"}
    OBVIOUS
  <2>. HIDE DEF at, todo, found
  <2>4. AllKnow
    BY <1>3, <2>2, <2>3
  <2>. QED  BY <1>1, <1>2, <2>1, <2>4, KeptFrom DEF FromInv
<1>5. CASE SeedRule(i)
  <2>1. k.at = "seed" /\ Becomes(i, Seeded(k)) /\ Insert(Head(k.todo))
    BY <1>5 DEF SeedRule, k
  <2>2. KnowsFrom(Seeded(k), U)
    BY <1>1, Knows
  <2>3. AllKnow
    BY <1>1, <2>1, <2>2, BecomesKnows
  <2>4. k.todo \in Seq(ToSet(Imported)) /\ k.todo # << >>
    BY <1>1, <2>1 DEF SInv, ImportInv, ProcessOK, k
  <2>5. Head(k.todo) \in ToSet(Imported)
    BY <2>4, HeadAndTail
  <2>6. Head(k.todo) \in U
    BY <2>5 DEF SavedIn
  <2>7. TableFrom(U)'
    BY <1>1, <2>1, <2>6, InsertFrom
  <2>. QED  BY <1>2, <2>3, <2>7 DEF FromInv
<1>6. CASE SeedFails(i)
  <2>. DEFINE self == [Down EXCEPT !.at = "load"]
  <2>1. KeepsTable /\ Becomes(i, self)
    BY <1>6 DEF SeedFails
  <2>2. self.cache = {} /\ self.fetched = Nothing
    BY DEF Down
  <2>. HIDE DEF self
  <2>3. KnowsFrom(self, U)
    BY <2>2, FS_EmptySet DEF KnowsFrom, RulesFrom
  <2>4. AllKnow
    BY <1>1, <2>1, <2>3, BecomesKnows
  <2>. QED  BY <1>1, <1>2, <2>1, <2>4, KeptFrom DEF FromInv
<1>7. CASE FetchRules(i)
  <2>. DEFINE self == [k EXCEPT !.fetched = EnabledRules(table)]
  <2>1. KeepsTable /\ Becomes(i, self)
    BY <1>7 DEF FetchRules, k
  <2>2. KnowsFrom(self, U)
    BY <1>1, EnabledFrom, Knows
  <2>. HIDE DEF self
  <2>3. AllKnow
    BY <1>1, <2>1, <2>2, BecomesKnows
  <2>. QED  BY <1>1, <1>2, <2>1, <2>3, KeptFrom DEF FromInv
<1>8. CASE InstallRules(i)
  <2>. DEFINE self == [k EXCEPT !.cache = k.fetched, !.fetched = Nothing, !.at = "up"]
  <2>1. KeepsTable /\ Becomes(i, self) /\ k.fetched # Nothing
    BY <1>8 DEF InstallRules, k
  <2>2. KnowsFrom(self, U)
    BY <1>1, <2>1, Knows
  <2>. HIDE DEF self
  <2>3. AllKnow
    BY <1>1, <2>1, <2>2, BecomesKnows
  <2>. QED  BY <1>1, <1>2, <2>1, <2>3, KeptFrom DEF FromInv
<1>9. CASE RefreshFails(i)
  <2>. DEFINE self == [k EXCEPT !.at = "up"]
  <2>1. KeepsTable /\ Becomes(i, self)
    BY <1>9 DEF RefreshFails, k
  <2>2. KnowsFrom(self, U)
    BY <1>1, Knows
  <2>. HIDE DEF self
  <2>3. AllKnow
    BY <1>1, <2>1, <2>2, BecomesKnows
  <2>. QED  BY <1>1, <1>2, <2>1, <2>3, KeptFrom DEF FromInv
<1>10. CASE Stop(i)
  <2>1. KeepsTable /\ Becomes(i, Down)
    BY <1>10 DEF Stop
  <2>2. KnowsFrom(Down, U)
    BY FS_EmptySet DEF KnowsFrom, RulesFrom, Down
  <2>3. AllKnow
    BY <1>1, <2>1, <2>2, BecomesKnows
  <2>. QED  BY <1>1, <1>2, <2>1, <2>3, KeptFrom DEF FromInv
<1>. QED  BY <1>4, <1>5, <1>6, <1>7, <1>8, <1>9, <1>10 DEF Process

(* A form has a rule of the table or none, so what it saves is in U.       *)
LEMMA ConsoleFrom ==
  ASSUME SInv, NEW U, SavedIn(U), FromInv(U), NEW u \in Admins, Console(u)
  PROVE  FromInv(U)'
<1>1. UNCHANGED instances /\ TableInv /\ TableFrom(U)
  BY ConsoleKeeps DEF SInv, WInv, FromInv
<1>2. \A i \in Instances : KnowsFrom(instances'[i], U)
  BY <1>1 DEF FromInv
<1>3. ASSUME NEW f, f.rule \in U \cup {NoRule}, forms' = [forms EXCEPT ![u] = f]
      PROVE  FormsFrom(U)'
  <2>1. \A v \in Admins : forms'[v] = IF v = u THEN f ELSE forms[v]
    BY <1>3 DEF SInv, WInv, FormsInv
  <2>. QED  BY <1>3, <2>1 DEF FromInv, FormsFrom
<1>4. CASE NewRuleForm(u)
  <2>. DEFINE f == [id |-> 0, rule |-> NoRule]
  <2>1. KeepsTable /\ forms' = [forms EXCEPT ![u] = f] /\ f.rule = NoRule
    BY <1>4 DEF NewRuleForm
  <2>. HIDE DEF f
  <2>2. FormsFrom(U)'
    BY <1>3, <2>1
  <2>. QED  BY <1>1, <1>2, <2>1, <2>2, KeptFrom DEF FromInv
<1>5. ASSUME NEW id \in Ids, EditRuleForm(u, id) PROVE FromInv(U)'
  <2>. DEFINE f == [id |-> id, rule |-> table[id]]
  <2>1. KeepsTable /\ forms' = [forms EXCEPT ![u] = f] /\ f.rule = table[id] /\ id \in Rows
    BY <1>5 DEF EditRuleForm
  <2>. HIDE DEF f
  <2>2. FormsFrom(U)'
    BY <1>1, <1>3, <2>1 DEF TableFrom
  <2>. QED  BY <1>1, <1>2, <2>1, <2>2, KeptFrom DEF FromInv
<1>6. ASSUME NEW d \in Entries(u), SaveRule(u, d) PROVE FromInv(U)'
  <2>1. /\ forms' = [forms EXCEPT ![u] = NoForm]
        /\ KeepsTable \/ Insert(Posted(d)) \/ Update(forms[u].id, Posted(d))
    BY <1>6 DEF SaveRule
  <2>2. FormsFrom(U)'
    BY <1>3, <2>1 DEF NoForm
  <2>3. d \in Drafts \cup U
    BY DEF Entries, FromInv, FormsFrom
  <2>4. Posted(d) \in U
    BY <2>3 DEF SavedIn
  <2>5. TableFrom(U)'
    BY <1>1, <2>1, <2>4, KeptFrom, InsertFrom, UpdateFrom
  <2>. QED  BY <1>2, <2>2, <2>5 DEF FromInv
<1>. QED  BY <1>4, <1>5, <1>6 DEF Console

LEMMA DeleteFrom ==
  ASSUME SInv, NEW U, FromInv(U), NEW id \in Ids, DeleteRule(id)
  PROVE  FromInv(U)'
<1>1. \A o \in Ids : table'[o] = IF o = id THEN NoRule ELSE table[o]
  BY DEF DeleteRule, SInv, WInv, TableInv
<1>2. UNCHANGED <<instances, forms>>
  BY DEF DeleteRule
<1>3. TableFrom(U)'
  BY <1>1 DEF FromInv, TableFrom, Rows
<1>. QED  BY <1>2, <1>3 DEF FromInv, FormsFrom

(* A step that routes nothing: what is still steady was steady before, and *)
(* is sent where it was sent before.                                       *)
LEMMA SteadyKept ==
  ASSUME NEW U, SpellAlike(U), FromInv(U), FromInv(U)', SteadyInv,
         UNCHANGED <<open, last>>, Observe({})
  PROVE  SteadyInv'
<1>1. EnabledRules(table) \in SUBSET U /\ EnabledRules(table') \in SUBSET U
  <2>1. RulesFrom(EnabledRules(table), U)
    BY EnabledFrom DEF FromInv
  <2>2. TableFrom(U)'
    BY DEF FromInv
  <2>3. RulesFrom(EnabledRules(table), U)'
    BY <2>2, EnabledFrom, PTL
  <2>. QED  BY <2>1, <2>3 DEF RulesFrom
<1>2. ASSUME NEW a \in Alerts, steady'[a]
      PROVE  /\ Agreed(table', instances', a)
             /\ OpenFor(open', a) =
                  IF last'[a] = "firing" THEN Members(EnabledRules(table'), a) ELSE {}
  <2>1. /\ Agreed(table', instances', a) /\ steady[a]
        /\ Incidents(EnabledRules(table'), a) = Incidents(EnabledRules(table), a)
    BY <1>2 DEF Observe
  <2>2. Members(EnabledRules(table'), a) = Members(EnabledRules(table), a)
    BY <1>1, <2>1, SameIncidentsSameKeys
  <2>. QED  BY <2>1, <2>2 DEF SteadyInv
<1>. QED  BY <1>2 DEF SteadyInv

(* A process that is up and knows the routing of an alert sends it to the  *)
(* groups the table sends it to.                                           *)
LEMMA AgreedKeys ==
  ASSUME NEW U, SpellAlike(U), FromInv(U), NEW i \in Instances, instances[i].at = "up",
         NEW a \in Alerts, Agreed(table, instances, a)
  PROVE  Members(instances[i].cache, a) = Members(EnabledRules(table), a)
<1>1. Incidents(instances[i].cache, a) = Incidents(EnabledRules(table), a)
  BY DEF Agreed
<1>2. instances[i].cache \in SUBSET U /\ EnabledRules(table) \in SUBSET U
  BY EnabledFrom DEF FromInv, KnowsFrom, RulesFrom
<1>. QED  BY <1>1, <1>2, SameIncidentsSameKeys

(* What routing one alert does to the groups the alerts are open in.       *)
LEMMA RouteOpens ==
  ASSUME NEW i, NEW a \in Alerts, NEW status \in {"firing", "resolved"}, Route(i, a, status)
  PROVE  /\ open' = IF status = "firing" THEN open \cup Members(instances[i].cache, a)
                                         ELSE open \ Members(instances[i].cache, a)
         /\ OpenFor(open', a) = IF status = "firing"
                                THEN OpenFor(open, a) \cup Members(instances[i].cache, a)
                                ELSE OpenFor(open, a) \ Members(instances[i].cache, a)
         /\ \A b \in Alerts : b # a => OpenFor(open', b) = OpenFor(open, b)
<1>1. open' = IF status = "firing" THEN open \cup Members(instances[i].cache, a)
                                   ELSE open \ Members(instances[i].cache, a)
  BY DEF Route, Members
<1>2. \A p \in Members(instances[i].cache, a) : p[2] = a
  BY DEF Members
<1>. QED  BY <1>1, <1>2 DEF OpenFor

LEMMA RouteFires ==
  ASSUME SInv, NEW U, SpellAlike(U), FromInv(U), SteadyInv,
         NEW i \in Instances, NEW a \in Alerts, Route(i, a, "firing"), Observe({a})
  PROVE  SteadyInv'
<1>. DEFINE there == Members(EnabledRules(table), a)
            sent == Members(instances[i].cache, a)
<1>1. /\ UNCHANGED <<table, instances>> /\ instances[i].at = "up"
      /\ last' = [last EXCEPT ![a] = "firing"]
  BY DEF Route, KeepsTable
<1>2. /\ open' = open \cup sent /\ OpenFor(open', a) = OpenFor(open, a) \cup sent
      /\ \A b \in Alerts : b # a => OpenFor(open', b) = OpenFor(open, b)
  BY RouteOpens
<1>3. \A b \in Alerts : last'[b] = IF b = a THEN "firing" ELSE last[b]
  BY <1>1 DEF SInv, WInv, LastInv
<1>4. RulesFrom(instances[i].cache, U) /\ RulesFrom(EnabledRules(table), U)
  BY EnabledFrom DEF FromInv, KnowsFrom
<1>5. IsFiniteSet(open')
  <2>1. IsFiniteSet(sent)
    BY <1>4, AsManyKeys
  <2>2. IsFiniteSet(open)
    BY DEF SteadyInv
  <2>. HIDE DEF sent
  <2>. QED  BY <1>2, <2>1, <2>2, FS_Union
<1>6. ASSUME NEW b \in Alerts, steady'[b]
      PROVE  /\ Agreed(table, instances, b)
             /\ OpenFor(open', b) =
                  IF last'[b] = "firing" THEN Members(EnabledRules(table), b) ELSE {}
  <2>1. /\ Agreed(table, instances, b)
        /\ \/ /\ b = a
              /\ Cardinality(OpenFor(open', b)) = Cardinality(Incidents(EnabledRules(table), b))
           \/ steady[b]
    BY <1>1, <1>6 DEF Observe
  <2>2. CASE b # a
    BY <1>2, <1>3, <2>1, <2>2 DEF SteadyInv
  <2>3. CASE b = a
    <3>1. sent = there
      BY <1>1, <2>1, <2>3, AgreedKeys
    <3>. HIDE DEF sent, there
    <3>2. CASE steady[a]
      <4>1. OpenFor(open, a) = IF last[a] = "firing" THEN there ELSE {}
        BY <3>2 DEF SteadyInv, there
      <4>2. OpenFor(open', a) = there
        BY <1>2, <3>1, <4>1
      <4>. QED  BY <1>3, <2>1, <2>3, <4>2 DEF there
    <3>3. CASE Cardinality(OpenFor(open', a)) = Cardinality(Incidents(EnabledRules(table), a))
      <4>1. Cardinality(there) = Cardinality(Incidents(EnabledRules(table), a))
        BY <1>4, AsManyKeys DEF there
      <4>2. there \in SUBSET OpenFor(open', a)
        BY <1>2, <3>1
      <4>3. IsFiniteSet(OpenFor(open', a))
        <5>1. OpenFor(open', a) \in SUBSET open'
          BY DEF OpenFor
        <5>. QED  BY <1>5, <5>1, FS_Subset
      <4>4. OpenFor(open', a) = there
        BY <3>3, <4>1, <4>2, <4>3, FS_Subset
      <4>. QED  BY <1>3, <2>1, <2>3, <4>4 DEF there
    <3>. QED  BY <2>1, <2>3, <3>2, <3>3
  <2>. QED  BY <2>2, <2>3
<1>. QED  BY <1>1, <1>5, <1>6 DEF SteadyInv

LEMMA RouteResolves ==
  ASSUME SInv, NEW U, SpellAlike(U), FromInv(U), SteadyInv,
         NEW i \in Instances, NEW a \in Alerts, Route(i, a, "resolved"), Observe({})
  PROVE  SteadyInv'
<1>. DEFINE sent == Members(instances[i].cache, a)
<1>1. /\ UNCHANGED <<table, instances>> /\ instances[i].at = "up"
      /\ last' = [last EXCEPT ![a] = "resolved"]
  BY DEF Route, KeepsTable
<1>2. /\ open' = open \ sent /\ OpenFor(open', a) = OpenFor(open, a) \ sent
      /\ \A b \in Alerts : b # a => OpenFor(open', b) = OpenFor(open, b)
  BY RouteOpens
<1>3. \A b \in Alerts : last'[b] = IF b = a THEN "resolved" ELSE last[b]
  BY <1>1 DEF SInv, WInv, LastInv
<1>4. IsFiniteSet(open')
  BY <1>2, FS_Subset DEF SteadyInv
<1>5. ASSUME NEW b \in Alerts, steady'[b]
      PROVE  /\ Agreed(table, instances, b)
             /\ OpenFor(open', b) =
                  IF last'[b] = "firing" THEN Members(EnabledRules(table), b) ELSE {}
  <2>1. Agreed(table, instances, b) /\ steady[b]
    BY <1>1, <1>5 DEF Observe
  <2>2. OpenFor(open, b) = IF last[b] = "firing" THEN Members(EnabledRules(table), b) ELSE {}
    BY <2>1 DEF SteadyInv
  <2>3. CASE b # a
    BY <1>2, <1>3, <2>1, <2>2, <2>3
  <2>4. CASE b = a
    <3>1. sent = Members(EnabledRules(table), a)
      BY <1>1, <2>1, <2>4, AgreedKeys
    <3>2. OpenFor(open', a) = {}
      BY <1>2, <2>2, <2>4, <3>1
    <3>. QED  BY <1>3, <2>1, <2>4, <3>2
  <2>. QED  BY <2>3, <2>4
<1>. QED  BY <1>1, <1>4, <1>5 DEF SteadyInv

LEMMA StepKeepsRouting ==
  ASSUME SInv, NEW U, SavedIn(U), SpellAlike(U), FromInv(U), SteadyInv, [Next]_vars
  PROVE  FromInv(U)' /\ SteadyInv'
<1>1. ASSUME NEW i \in Instances, Process(i), Observe({}) PROVE FromInv(U)' /\ SteadyInv'
  <2>1. UNCHANGED <<open, last>>
    BY <1>1 DEF Process, Start, SeedRule, SeedFails, FetchRules, InstallRules, RefreshFails, Stop,
                KeepsAlerts
  <2>2. FromInv(U)'
    BY <1>1, ProcessFrom
  <2>. QED  BY <1>1, <2>1, <2>2, SteadyKept
<1>2. ASSUME NEW u \in Admins, Console(u), Observe({}) PROVE FromInv(U)' /\ SteadyInv'
  <2>1. UNCHANGED <<open, last>>
    BY <1>2 DEF Console, NewRuleForm, EditRuleForm, SaveRule, KeepsAlerts
  <2>2. FromInv(U)'
    BY <1>2, ConsoleFrom
  <2>. QED  BY <1>2, <2>1, <2>2, SteadyKept
<1>3. ASSUME NEW id \in Ids, DeleteRule(id), Observe({}) PROVE FromInv(U)' /\ SteadyInv'
  <2>1. UNCHANGED <<open, last>>
    BY <1>3 DEF DeleteRule, KeepsAlerts
  <2>2. FromInv(U)'
    BY <1>3, DeleteFrom
  <2>. QED  BY <1>3, <2>1, <2>2, SteadyKept
<1>4. ASSUME NEW i \in Instances, NEW a \in Alerts,
             \/ Route(i, a, "firing") /\ Observe({a})
             \/ Route(i, a, "resolved") /\ Observe({})
      PROVE  FromInv(U)' /\ SteadyInv'
  <2>1. UNCHANGED <<table, instances, forms>>
    BY <1>4 DEF Route, KeepsTable
  <2>2. FromInv(U)'
    BY <2>1 DEF FromInv, TableFrom, FormsFrom, Rows
  <2>3. SteadyInv'
    BY <1>4, RouteFires, RouteResolves
  <2>. QED  BY <2>2, <2>3
<1>5. ASSUME UNCHANGED vars PROVE FromInv(U)' /\ SteadyInv'
  BY <1>5 DEF vars, FromInv, TableFrom, FormsFrom, Rows, SteadyInv
<1>. QED  BY <1>1, <1>2, <1>3, <1>4, <1>5 DEF Next

(* "When an alert resolves, alertory edits the original Slack message"     *)
(* (README.md:16): a resolved event reaches every group its alert is open  *)
(* in as long as its routing has not changed, if all the rules that are    *)
(* ever saved spell the same incident alike.  The key of computeGroupKey   *)
(* is made of the spelling, so without that this is false, which the run   *)
(* orphaned_group shows.                                                   *)
THEOREM ResolveReachesItsGroupIfSpeltAlike ==
  ASSUME NEW U, SavedIn(U), SpellAlike(U)
  PROVE  Spec => []ResolveReachesItsGroup
<1>. DEFINE J == SInv /\ FromInv(U) /\ SteadyInv
<1>1. Init => J
  <2>. SUFFICES ASSUME Init PROVE J
    OBVIOUS
  <2>1. SInv
    BY InitSeeding
  <2>2. FromInv(U)
    <3>1. KnowsFrom(Down, U)
      BY FS_EmptySet DEF KnowsFrom, RulesFrom, Down
    <3>. QED  BY <3>1 DEF Init, FromInv, TableFrom, FormsFrom, Rows, NoForm
  <2>3. SteadyInv
    BY FS_EmptySet DEF Init, SteadyInv
  <2>. QED  BY <2>1, <2>2, <2>3
<1>2. J /\ [Next]_vars => J'
  BY StepKeepsImport, StepKeepsRouting
<1>3. J => ResolveReachesItsGroup
  BY DEF SteadyInv, ResolveReachesItsGroup
<1>. QED  BY <1>1, <1>2, <1>3, PTL DEF Spec
=============================================================================
