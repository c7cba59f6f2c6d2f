--------------------------- MODULE WorkflowRules ---------------------------
(***************************************************************************)
(* The routing rules: the workflow_rules table (internal/db/rules.go), its *)
(* seeding from workflows/*.yaml at start-up (legacy_yaml.go, main.go),    *)
(* the rule forms of the web UI (internal/http/webui.go), the cache every  *)
(* instance routes by (internal/workflows/store.go), and what an edit does *)
(* to the groups that are open (computeGroupKey in rules.go).              *)
(*                                                                         *)
(* Nothing ties these together: a form is saved over whatever the row has  *)
(* become, seeding counts the rows and inserts them one by one, a cache is *)
(* as old as its last refresh, and the row of an open group is found again *)
(* only if the rule still gives the same key.                              *)
(*                                                                         *)
(* A rule is what routing depends on.  A handled alert is one step here    *)
(* (Ingest has its parts) and a group is the set of its firing alerts.     *)
(***************************************************************************)
EXTENDS Integers, FiniteSets, SequencesExt

CONSTANTS Instances,    \* processes of the service
          Admins,       \* browsers with at most one rule form open
          MaxId,        \* bound: ids the table's sequence gives out
          Alerts,       \* fingerprints
          LabelsOf,     \* the labels of each alert: a function to its values
          Alertname,    \* the label "alertname"
          Blank,        \* the empty string
          Files,        \* workflows/*.yaml
          Drafts,       \* what an admin may have typed into a form
          MaxSaves,     \* bound: forms saved and rules deleted
          MaxEvents,    \* bound: alerts handled
          MaxFaults     \* bound: queries that fail and processes that end

ASSUME RulesAssumption ==
  /\ Files \in Seq(ToSet(Files))
  /\ Instances # {} /\ MaxId \in Nat /\ MaxSaves \in Nat
  /\ MaxEvents \in Nat /\ MaxFaults \in Nat

VARIABLES table,      \* workflow_rules, by id
          nextId,     \* the sequence of the table
          instances,  \* what every process is at, and its cache
          forms,      \* the rule form every admin has open
          open,       \* the pairs of a group key and an alert firing in it
          last,       \* the status each alert was last sent with
          steady,     \* since it fired, an alert's routing has not changed
          saves, events, faults

vars == <<table, nextId, instances, forms, open, last, steady, saves, events, faults>>
counts == <<saves, events, faults>>

Ids == 1..MaxId
NoRule == [name |-> Blank]
NoForm == [id |-> -1, rule |-> NoRule]
Nothing == {NoRule}    \* no refresh in progress

-----------------------------------------------------------------------------
(* Rules as data.                                                          *)

(* The comma-separated list of a channel field: the IDs between the commas *)
(* and whether it is written with ", " as the form writes it.              *)
NoChannel == [ids |-> <<Blank>>, tidy |-> TRUE]

(* normalizeChannelList and splitChannels keep the first of equal IDs and  *)
(* drop blanks.                                                            *)
Destinations(channel) ==
  FoldLeft(LAMBDA out, p : IF p = Blank \/ p \in ToSet(out) THEN out ELSE Append(out, p),
           << >>, channel.ids)

NormalizeChannelList(channel) == [ids |-> Destinations(channel), tidy |-> TRUE]

(* parseCSV.                                                               *)
ParseCSV(raw) == SelectSeq(raw, LAMBDA p : p # Blank)

(* What saveRuleHandler makes of the fields of a form.  Match labels are   *)
(* written as lines and parsed again, which keeps every label whose name   *)
(* has no "=" in it.                                                       *)
Posted(rule) == [rule EXCEPT !.channel = NormalizeChannelList(rule.channel),
                             !.groupBy = ParseCSV(rule.groupBy)]

(* WorkflowRule.Matches.                                                   *)
Matches(rule, labels) ==
  \A k \in DOMAIN rule.match : k \in DOMAIN labels /\ labels[k] = rule.match[k]

Value(labels, k) == IF k \in DOMAIN labels THEN labels[k] ELSE Blank

GroupBy(rule) == IF rule.groupBy = << >> THEN <<Alertname>> ELSE rule.groupBy

(* Mutant of ComputeGroupKey: the labels are not sorted.                   *)
ComputeGroupKeyUnsorted(rule, labels) ==
  <<rule.name, rule.channel,
    [i \in DOMAIN GroupBy(rule) |-> <<GroupBy(rule)[i], Value(labels, GroupBy(rule)[i])>>]>>

(* computeGroupKey: name, text of the channel field, and the group-by      *)
(* labels with their values.  A sorted list is how often each label is in  *)
(* it.                                                                     *)
ComputeGroupKey(rule, labels) ==
  LET by == GroupBy(rule) IN
  <<rule.name, rule.channel,
    [k \in ToSet(by) |-> <<Cardinality({i \in DOMAIN by : by[i] = k}), Value(labels, k)>>]>>

KeysOf(rules, a) ==
  {ComputeGroupKey(r, LabelsOf[a]) : r \in {q \in rules : Matches(q, LabelsOf[a])}}

(* LoadLegacyYAMLRules: the last Slack action that names a channel gives   *)
(* the rule its channel, as it is written; a file without one is skipped.  *)
(* A file that cannot be read makes the whole import fail.                 *)
SlackChannels(file) ==
  SelectSeq(file.actions, LAMBDA act : act.type = "slack" /\ act.channel # NoChannel)

ImportedFrom(file) ==
  IF SlackChannels(file) = << >> THEN << >>
  ELSE << [name |-> file.name, match |-> file.match, groupBy |-> << >>,
           channel |-> Last(SlackChannels(file)).channel, enabled |-> TRUE] >>

LoadLegacyYAMLRules ==
  IF \E i \in DOMAIN Files : ~Files[i].readable THEN << >>
  ELSE FlattenSeq([i \in DOMAIN Files |-> ImportedFrom(Files[i])])

-----------------------------------------------------------------------------
(* The table.                                                              *)

Rows == {id \in Ids : table[id] # NoRule}
Named(name) == {id \in Rows : table[id].name = name}
EnabledRules(t) == {t[id] : id \in {i \in Ids : t[i] # NoRule /\ t[i].enabled}}

(* Mutant of Insert: there is no ON CONFLICT and no unique name.           *)
InsertAlways(rule) ==
  /\ nextId <= MaxId
  /\ table' = [table EXCEPT ![nextId] = rule] /\ nextId' = nextId + 1

(* UpsertWorkflowRule with id 0: ON CONFLICT (name) DO UPDATE.             *)
Insert(rule) ==
  IF Named(rule.name) # {}
  THEN /\ table' = [id \in Ids |-> IF id \in Named(rule.name) THEN rule ELSE table[id]]
       /\ UNCHANGED nextId
  ELSE /\ nextId <= MaxId
       /\ table' = [table EXCEPT ![nextId] = rule] /\ nextId' = nextId + 1

(* Mutant of Update: a row that is gone is written again.                  *)
UpdateAnyway(id, rule) ==
  /\ table' = IF Named(rule.name) \subseteq {id} THEN [table EXCEPT ![id] = rule] ELSE table
  /\ UNCHANGED nextId

(* With another id: no row, no change; a name that another row has is an   *)
(* error.                                                                  *)
Update(id, rule) ==
  /\ table' = IF id \in Rows /\ Named(rule.name) \subseteq {id}
              THEN [table EXCEPT ![id] = rule] ELSE table
  /\ UNCHANGED nextId

-----------------------------------------------------------------------------
(* A process: main up to the server, then the goroutine of RuleStore.Run.  *)

Down == [at |-> "down", todo |-> << >>, found |-> {}, fetched |-> Nothing, cache |-> {}]

Becomes(i, self) == instances' = [instances EXCEPT ![i] = self]
Fault == faults < MaxFaults /\ faults' = faults + 1 /\ UNCHANGED <<saves, events>>
KeepsTable == UNCHANGED <<table, nextId>>
KeepsAlerts == UNCHANGED <<open, last>>

(* Mutant of CountWorkflowRules: only the enabled rules count.             *)
CountEnabledRules == Cardinality(EnabledRules(table))

CountWorkflowRules == Cardinality(Rows)

(* The files are read and the rows counted; the rules are seeded if there  *)
(* are none.                                                               *)
Start(i) ==
  LET seeds == LoadLegacyYAMLRules # << >> /\ CountWorkflowRules = 0 IN
  /\ instances[i].at = "down"
  /\ Becomes(i, [Down EXCEPT !.at = IF seeds THEN "seed" ELSE "load",
                             !.todo = IF seeds THEN LoadLegacyYAMLRules ELSE << >>,
                             !.found = IF seeds THEN Rows ELSE {}])
  /\ KeepsTable /\ KeepsAlerts /\ UNCHANGED <<forms, counts>>

Seeded(self) ==
  LET rest == Tail(self.todo) IN
  [self EXCEPT !.todo = rest, !.at = IF rest = << >> THEN "load" ELSE "seed",
               !.found = IF rest = << >> THEN {} ELSE self.found]

(* Mutant of SeedRule: the table is looked at again before every rule.     *)
SeedRuleIfEmpty(i) ==
  /\ instances[i].at = "seed"
  /\ IF Rows = {} THEN Insert(Head(instances[i].todo)) ELSE KeepsTable
  /\ Becomes(i, Seeded(instances[i]))
  /\ KeepsAlerts /\ UNCHANGED <<forms, counts>>

SeedRule(i) ==
  /\ instances[i].at = "seed"
  /\ Insert(Head(instances[i].todo))
  /\ Becomes(i, Seeded(instances[i]))
  /\ KeepsAlerts /\ UNCHANGED <<forms, counts>>

(* The count or an insert fails: logged, and the rest is not seeded.       *)
SeedFails(i) ==
  /\ instances[i].at = "seed"
  /\ Becomes(i, [Down EXCEPT !.at = "load"])
  /\ Fault /\ KeepsTable /\ KeepsAlerts /\ UNCHANGED forms

(* Refresh is a query and then an assignment under the lock; main calls it *)
(* before the server starts, Run at every tick.                            *)
Refreshing(i) == instances[i].at \in {"load", "up"} /\ instances[i].fetched = Nothing

(* A refresh of a process that is up is a step if it finds anything new.   *)
FetchRules(i) ==
  /\ Refreshing(i)
  /\ instances[i].at = "load" \/ instances[i].cache # EnabledRules(table)
  /\ Becomes(i, [instances[i] EXCEPT !.fetched = EnabledRules(table)])
  /\ KeepsTable /\ KeepsAlerts /\ UNCHANGED <<forms, counts>>

(* Mutant of InstallRules: the rules are loaded once.                      *)
InstallRulesOnce(i) ==
  /\ instances[i].fetched # Nothing
  /\ Becomes(i, [instances[i] EXCEPT
       !.cache = IF instances[i].cache = {} THEN instances[i].fetched ELSE instances[i].cache,
       !.fetched = Nothing, !.at = "up"])
  /\ KeepsTable /\ KeepsAlerts /\ UNCHANGED <<forms, counts>>

InstallRules(i) ==
  /\ instances[i].fetched # Nothing
  /\ Becomes(i, [instances[i] EXCEPT !.cache = instances[i].fetched, !.fetched = Nothing,
                                     !.at = "up"])
  /\ KeepsTable /\ KeepsAlerts /\ UNCHANGED <<forms, counts>>

(* A refresh that fails is logged; the first one leaves an empty rule set. *)
RefreshFails(i) ==
  /\ Refreshing(i)
  /\ Becomes(i, [instances[i] EXCEPT !.at = "up"])
  /\ Fault /\ KeepsTable /\ KeepsAlerts /\ UNCHANGED forms

Stop(i) ==
  /\ instances[i].at # "down"
  /\ Becomes(i, Down)
  /\ Fault /\ KeepsTable /\ KeepsAlerts /\ UNCHANGED forms

-----------------------------------------------------------------------------
(* The web UI, which any process that is up serves.                        *)

Served == \E i \in Instances : instances[i].at = "up"

NewRuleForm(u) ==
  /\ Served /\ forms[u] = NoForm /\ saves < MaxSaves
  /\ forms' = [forms EXCEPT ![u] = [id |-> 0, rule |-> NoRule]]
  /\ KeepsTable /\ KeepsAlerts /\ UNCHANGED <<instances, counts>>

EditRuleForm(u, id) ==
  /\ Served /\ forms[u] = NoForm /\ saves < MaxSaves
  /\ id \in Rows
  /\ forms' = [forms EXCEPT ![u] = [id |-> id, rule |-> table[id]]]
  /\ KeepsTable /\ KeepsAlerts /\ UNCHANGED <<instances, counts>>

(* saveRuleHandler: a rule without a name or a channel is refused (400).   *)
SaveRule(u, draft) ==
  LET rule == Posted(draft)
      refused == rule.name = Blank \/ rule.channel.ids = << >>
  IN
  /\ Served /\ forms[u] # NoForm /\ saves < MaxSaves
  /\ \/ refused /\ KeepsTable
     \/ ~refused /\ forms[u].id = 0 /\ Insert(rule)
     \/ ~refused /\ forms[u].id # 0 /\ Update(forms[u].id, rule)
  /\ forms' = [forms EXCEPT ![u] = NoForm]
  /\ saves' = saves + 1
  /\ KeepsAlerts /\ UNCHANGED <<instances, events, faults>>

DeleteRule(id) ==
  /\ Served /\ saves < MaxSaves /\ saves' = saves + 1
  /\ id \in Rows
  /\ table' = [table EXCEPT ![id] = NoRule]
  /\ KeepsAlerts /\ UNCHANGED <<nextId, instances, forms, events, faults>>

-----------------------------------------------------------------------------
(* An alert is handled by one of the processes, which routes it by its     *)
(* cache (RuleStore.Rules, ProcessAlert).                                  *)
Route(i, a, status) ==
  LET members == {<<k, a>> : k \in KeysOf(instances[i].cache, a)} IN
  /\ instances[i].at = "up"
  /\ events < MaxEvents /\ events' = events + 1
  /\ open' = IF status = "firing" THEN open \cup members ELSE open \ members
  /\ last' = [last EXCEPT ![a] = status]
  /\ KeepsTable /\ UNCHANGED <<instances, forms, saves, faults>>

-----------------------------------------------------------------------------
(* What steady records.  A rule sends an alert to an incident: the rule by *)
(* its name, the destinations it names, and the values of the group-by     *)
(* labels ("Alerts are grouped by (rule, group-by label values)",          *)
(* docs/RULES.md:23).  The routing of an alert has not changed as long as  *)
(* its incidents have not, in the table and in every process that is up.   *)
Incident(rule, labels) ==
  <<rule.name, Destinations(rule.channel),
    [k \in ToSet(GroupBy(rule)) |-> Value(labels, k)]>>

Incidents(rules, a) ==
  {Incident(r, LabelsOf[a]) : r \in {q \in rules : Matches(q, LabelsOf[a])}}

Agreed(t, procs, a) ==
  \A i \in Instances : procs[i].at = "up" =>
     Incidents(procs[i].cache, a) = Incidents(EnabledRules(t), a)

OpenFor(pairs, a) == {p \in pairs : p[2] = a}

(* The alerts in fired are the ones a step has routed as firing.           *)
Observe(fired) ==
  steady' = [a \in Alerts |->
    /\ Agreed(table', instances', a)
    /\ \/ /\ a \in fired
          /\ Cardinality(OpenFor(open', a)) = Cardinality(Incidents(EnabledRules(table'), a))
       \/ steady[a] /\ Incidents(EnabledRules(table'), a) = Incidents(EnabledRules(table), a)]

Init ==
  /\ table = [id \in Ids |-> NoRule] /\ nextId = 1
  /\ instances = [i \in Instances |-> Down]
  /\ forms = [u \in Admins |-> NoForm]
  /\ open = {} /\ last = [a \in Alerts |-> "none"] /\ steady = [a \in Alerts |-> FALSE]
  /\ saves = 0 /\ events = 0 /\ faults = 0

(* A form of a rule that is saved as it was opened is a draft as well.     *)
Entries(u) == Drafts \cup ({forms[u].rule} \ {NoRule})

Process(i) == Start(i) \/ SeedRule(i) \/ SeedFails(i) \/ FetchRules(i) \/ InstallRules(i)
              \/ RefreshFails(i) \/ Stop(i)

Console(u) ==
  \/ NewRuleForm(u)
  \/ \E id \in Ids : EditRuleForm(u, id)
  \/ \E d \in Entries(u) : SaveRule(u, d)

Next ==
  \/ (\E i \in Instances : Process(i)) /\ Observe({})
  \/ (\E u \in Admins : Console(u)) /\ Observe({})
  \/ (\E id \in Ids : DeleteRule(id)) /\ Observe({})
  \/ \E i \in Instances, a \in Alerts :
       \/ Route(i, a, "firing") /\ Observe({a})
       \/ Route(i, a, "resolved") /\ Observe({})

Spec == Init /\ [][Next]_vars

(* A process that is started gets through main, and the ticker of Run      *)
(* keeps refreshing.                                                       *)
Fairness ==
  \A i \in Instances :
    /\ WF_vars(Start(i) /\ Observe({})) /\ WF_vars(SeedRule(i) /\ Observe({}))
    /\ WF_vars(FetchRules(i) /\ Observe({})) /\ WF_vars(InstallRules(i) /\ Observe({}))

FairSpec == Spec /\ Fairness

-----------------------------------------------------------------------------
(* Properties.                                                             *)

(* The variables have their types, and no two rows of workflow_rules have  *)
(* the same name (migrate.go:151), whoever inserts and renames.            *)
TypeOK ==
  /\ nextId \in 1..(MaxId + 1)
  /\ \A id \in Ids : id >= nextId => table[id] = NoRule
  /\ \A id, other \in Rows : table[id].name = table[other].name => id = other
  /\ \A i \in Instances :
       /\ instances[i].at \in {"down", "seed", "load", "up"}
       /\ (instances[i].at = "seed") <=> (instances[i].todo # << >>)
  /\ \A u \in Admins : forms[u].id \in {-1, 0} \cup 1..(nextId - 1)
  /\ last \in [Alerts -> {"none", "firing", "resolved"}]

(* "When an alert resolves, alertory edits the original Slack message"     *)
(* (README.md:16): as long as the rules send an alert to the same          *)
(* incidents as when it fired, and every process knows them, its resolved  *)
(* event reaches every group it is open in, whatever was saved meanwhile.  *)
ResolveReachesItsGroup ==
  \A a \in Alerts : steady[a] /\ last[a] = "resolved" => OpenFor(open, a) = {}

(* Seeding happens "only the very first time (table empty) so it never     *)
(* clobbers edits made from the web UI on later restarts"                  *)
(* (rules.go:220-222): a process never overwrites a rule that was there    *)
(* when it counted them.                                                   *)
SeedKeepsWhatItFound ==
  [][\A i \in Instances :
       instances[i].at = "seed" /\ instances'[i].todo # instances[i].todo =>
         \A id \in instances[i].found : table'[id] = table[id]]_vars

(* Processes that start together on an empty table import all of the files *)
(* between them, unless one fails or ends on the way.                      *)
SeedingCompletes ==
  (saves = 0 /\ faults = 0 /\ \A i \in Instances : instances[i].at = "up")
    => {table[id].name : id \in Rows} = {r.name : r \in ToSet(LoadLegacyYAMLRules)}

(* A rule that was deleted does not come back by a form that was opened    *)
(* before.                                                                 *)
DeletedStaysDeleted ==
  [][\A id \in Ids : id < nextId /\ table[id] = NoRule => table'[id] = NoRule]_vars

(* "rule edits made from the web UI take effect within one refresh cycle   *)
(* without requiring a restart" (store.go:13-16): when nothing is edited   *)
(* any more, every process routes by the table, failures and restarts      *)
(* notwithstanding.                                                        *)
EditsTakeEffect ==
  <>[](\A i \in Instances : instances[i].at = "up" /\ instances[i].cache = EnabledRules(table))
=============================================================================
