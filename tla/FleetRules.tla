----------------------------- MODULE FleetRules -----------------------------
(***************************************************************************)
(* What a worker of FleetPipeline does with an event: OnFleetEvent of the  *)
(* rule engine counts it in the sliding window of its cohort and trigger   *)
(* type and evaluates the rules.  Several workers run it at once; each     *)
(* lookup, insertion and count is a critical section of its own, and the   *)
(* list of rules is read-locked for the whole evaluation.                  *)
(*                                                                         *)
(* The pipeline hands events to the workers in any order.  The engine      *)
(* never reads an event's id, so a repeated event is two members of Events *)
(* with the same device and time.                                          *)
(***************************************************************************)
EXTENDS Integers, Sequences, FiniteSets

CONSTANTS
  Events,     \* the events the pipeline delivers
  Workers,    \* worker goroutines
  Device,     \* Device[e] : who sent e
  Key,        \* Key[e] : [cohort |-> ..., trigger |-> ...]
  Stamp,      \* Stamp[e] : the timestamp e carries
  Rules,      \* the rules that may be added: [type, cohort, trigger, limit, enabled]
  Duration,   \* the length of the sliding windows
  Second,     \* one second, in the unit of Stamp
  MaxChanges  \* the rule list changes at most this often (bound)

\* The gateway's windows are of five minutes.  A fractional limit is the next integer.
ASSUME StampAssumption ==
  Stamp \in [Events -> Int] /\ Duration \in Nat /\ Second \in Nat /\ Second <= Duration
ASSUME LimitsAssumption == \A r \in Rules : r.limit \in Int

VARIABLES
  pending,   \* events not yet handed to a worker
  pc,        \* pc[w] : "idle", "lookup", "create", "add", "added" or "evaluate"
  event,     \* event[w] : the event w processes
  held,      \* held[w] : the window w has got hold of, an index of windows; 0 is nil
  next,      \* next[w] : the rule w evaluates next
  registry,  \* registry[k] : the window of k, an index of windows; 0 if it has none
  windows,   \* windows[i] : the events added to a window
  rules,     \* the rule list
  changes,   \* how often it was changed
  checked,   \* history: the rules each event was evaluated against
  fired      \* the pairs <<event, rule>> OnFleetEvent has returned or will return

vars == <<pending, pc, event, held, next, registry, windows, rules, changes, checked, fired>>

Keys == {Key[e] : e \in Events}

\* Mutation: windows are kept per trigger type.
KeyByTrigger(e) == CHOOSE k \in Keys : k.trigger = Key[e].trigger

\* CounterKey of an event.
CounterKey(e) == Key[e]

Init ==
  /\ pending = Events
  /\ pc = [w \in Workers |-> "idle"]
  /\ event \in [Workers -> {CHOOSE e \in Events : TRUE}]
  /\ held = [w \in Workers |-> 0]
  /\ next = [w \in Workers |-> 1]
  /\ registry = [k \in Keys |-> 0]
  /\ windows = <<>>
  /\ rules = <<>>
  /\ changes = 0
  /\ checked = [e \in Events |-> {}]
  /\ fired = {}

Goto(w, label) == pc' = [pc EXCEPT ![w] = label]

-----------------------------------------------------------------------------
\* A worker calls OnFleetEvent(e).
Start(w, e) ==
  /\ pc[w] = "idle"
  /\ pending' = pending \ {e}
  /\ event' = [event EXCEPT ![w] = e]
  /\ Goto(w, "lookup")
  /\ UNCHANGED <<held, next, registry, windows, rules, changes, checked, fired>>

\* GetOrCreate, under the registry's read lock.
Lookup(w) ==
  /\ pc[w] = "lookup"
  /\ held' = [held EXCEPT ![w] = registry[CounterKey(event[w])]]
  /\ Goto(w, IF held'[w] = 0 THEN "create" ELSE "add")
  /\ UNCHANGED <<pending, event, next, registry, windows, rules, changes, checked, fired>>

\* Mutation: no second look under the write lock.
CreateBlindly(w) ==
  /\ pc[w] = "create"
  /\ windows' = Append(windows, {})
  /\ registry' = [registry EXCEPT ![CounterKey(event[w])] = Len(windows')]
  /\ held' = [held EXCEPT ![w] = Len(windows')]
  /\ Goto(w, "add")
  /\ UNCHANGED <<pending, event, next, rules, changes, checked, fired>>

\* GetOrCreate, under the registry's write lock.
Create(w) ==
  /\ pc[w] = "create"
  /\ IF registry[CounterKey(event[w])] = 0
     THEN /\ windows' = Append(windows, {})
          /\ registry' = [registry EXCEPT ![CounterKey(event[w])] = Len(windows')]
     ELSE UNCHANGED <<windows, registry>>
  /\ held' = [held EXCEPT ![w] = registry'[CounterKey(event[w])]]
  /\ Goto(w, "add")
  /\ UNCHANGED <<pending, event, next, rules, changes, checked, fired>>

\* SlidingWindow.Add, under the window's lock.
Add(w) ==
  /\ pc[w] = "add"
  /\ windows' = [windows EXCEPT ![held[w]] = @ \cup {event[w]}]
  /\ Goto(w, "added")
  /\ UNCHANGED <<pending, event, held, next, registry, rules, changes, checked, fired>>

\* OnFleetEvent takes the read lock on the rules.  Until then the list may change.
ReadRules(w) ==
  /\ pc[w] = "added"
  /\ next' = [next EXCEPT ![w] = 1]
  /\ Goto(w, "evaluate")
  /\ UNCHANGED <<pending, event, held, registry, windows, rules, changes, checked, fired>>

-----------------------------------------------------------------------------
\* Mutation: the count stops before the event's own time.
StrictlyBefore(e, s) ==
  {f \in s : Stamp[f] >= Stamp[e] - Duration /\ Stamp[f] < Stamp[e]}

\* What CountDistinctDevices sees of the window s at the time of e.
InWindow(e, s) ==
  {f \in s : Stamp[f] >= Stamp[e] - Duration /\ Stamp[f] < Stamp[e] + Second}

\* What TotalEvents sees: later events count as well.
SinceWindow(e, s) == {f \in s : Stamp[f] >= Stamp[e] - Duration}

Devices(s) == {Device[f] : f \in s}

\* evaluateThreshold and evaluateRate of rule r on the window s.
Holds(r, e, s) ==
  /\ r.enabled
  /\ r.cohort = Key[e].cohort /\ r.trigger = Key[e].trigger
  /\ \/ r.type = "fleet_threshold" /\ Cardinality(Devices(InWindow(e, s))) >= r.limit
     \/ r.type = "fleet_rate" /\ SinceWindow(e, s) # {}
                              /\ Cardinality(SinceWindow(e, s)) >= r.limit

\* The next round of the loop over the rules.
Evaluate(w) ==
  LET e == event[w]
      r == rules[next[w]]
  IN  /\ pc[w] = "evaluate"
      /\ next[w] <= Len(rules)
      /\ fired' = IF Holds(r, e, windows[registry[CounterKey(e)]])
                  THEN fired \cup {<<e, r>>} ELSE fired
      /\ checked' = [checked EXCEPT ![e] = @ \cup {r}]
      /\ next' = [next EXCEPT ![w] = @ + 1]
      /\ UNCHANGED <<pending, pc, event, held, registry, windows, rules, changes>>

\* OnFleetEvent returns and releases the rules; the worker drops the result.
Return(w) ==
  /\ pc[w] = "evaluate"
  /\ next[w] > Len(rules)
  /\ Goto(w, "idle")
  /\ UNCHANGED <<pending, event, held, next, registry, windows, rules, changes, checked, fired>>

\* The write lock of the rule list is to be had.
NoReader == \A w \in Workers : pc[w] # "evaluate"

AddRule(r) ==
  /\ NoReader
  /\ changes < MaxChanges
  /\ rules' = Append(rules, r)
  /\ changes' = changes + 1
  /\ UNCHANGED <<pending, pc, event, held, next, registry, windows, checked, fired>>

ClearRules ==
  /\ NoReader
  /\ rules # <<>>
  /\ rules' = <<>>
  /\ UNCHANGED <<pending, pc, event, held, next, registry, windows, changes, checked, fired>>

OnFleetEvent(w) ==
  \/ \E e \in pending : Start(w, e)
  \/ Lookup(w) \/ Create(w) \/ Add(w) \/ ReadRules(w) \/ Evaluate(w) \/ Return(w)

Next ==
  \/ \E w \in Workers : OnFleetEvent(w)
  \/ \E r \in Rules : AddRule(r)
  \/ ClearRules

Spec == Init /\ [][Next]_vars
-----------------------------------------------------------------------------
Counted == UNION {windows[i] : i \in DOMAIN windows}

Finished == {e \in Events \ pending : \A w \in Workers : event[w] = e => pc[w] = "idle"}

\* Two workers that miss the window of a new key at once do not leave two:
\* every event that was counted is in the window the registry serves.
NothingStranded ==
  \A e \in Counted :
    registry[Key[e]] # 0 /\ e \in windows[registry[Key[e]]]

\* A rule only fires when enough events of its own cohort and trigger type,
\* from enough devices, lie in the window of the event that fired it.
NoFalseAlarm ==
  \A e \in Events, r \in Rules :
    <<e, r>> \in fired =>
      LET s == {f \in Counted : Key[f] = Key[e]}
      IN  \/ r.type = "fleet_threshold" /\ Cardinality(Devices(InWindow(e, s))) >= r.limit
          \/ r.type = "fleet_rate" /\ Cardinality(SinceWindow(e, s)) >= r.limit

\* A burst: events of one cohort and trigger type less than a second apart.
Burst(s) ==
  \A e, f \in s : Key[e] = Key[f] /\ Stamp[f] < Stamp[e] + Second

\* An event is evaluated against one version of the rule list: the list does
\* not change between two rounds of a worker's loop.
OneRuleList ==
  \A w \in Workers :
    pc[w] = "evaluate" => /\ next[w] <= Len(rules) + 1
                          /\ checked[event[w]] = {rules[i] : i \in 1 .. next[w] - 1}

\* A burst that reaches the limit of a rule makes it fire, in whatever order
\* the workers process it and however they interleave: the last one to count
\* sees all of it, because each worker adds its event before it counts, and no
\* change of the rule list makes a worker skip a rule.
NoBurstMissed ==
  /\ OneRuleList
  /\ \A s \in SUBSET Finished, r \in Rules :
       /\ Burst(s) /\ s # {}
       /\ \A e \in s : r \in checked[e] /\ r.cohort = Key[e].cohort /\ r.trigger = Key[e].trigger
       /\ r.enabled
       /\ \/ r.type = "fleet_threshold" /\ Cardinality(Devices(s)) >= r.limit
          \/ r.type = "fleet_rate" /\ Cardinality(s) >= r.limit
       => \E e \in s : <<e, r>> \in fired
=============================================================================
