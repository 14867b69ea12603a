-------------------------- MODULE FleetRulesProofs --------------------------
(***************************************************************************)
(* The rules of the fleet for any number of events, workers and rules: no  *)
(* count is stranded in a lost window, no rule fires without cause, and no *)
(* burst is missed.  The first comes from the second look under the write  *)
(* lock; then the window of a key holds exactly what was counted of it, so *)
(* that the other two are about one set that only grows, and of a burst    *)
(* the event that was evaluated last saw all of the others.                *)
(***************************************************************************)
EXTENDS FleetRules, FiniteSetTheorems, TLAPS

\* A worker has an event that it has not counted yet.
Uncounted(w) == pc[w] \in {"lookup", "create", "add"}

TypeInv ==
  /\ pending \subseteq Events
  /\ pc \in [Workers -> {"idle", "lookup", "create", "add", "added", "evaluate"}]
  /\ event \in [Workers -> Events \cup {CHOOSE e \in Events : TRUE}]
  /\ held \in [Workers -> Nat]
  /\ next \in [Workers -> Nat \ {0}]
  /\ registry \in [Keys -> Nat]
  /\ windows \in Seq(SUBSET Events)
  /\ rules \in Seq(Rules)
  /\ checked \in [Events -> SUBSET Rules]

\* Every window is the one of one key and holds finitely many events, all of that key.
WindowsServed ==
  /\ \A k \in Keys : registry[k] <= Len(windows)
  /\ \A i \in 1 .. Len(windows) : IsFiniteSet(windows[i]) /\ \E k \in Keys : registry[k] = i
  /\ \A k \in Keys : registry[k] # 0 =>
       /\ \A e \in windows[registry[k]] : Key[e] = k
       /\ \A j \in Keys : registry[j] = registry[k] => j = k

\* What a worker holds: an event of its own, and the window of its key.
WorkersHold ==
  \A w \in Workers :
    /\ pc[w] # "idle" => event[w] \in Events \ pending
    /\ pc[w] = "add" => held[w] # 0 /\ held[w] = registry[Key[event[w]]]
    /\ pc[w] \in {"added", "evaluate"} => event[w] \in Counted
    /\ \A v \in Workers :
         v # w /\ pc[w] # "idle" /\ pc[v] # "idle" => event[v] # event[w]

\* An event is evaluated against no rule before it is counted, and it is counted by
\* the worker that has it.
EventsCounted ==
  \A e \in Events :
    \/ e \in pending /\ checked[e] = {} /\ e \notin Counted
    \/ checked[e] = {} /\ \E w \in Workers : event[w] = e /\ Uncounted(w)
    \/ e \notin pending /\ e \in Counted /\ \A w \in Workers : event[w] = e => ~Uncounted(w)

\* Until its worker reads the rules, no rule was evaluated for the event it has added.
Unevaluated == \A w \in Workers : pc[w] = "added" => checked[event[w]] = {}

\* A set of events reaches the limit of r.
Reaches(s, r) ==
  /\ r.enabled
  /\ \A e \in s : r.cohort = Key[e].cohort /\ r.trigger = Key[e].trigger
  /\ \/ r.type = "fleet_threshold" /\ Cardinality(Devices(s)) >= r.limit
     \/ r.type = "fleet_rate" /\ Cardinality(s) >= r.limit

\* Of a burst that was counted some event still is to be evaluated, or the rule fired.
CountedBurstsFire ==
  \A s \in SUBSET Counted, r \in Rules :
    Burst(s) /\ s # {} /\ Reaches(s, r) /\ (\A e \in s : r \in checked[e])
      => \E e \in s : <<e, r>> \in fired

IInv ==
  /\ TypeInv /\ WindowsServed /\ WorkersHold /\ EventsCounted
  /\ Unevaluated /\ OneRuleList /\ NoFalseAlarm /\ CountedBurstsFire

-----------------------------------------------------------------------------
\* The number of devices of a set of events grows with it.
LEMMA DevicesGrow ==
  ASSUME NEW S, IsFiniteSet(S), NEW T \in SUBSET S
  PROVE  /\ Cardinality(Devices(S)) \in Nat /\ Cardinality(Devices(T)) \in Nat
         /\ Cardinality(Devices(T)) <= Cardinality(Devices(S))
<1> DEFINE dev == [e \in S |-> Device[e]]
<1>1. dev \in Surjection(S, Devices(S))
  BY DEF Devices, Surjection
<1>2. IsFiniteSet(Devices(S))
  BY <1>1, FS_Surjection
<1>3. Devices(T) \subseteq Devices(S)
  BY DEF Devices
<1> QED  BY <1>2, <1>3, FS_Subset, FS_CardinalityType

\* So does the set of those that a rule sees at the time of an event.
LEMMA SeenGrow ==
  ASSUME NEW e \in Events, NEW S, IsFiniteSet(S), NEW T \in SUBSET S
  PROVE  /\ InWindow(e, T) \subseteq InWindow(e, S) /\ IsFiniteSet(InWindow(e, S))
         /\ SinceWindow(e, T) \subseteq SinceWindow(e, S) /\ IsFiniteSet(SinceWindow(e, S))
         /\ Cardinality(SinceWindow(e, S)) \in Nat /\ Cardinality(SinceWindow(e, T)) \in Nat
         /\ Cardinality(SinceWindow(e, T)) <= Cardinality(SinceWindow(e, S))
<1>1. InWindow(e, T) \subseteq InWindow(e, S) /\ InWindow(e, S) \subseteq S
  BY DEF InWindow
<1>2. SinceWindow(e, T) \subseteq SinceWindow(e, S) /\ SinceWindow(e, S) \subseteq S
  BY DEF SinceWindow
<1> QED  BY <1>1, <1>2, FS_Subset, FS_CardinalityType

\* The types hold at the start.
LEMMA InitTypes == Init => TypeInv
BY DEF Init, TypeInv

\* GetOrCreate under the write lock leaves the worker with the window of its key; if the
\* key has none yet, it is a new and empty one.
LEMMA CreateStep ==
  ASSUME TypeInv, WorkersHold, NEW w \in Workers, Create(w)
  PROVE  LET k == Key[event[w]]
         IN  /\ event[w] \in Events /\ k \in Keys
             /\ \/ registry[k] # 0 /\ UNCHANGED <<windows, registry>>
                \/ /\ registry[k] = 0
                   /\ Len(windows) \in Nat /\ Len(windows') = Len(windows) + 1
                   /\ windows' \in Seq(SUBSET Events)
                   /\ \A i \in 1 .. Len(windows) : windows'[i] = windows[i]
                   /\ windows'[Len(windows) + 1] = {}
                   /\ registry' \in [Keys -> Nat]
                   /\ \A j \in Keys : registry'[j] = IF j = k THEN Len(windows) + 1 ELSE registry[j]
             /\ registry'[k] \in Nat \ {0}
             /\ held' = [held EXCEPT ![w] = registry'[k]]
<1> DEFINE k == Key[event[w]]
<1>1. event[w] \in Events /\ k \in Keys
  BY DEF WorkersHold, Create, Keys
<1>2. held' = [held EXCEPT ![w] = registry'[k]] /\ registry[k] \in Nat
  BY <1>1 DEF Create, CounterKey, TypeInv
<1>3. CASE registry[k] # 0
  BY <1>1, <1>2, <1>3 DEF Create, CounterKey
<1>4. CASE registry[k] = 0
  <2>1. windows' = Append(windows, {}) /\ windows \in Seq(SUBSET Events)
    BY <1>4 DEF Create, CounterKey, TypeInv
  <2>2. registry' = [registry EXCEPT ![k] = Len(windows')] /\ registry \in [Keys -> Nat]
    BY <1>4 DEF Create, CounterKey, TypeInv
  <2>3. {} \in SUBSET Events
    OBVIOUS
  <2>4. /\ Len(windows) \in Nat /\ Len(windows') = Len(windows) + 1
        /\ windows' \in Seq(SUBSET Events)
        /\ \A i \in 1 .. Len(windows) : windows'[i] = windows[i]
        /\ windows'[Len(windows) + 1] = {}
    BY <2>1, <2>3
  <2>5. /\ registry' \in [Keys -> Nat]
        /\ \A j \in Keys : registry'[j] = IF j = k THEN Len(windows) + 1 ELSE registry[j]
    BY <1>1, <2>2, <2>4
  <2>6. registry'[k] = Len(windows) + 1 /\ Len(windows) + 1 \in Nat \ {0}
    BY <1>1, <2>4, <2>5
  <2> QED  BY <1>1, <1>2, <1>4, <2>4, <2>5, <2>6
<1> QED  BY <1>3, <1>4

\* Adding an event changes one window, the one of its key.
LEMMA AddStep ==
  ASSUME TypeInv, WindowsServed, WorkersHold, NEW w \in Workers, Add(w)
  PROVE  LET e == event[w]
             h == held[w]
         IN  /\ e \in Events \ pending /\ Key[e] \in Keys
             /\ h = registry[Key[e]] /\ h \in 1 .. Len(windows)
             /\ windows' \in Seq(SUBSET Events) /\ Len(windows') = Len(windows)
             /\ windows'[h] = windows[h] \cup {e}
             /\ \A i \in 1 .. Len(windows) : i # h => windows'[i] = windows[i]
             /\ Counted' = Counted \cup {e}
<1> DEFINE e == event[w]
           h == held[w]
<1>1. e \in Events \ pending /\ Key[e] \in Keys /\ h # 0 /\ h = registry[Key[e]]
  BY DEF WorkersHold, Add, Keys
<1>2. Len(windows) \in Nat /\ h \in 1 .. Len(windows) /\ DOMAIN windows = 1 .. Len(windows)
  BY <1>1 DEF WindowsServed, TypeInv
<1>3. windows' = [i \in 1 .. Len(windows) |-> IF i = h THEN windows[i] \cup {e} ELSE windows[i]]
  BY <1>2 DEF Add, TypeInv
<1>4. \A i \in 1 .. Len(windows) : windows[i] \in SUBSET Events
  BY DEF TypeInv
<1>5. \A i \in 1 .. Len(windows) :
         (IF i = h THEN windows[i] \cup {e} ELSE windows[i]) \in SUBSET Events
  BY <1>1, <1>4
<1>6. windows' \in [1 .. Len(windows) -> SUBSET Events]
  BY <1>3, <1>5
<1>7. windows' \in Seq(SUBSET Events) /\ Len(windows') = Len(windows)
  BY <1>2, <1>6
<1>8. windows'[h] = windows[h] \cup {e}
  BY <1>2, <1>3
<1>9. \A i \in 1 .. Len(windows) : i # h => windows'[i] = windows[i]
  BY <1>3
<1>10. Counted' = Counted \cup {e}
  <2>1. DOMAIN windows' = 1 .. Len(windows)
    BY <1>6
  <2> QED  BY <1>2, <1>8, <1>9, <2>1 DEF Counted
<1> QED  BY <1>1, <1>2, <1>7, <1>8, <1>9, <1>10

\* The types survive the steps of a worker and the changes of the rules.
LEMMA TypeStep ==
  ASSUME TypeInv, WindowsServed, WorkersHold, [Next]_vars
  PROVE  TypeInv'
<1> USE DEF TypeInv
<1>1. ASSUME NEW w \in Workers, NEW e \in pending, Start(w, e) PROVE TypeInv'
  BY <1>1 DEF Start, Goto
<1>2. ASSUME NEW w \in Workers, pc[w] # "idle" PROVE event[w] \in Events /\ Key[event[w]] \in Keys
  BY <1>2 DEF WorkersHold, Keys
<1>3. ASSUME NEW w \in Workers, Lookup(w) PROVE TypeInv'
  <2>1. registry[Key[event[w]]] \in Nat
    BY <1>2, <1>3 DEF Lookup
  <2> QED  BY <1>3, <2>1 DEF Lookup, Goto, CounterKey
<1>4. ASSUME NEW w \in Workers, Create(w) PROVE TypeInv'
  <2>1. windows' \in Seq(SUBSET Events) /\ registry' \in [Keys -> Nat] /\ held' \in [Workers -> Nat]
    BY <1>4, CreateStep
  <2> QED  BY <1>4, <2>1 DEF Create, Goto
<1>5. ASSUME NEW w \in Workers, Add(w) PROVE TypeInv'
  <2>1. windows' \in Seq(SUBSET Events)
    BY <1>5, AddStep
  <2> QED  BY <1>5, <2>1 DEF Add, Goto
<1>6. ASSUME NEW w \in Workers, Evaluate(w) PROVE TypeInv'
  <2>1. event[w] \in Events /\ rules[next[w]] \in Rules
    BY <1>2, <1>6 DEF Evaluate
  <2>2. checked' \in [Events -> SUBSET Rules] /\ next' \in [Workers -> Nat \ {0}]
    BY <1>6, <2>1 DEF Evaluate
  <2> QED  BY <1>6, <2>2 DEF Evaluate
<1>7. ASSUME NEW w \in Workers, Return(w) PROVE TypeInv'
  BY <1>7 DEF Return, Goto
<1>8. ASSUME NEW r \in Rules, AddRule(r) PROVE TypeInv'
  BY <1>8 DEF AddRule
<1>9. CASE ClearRules
  BY <1>9 DEF ClearRules
<1>10. CASE UNCHANGED vars
  BY <1>10 DEF vars
<1>11. ASSUME NEW w \in Workers, ReadRules(w) PROVE TypeInv'
  BY <1>11 DEF ReadRules, Goto
<1> QED  BY <1>1, <1>3, <1>4, <1>5, <1>6, <1>7, <1>8, <1>9, <1>10, <1>11 DEF Next, OnFleetEvent

-----------------------------------------------------------------------------
\* Whatever was counted is in the window of its key, and so the window holds exactly what
\* was counted of the key: no count is stranded.
LEMMA WindowIsCounted ==
  ASSUME TypeInv, WindowsServed
  PROVE  /\ NothingStranded
         /\ \A k \in Keys : registry[k] # 0 =>
              /\ windows[registry[k]] = {f \in Counted : Key[f] = k}
              /\ IsFiniteSet(windows[registry[k]])
<1>0. Len(windows) \in Nat /\ DOMAIN windows = 1 .. Len(windows)
  BY DEF TypeInv
<1>1. ASSUME NEW e \in Counted
      PROVE  Key[e] \in Keys /\ registry[Key[e]] # 0 /\ e \in windows[registry[Key[e]]]
  <2>1. PICK i \in 1 .. Len(windows) : e \in windows[i]
    BY <1>0 DEF Counted
  <2>2. PICK k \in Keys : registry[k] = i
    BY DEF WindowsServed
  <2> QED  BY <2>1, <2>2 DEF WindowsServed
<1>2. ASSUME NEW k \in Keys, registry[k] # 0
      PROVE  /\ registry[k] \in 1 .. Len(windows)
             /\ windows[registry[k]] \subseteq Counted
             /\ \A e \in windows[registry[k]] : Key[e] = k
             /\ IsFiniteSet(windows[registry[k]])
  <2>1. registry[k] \in 1 .. Len(windows)
    BY <1>0, <1>2 DEF WindowsServed, TypeInv
  <2> QED  BY <1>0, <1>2, <2>1 DEF WindowsServed, Counted
<1> QED  BY <1>1, <1>2 DEF NothingStranded

\* A new window changes nothing of what was counted,
LEMMA CreateCounts ==
  ASSUME TypeInv, WorkersHold, NEW w \in Workers, Create(w)
  PROVE  Counted' = Counted
<1>1. CASE UNCHANGED windows
  BY <1>1 DEF Counted
<1>2. CASE registry[Key[event[w]]] = 0
  <2>1. DOMAIN windows = 1 .. Len(windows) /\ Len(windows) \in Nat
    BY DEF TypeInv
  <2>2. /\ Len(windows') = Len(windows) + 1 /\ windows' \in Seq(SUBSET Events)
        /\ \A i \in 1 .. Len(windows) : windows'[i] = windows[i]
        /\ windows'[Len(windows) + 1] = {}
    BY <1>2, CreateStep, Zenon
  <2>3. DOMAIN windows' = 1 .. Len(windows) + 1
    BY <2>2
  <2> QED  BY <2>1, <2>2, <2>3 DEF Counted
<1> QED  BY <1>1, <1>2, CreateStep

\* and no other step does but Add.
LEMMA CountedStep ==
  ASSUME TypeInv, WorkersHold, [Next]_vars
  PROVE  Counted' = Counted \/ \E w \in Workers : Add(w)
<1>1. ASSUME UNCHANGED windows PROVE Counted' = Counted
  BY <1>1 DEF Counted
<1> QED  BY <1>1, CreateCounts
         DEF Next, OnFleetEvent, Start, Lookup, ReadRules, Evaluate, Return, AddRule,
             ClearRules, vars

\* Every step leaves each window with a key.
LEMMA WindowsStep ==
  ASSUME TypeInv, WindowsServed, WorkersHold, [Next]_vars
  PROVE  WindowsServed'
<1>0. Len(windows) \in Nat /\ registry \in [Keys -> Nat]
  BY DEF TypeInv
<1>1. ASSUME NEW w \in Workers, Create(w) PROVE WindowsServed'
  <2> DEFINE k == Key[event[w]]
             n == Len(windows) + 1
  <2>1. CASE UNCHANGED <<windows, registry>>
    BY <2>1 DEF WindowsServed
  <2>2. CASE registry[k] = 0
    <3>1. /\ k \in Keys
          /\ Len(windows') = n
          /\ \A i \in 1 .. Len(windows) : windows'[i] = windows[i]
          /\ windows'[n] = {}
          /\ \A j \in Keys : registry'[j] = IF j = k THEN n ELSE registry[j]
      BY <1>1, <2>2, CreateStep, Zenon
    <3>2. \A j \in Keys : registry'[j] <= Len(windows')
      BY <1>0, <3>1 DEF WindowsServed
    <3>3. ASSUME NEW i \in 1 .. n
          PROVE  IsFiniteSet(windows'[i]) /\ \E j \in Keys : registry'[j] = i
      <4>1. CASE i = n
        BY <3>1, <4>1, FS_EmptySet
      <4>2. CASE i # n
        <5>1. i \in 1 .. Len(windows)
          BY <1>0, <4>2
        <5>2. PICK j \in Keys : registry[j] = i
          BY <5>1 DEF WindowsServed
        <5>3. j # k
          BY <1>0, <2>2, <5>1, <5>2
        <5> QED  BY <3>1, <5>1, <5>2, <5>3 DEF WindowsServed
      <4> QED  BY <4>1, <4>2
    <3>4. ASSUME NEW j \in Keys, registry'[j] # 0, NEW e \in windows'[registry'[j]]
          PROVE  Key[e] = j
      <4>1. j # k
        BY <3>1, <3>4
      <4>2. registry[j] \in 1 .. Len(windows) /\ registry'[j] = registry[j]
        BY <1>0, <3>1, <3>4, <4>1 DEF WindowsServed
      <4> QED  BY <3>1, <3>4, <4>2 DEF WindowsServed
    <3>5. ASSUME NEW i \in Keys, NEW j \in Keys, registry'[i] # 0, registry'[j] = registry'[i]
          PROVE  i = j
      <4>1. registry[i] \in 0 .. Len(windows) /\ registry[j] \in 0 .. Len(windows)
        BY <1>0 DEF WindowsServed
      <4> QED  BY <1>0, <3>1, <3>5, <4>1 DEF WindowsServed
    <3> QED  BY <3>1, <3>2, <3>3, <3>4, <3>5 DEF WindowsServed
  <2> QED  BY <1>1, <2>1, <2>2, CreateStep
<1>2. ASSUME NEW w \in Workers, Add(w) PROVE WindowsServed'
  <2> DEFINE e == event[w]
             h == held[w]
  <2>1. /\ Key[e] \in Keys /\ h = registry[Key[e]] /\ h \in 1 .. Len(windows)
        /\ Len(windows') = Len(windows)
        /\ windows'[h] = windows[h] \cup {e}
        /\ \A i \in 1 .. Len(windows) : i # h => windows'[i] = windows[i]
    BY <1>2, AddStep, Zenon
  <2>2. registry' = registry
    BY <1>2 DEF Add
  <2>3. ASSUME NEW i \in 1 .. Len(windows) PROVE IsFiniteSet(windows'[i])
    <3>1. IsFiniteSet(windows[i]) /\ IsFiniteSet(windows[i] \cup {e})
      BY FS_AddElement DEF WindowsServed
    <3> QED  BY <2>1, <3>1
  <2>4. ASSUME NEW j \in Keys, registry[j] # 0, NEW f \in windows'[registry[j]]
        PROVE  Key[f] = j
    <3>1. registry[j] \in 1 .. Len(windows)
      BY <1>0, <2>4 DEF WindowsServed
    <3>2. CASE registry[j] # h
      BY <2>1, <2>4, <3>1, <3>2 DEF WindowsServed
    <3>3. CASE registry[j] = h
      <4>1. \A g \in windows[h] : Key[g] = j /\ Key[g] = Key[e]
        BY <2>1, <2>4, <3>3 DEF WindowsServed
      <4>2. j = Key[e]
        BY <2>1, <3>3 DEF WindowsServed
      <4> QED  BY <2>1, <2>4, <3>3, <4>1, <4>2
    <3> QED  BY <3>2, <3>3
  <2> QED  BY <2>1, <2>2, <2>3, <2>4 DEF WindowsServed
<1>3. ASSUME UNCHANGED <<windows, registry>> PROVE WindowsServed'
  BY <1>3 DEF WindowsServed
<1> QED  BY <1>1, <1>2, <1>3
         DEF Next, OnFleetEvent, Start, Lookup, ReadRules, Evaluate, Return, AddRule,
             ClearRules, vars

\* Every step leaves each worker with an event of its own and the window of its key.
LEMMA WorkersStep ==
  ASSUME TypeInv, WindowsServed, WorkersHold, [Next]_vars
  PROVE  WorkersHold'
<1> USE DEF TypeInv
<1>1. ASSUME NEW w \in Workers, NEW e \in pending, Start(w, e) PROVE WorkersHold'
  <2>1. Counted' = Counted
    BY <1>1 DEF Start, Counted
  <2> QED  BY <1>1, <2>1 DEF Start, Goto, WorkersHold
<1>2. ASSUME NEW w \in Workers, Lookup(w) PROVE WorkersHold'
  <2>1. Counted' = Counted
    BY <1>2 DEF Lookup, Counted
  <2> QED  BY <1>2, <2>1 DEF Lookup, Goto, CounterKey, WorkersHold
<1>3. ASSUME NEW w \in Workers, Create(w) PROVE WorkersHold'
  <2> DEFINE k == Key[event[w]]
  <2>1. Counted' = Counted
    BY <1>3, CreateCounts
  <2>2. registry'[k] \in Nat \ {0} /\ held' = [held EXCEPT ![w] = registry'[k]]
    BY <1>3, CreateStep, Zenon
  <2>3. \A j \in Keys : registry[j] # 0 => registry'[j] = registry[j]
    BY <1>3, CreateStep
  <2>4. /\ pc' = [pc EXCEPT ![w] = "add"] /\ pc[w] = "create"
        /\ UNCHANGED <<pending, event>>
    BY <1>3 DEF Create, Goto
  <2>5. ASSUME NEW v \in Workers, pc'[v] = "add"
        PROVE  held'[v] # 0 /\ held'[v] = registry'[Key[event[v]]]
    <3>1. CASE v = w
      BY <2>2, <3>1
    <3>2. CASE v # w
      <4>1. Key[event[v]] \in Keys /\ held[v] # 0 /\ held[v] = registry[Key[event[v]]]
        BY <2>4, <2>5, <3>2 DEF WorkersHold, Keys
      <4> QED  BY <2>2, <2>3, <3>2, <4>1
    <3> QED  BY <3>1, <3>2
  <2> QED  BY <2>1, <2>4, <2>5 DEF WorkersHold
<1>4. ASSUME NEW w \in Workers, Add(w) PROVE WorkersHold'
  <2>1. Counted' = Counted \cup {event[w]}
    BY <1>4, AddStep
  <2> QED  BY <1>4, <2>1 DEF Add, Goto, WorkersHold
<1>5. ASSUME NEW w \in Workers, Evaluate(w) PROVE WorkersHold'
  <2>1. Counted' = Counted
    BY <1>5 DEF Evaluate, Counted
  <2> QED  BY <1>5, <2>1 DEF Evaluate, WorkersHold
<1>6. ASSUME NEW w \in Workers, Return(w) PROVE WorkersHold'
  <2>1. Counted' = Counted
    BY <1>6 DEF Return, Counted
  <2> QED  BY <1>6, <2>1 DEF Return, Goto, WorkersHold
<1>7. ASSUME UNCHANGED <<pending, pc, event, held, registry, windows>> PROVE WorkersHold'
  BY <1>7 DEF WorkersHold, Counted
<1>8. ASSUME NEW w \in Workers, ReadRules(w) PROVE WorkersHold'
  <2>1. Counted' = Counted
    BY <1>8 DEF ReadRules, Counted
  <2> QED  BY <1>8, <2>1 DEF ReadRules, Goto, WorkersHold
<1> QED  BY <1>1, <1>2, <1>3, <1>4, <1>5, <1>6, <1>7, <1>8
         DEF Next, OnFleetEvent, AddRule, ClearRules, vars

\* Every step keeps track of whether an event is pending, held or counted.
LEMMA EventsStep ==
  ASSUME TypeInv, WindowsServed, WorkersHold, EventsCounted, [Next]_vars
  PROVE  EventsCounted'
<1> USE DEF TypeInv, Uncounted
<1>1. ASSUME NEW w \in Workers, NEW e \in pending, Start(w, e) PROVE EventsCounted'
  <2>1. Counted' = Counted
    BY <1>1 DEF Start, Counted
  <2>2. checked[e] = {} /\ e \in Events
    BY DEF EventsCounted, WorkersHold
  <2> QED  BY <1>1, <2>1, <2>2 DEF Start, Goto, EventsCounted
<1>2. ASSUME NEW w \in Workers, Lookup(w) PROVE EventsCounted'
  <2>1. Counted' = Counted
    BY <1>2 DEF Lookup, Counted
  <2> QED  BY <1>2, <2>1 DEF Lookup, Goto, EventsCounted
<1>3. ASSUME NEW w \in Workers, Create(w) PROVE EventsCounted'
  <2>1. Counted' = Counted
    BY <1>3, CreateCounts
  <2> QED  BY <1>3, <2>1 DEF Create, Goto, EventsCounted
<1>4. ASSUME NEW w \in Workers, Add(w) PROVE EventsCounted'
  <2>1. Counted' = Counted \cup {event[w]} /\ event[w] \in Events \ pending
    BY <1>4, AddStep
  <2>2. /\ pc' = [pc EXCEPT ![w] = "added"] /\ pc[w] = "add"
        /\ UNCHANGED <<pending, event, checked>>
    BY <1>4 DEF Add, Goto
  <2>3. ASSUME NEW f \in Events, f # event[w]
        PROVE  \/ f \in pending /\ checked[f] = {} /\ f \notin Counted'
               \/ checked[f] = {} /\ \E v \in Workers : event[v] = f /\ Uncounted(v)'
               \/ f \notin pending /\ f \in Counted'
                  /\ \A v \in Workers : event[v] = f => ~Uncounted(v)'
    BY <2>1, <2>2, <2>3 DEF EventsCounted
  <2>4. \A v \in Workers : event[v] = event[w] => ~Uncounted(v)'
    BY <2>2 DEF WorkersHold
  <2> QED  BY <2>1, <2>2, <2>3, <2>4 DEF EventsCounted
<1>5. ASSUME NEW w \in Workers, Evaluate(w) PROVE EventsCounted'
  <2>1. Counted' = Counted
    BY <1>5 DEF Evaluate, Counted
  <2>2. /\ \A f \in Events : f # event[w] => checked'[f] = checked[f]
        /\ UNCHANGED <<pending, pc, event>>
    BY <1>5 DEF Evaluate
  <2>3. /\ event[w] \in Counted \ pending
        /\ \A v \in Workers : event[v] = event[w] => ~Uncounted(v)
    BY <1>5 DEF Evaluate, WorkersHold
  <2> QED  BY <2>1, <2>2, <2>3 DEF EventsCounted
<1>6. ASSUME NEW w \in Workers, Return(w) PROVE EventsCounted'
  <2>1. Counted' = Counted
    BY <1>6 DEF Return, Counted
  <2> QED  BY <1>6, <2>1 DEF Return, Goto, EventsCounted
<1>7. ASSUME UNCHANGED <<pending, pc, event, windows, checked>> PROVE EventsCounted'
  BY <1>7 DEF EventsCounted, Counted
<1>8. ASSUME NEW w \in Workers, ReadRules(w) PROVE EventsCounted'
  <2>1. Counted' = Counted
    BY <1>8 DEF ReadRules, Counted
  <2> QED  BY <1>8, <2>1 DEF ReadRules, Goto, EventsCounted
<1> QED  BY <1>1, <1>2, <1>3, <1>4, <1>5, <1>6, <1>7, <1>8
         DEF Next, OnFleetEvent, AddRule, ClearRules, vars

\* No rule is evaluated for an event before its worker reads the rules.
LEMMA UnevaluatedStep ==
  ASSUME TypeInv, WorkersHold, EventsCounted, Unevaluated, [Next]_vars
  PROVE  Unevaluated'
<1> USE DEF TypeInv
<1>1. ASSUME NEW w \in Workers, Add(w) PROVE Unevaluated'
  <2>1. checked[event[w]] = {}
    BY <1>1 DEF Add, EventsCounted, WorkersHold, Uncounted
  <2> QED  BY <1>1, <2>1 DEF Add, Goto, Unevaluated
<1>2. ASSUME NEW w \in Workers, Evaluate(w) PROVE Unevaluated'
  <2>1. \A v \in Workers : pc[v] = "added" => event[v] # event[w] /\ event[v] \in Events
    BY <1>2 DEF Evaluate, WorkersHold
  <2> QED  BY <1>2, <2>1 DEF Evaluate, Unevaluated
<1>3. ASSUME NEW w \in Workers,
             \/ \E e \in pending : Start(w, e)
             \/ Lookup(w) \/ Create(w) \/ ReadRules(w) \/ Return(w)
      PROVE  Unevaluated'
  BY <1>3 DEF Start, Lookup, Create, ReadRules, Return, Goto, Unevaluated
<1>4. ASSUME UNCHANGED <<pc, event, checked>> PROVE Unevaluated'
  BY <1>4 DEF Unevaluated
<1> QED  BY <1>1, <1>2, <1>3, <1>4 DEF Next, OnFleetEvent, AddRule, ClearRules, vars

\* Every step leaves each evaluation with one version of the rule list.
LEMMA RuleListStep ==
  ASSUME TypeInv, WindowsServed, WorkersHold, Unevaluated, OneRuleList, [Next]_vars
  PROVE  OneRuleList'
<1> USE DEF TypeInv
<1>1. ASSUME NEW w \in Workers, ReadRules(w) PROVE OneRuleList'
  <2>1. checked[event[w]] = {}
    BY <1>1 DEF ReadRules, Unevaluated
  <2>2. next' = [next EXCEPT ![w] = 1] /\ pc' = [pc EXCEPT ![w] = "evaluate"]
        /\ UNCHANGED <<event, rules, checked>>
    BY <1>1 DEF ReadRules, Goto
  <2>3. 1 <= Len(rules) + 1 /\ {rules[i] : i \in 1 .. 1 - 1} = {}
    OBVIOUS
  <2>4. next'[w] = 1 /\ checked[event[w]] = {rules[i] : i \in 1 .. next'[w] - 1}
    BY <2>1, <2>2, <2>3
  <2>5. ASSUME NEW v \in Workers, v # w, pc'[v] = "evaluate"
        PROVE  /\ next[v] <= Len(rules) + 1 /\ next'[v] = next[v]
               /\ checked[event[v]] = {rules[i] : i \in 1 .. next[v] - 1}
    BY <2>2, <2>5 DEF OneRuleList
  <2>6. ASSUME NEW v \in Workers, pc'[v] = "evaluate"
        PROVE  /\ next'[v] <= Len(rules) + 1
               /\ checked[event[v]] = {rules[i] : i \in 1 .. next'[v] - 1}
    <3>1. CASE v = w
      BY <2>3, <2>4, <3>1
    <3>2. CASE v # w
      BY <2>5, <2>6, <3>2
    <3> QED  BY <3>1, <3>2
  <2>7. event' = event /\ rules' = rules /\ checked' = checked
    BY <2>2
  <2> HIDE DEF TypeInv
  <2> QED  BY <2>6, <2>7, Zenon DEF OneRuleList
<1>2. ASSUME NEW w \in Workers, Evaluate(w) PROVE OneRuleList'
  <2> DEFINE e == event[w]
             n == next[w]
  <2>1. /\ pc[w] = "evaluate" /\ n \in 1 .. Len(rules) /\ e \in Events
        /\ checked' = [checked EXCEPT ![e] = @ \cup {rules[n]}]
        /\ next' = [next EXCEPT ![w] = n + 1]
        /\ UNCHANGED <<pc, event, rules>>
    BY <1>2 DEF Evaluate, WorkersHold
  <2>2. checked[e] = {rules[i] : i \in 1 .. n - 1}
    BY <2>1 DEF OneRuleList
  <2>3. {rules[i] : i \in 1 .. n - 1} \cup {rules[n]} = {rules[i] : i \in 1 .. n}
    <3>1. 1 .. n = (1 .. n - 1) \cup {n}
      BY <2>1
    <3> QED  BY <3>1
  <2>4. checked'[e] = {rules[i] : i \in 1 .. next'[w] - 1} /\ next'[w] <= Len(rules) + 1
    <3>1. next'[w] = n + 1 /\ next'[w] - 1 = n
      BY <2>1
    <3> QED  BY <2>1, <2>2, <2>3, <3>1
  <2>5. ASSUME NEW v \in Workers, v # w, pc[v] = "evaluate"
        PROVE  checked'[event[v]] = checked[event[v]] /\ next'[v] = next[v]
    <3>1. event[v] # e /\ event[v] \in Events
      BY <2>1, <2>5 DEF WorkersHold
    <3> QED  BY <2>1, <2>5, <3>1
  <2>6. ASSUME NEW v \in Workers, pc[v] = "evaluate"
        PROVE  /\ next'[v] <= Len(rules) + 1
               /\ checked'[event[v]] = {rules[i] : i \in 1 .. next'[v] - 1}
    <3>1. CASE v = w
      BY <2>4, <3>1
    <3>2. CASE v # w
      <4>1. /\ next[v] <= Len(rules) + 1
            /\ checked[event[v]] = {rules[i] : i \in 1 .. next[v] - 1}
        BY <2>6 DEF OneRuleList
      <4> QED  BY <2>5, <2>6, <3>2, <4>1
    <3> QED  BY <3>1, <3>2
  <2>7. event' = event /\ rules' = rules /\ pc' = pc
    BY <2>1
  <2> HIDE DEF TypeInv
  <2> QED  BY <2>6, <2>7, Zenon DEF OneRuleList
<1>3. ASSUME NEW r \in Rules, AddRule(r) PROVE OneRuleList'
  BY <1>3 DEF AddRule, NoReader, OneRuleList
<1>4. CASE ClearRules
  BY <1>4 DEF ClearRules, NoReader, OneRuleList
<1>5. ASSUME NEW w \in Workers, NEW e \in pending, Start(w, e) PROVE OneRuleList'
  BY <1>5 DEF Start, Goto, OneRuleList
<1>6. ASSUME NEW w \in Workers, Lookup(w) \/ Create(w) \/ Add(w) \/ Return(w)
      PROVE  OneRuleList'
  <2>1. /\ UNCHANGED <<event, next, rules, checked>>
        /\ \A v \in Workers : pc'[v] = "evaluate" => pc[v] = "evaluate"
    BY <1>6 DEF Lookup, Create, Add, Return, Goto
  <2> QED  BY <2>1 DEF OneRuleList
<1>7. CASE UNCHANGED vars
  BY <1>7 DEF vars, OneRuleList
<1> QED  BY <1>1, <1>2, <1>3, <1>4, <1>5, <1>6, <1>7 DEF Next, OnFleetEvent

-----------------------------------------------------------------------------
\* What was counted of the key of an event: what both kinds of rules look at.
Of(e) == {f \in Counted : Key[f] = Key[e]}

\* A rule looks at everything that was counted of its event's key.
LEMMA EvaluateStep ==
  ASSUME TypeInv, WindowsServed, WorkersHold, OneRuleList, NEW w \in Workers, Evaluate(w)
  PROVE  LET e == event[w]
             r == rules[next[w]]
         IN  /\ e \in Counted /\ e \in Events /\ r \in Rules /\ IsFiniteSet(Of(e))
             /\ fired' = IF Holds(r, e, Of(e)) THEN fired \cup {<<e, r>>} ELSE fired
             /\ checked' = [checked EXCEPT ![e] = @ \cup {r}]
             /\ Counted' = Counted
<1> DEFINE e == event[w]
           r == rules[next[w]]
<1>1. e \in Counted /\ e \in Events /\ r \in Rules
  BY DEF Evaluate, WorkersHold, TypeInv
<1>2. registry[Key[e]] # 0 /\ Key[e] \in Keys
  BY <1>1, WindowIsCounted DEF NothingStranded, Keys
<1>3. windows[registry[Key[e]]] = Of(e) /\ IsFiniteSet(Of(e))
  BY <1>2, WindowIsCounted DEF Of
<1>4. Counted' = Counted
  BY DEF Evaluate, Counted
<1> QED  BY <1>1, <1>3, <1>4 DEF Evaluate, CounterKey

\* Nothing that was counted is forgotten, and only Evaluate fires rules.
LEMMA FiredStep ==
  ASSUME TypeInv, WindowsServed, WorkersHold, [Next]_vars
  PROVE  /\ Counted \subseteq Counted'
         /\ \A e \in Events : Of(e) \subseteq Of(e)'
         /\ UNCHANGED <<fired, checked>> \/ \E w \in Workers : Evaluate(w)
<1>1. Counted \subseteq Counted'
  BY CountedStep, AddStep
<1>2. \A e \in Events : Of(e) \subseteq Of(e)'
  BY <1>1 DEF Of
<1>3. UNCHANGED <<fired, checked>> \/ \E w \in Workers : Evaluate(w)
  BY DEF Next, OnFleetEvent, Start, Lookup, Create, Add, ReadRules, Return, AddRule, ClearRules, vars
<1> QED  BY <1>1, <1>2, <1>3

\* What has been counted of a key is finite.
LEMMA CountedFinite ==
  TypeInv /\ WindowsServed => \A f \in Events : IsFiniteSet(Of(f))
<1> SUFFICES ASSUME TypeInv, WindowsServed, NEW e \in Events
             PROVE  IsFiniteSet(Of(e))
  OBVIOUS
<1>1. CASE registry[Key[e]] # 0
  BY <1>1, WindowIsCounted DEF Keys, Of
<1>2. CASE registry[Key[e]] = 0
  <2>1. \A f \in Counted : Key[f] # Key[e]
    BY <1>2, WindowIsCounted DEF NothingStranded
  <2>2. Of(e) = {}
    BY <2>1 DEF Of
  <2> QED  BY <2>2, FS_EmptySet
<1> QED  BY <1>1, <1>2

\* So it is after a step.
LEMMA CountedFiniteNext ==
  ASSUME TypeInv', WindowsServed'
  PROVE  (\A f \in Events : IsFiniteSet(Of(f)))'
BY CountedFinite, PTL

\* The cause of a rule that fired does not go away, and Evaluate fires with cause only.
LEMMA AlarmStep ==
  ASSUME TypeInv, TypeInv', WindowsServed, WindowsServed', WorkersHold, OneRuleList,
         NoFalseAlarm, [Next]_vars
  PROVE  NoFalseAlarm'
<1> DEFINE Cause(e, r, s) ==
             \/ r.type = "fleet_threshold" /\ Cardinality(Devices(InWindow(e, s))) >= r.limit
             \/ r.type = "fleet_rate" /\ Cardinality(SinceWindow(e, s)) >= r.limit
<1>1. ASSUME NEW e \in Events, NEW r \in Rules, Cause(e, r, Of(e)) PROVE Cause(e, r, Of(e)')
  <2>1. IsFiniteSet(Of(e)') /\ Of(e) \in SUBSET (Of(e)')
    BY CountedFiniteNext, FiredStep
  <2>2. /\ InWindow(e, Of(e)) \in SUBSET InWindow(e, Of(e)')
        /\ IsFiniteSet(InWindow(e, Of(e)'))
        /\ Cardinality(SinceWindow(e, Of(e)')) \in Nat
        /\ Cardinality(SinceWindow(e, Of(e))) \in Nat
        /\ Cardinality(SinceWindow(e, Of(e))) <= Cardinality(SinceWindow(e, Of(e)'))
    BY <2>1, SeenGrow
  <2>3. /\ Cardinality(Devices(InWindow(e, Of(e)'))) \in Nat
        /\ Cardinality(Devices(InWindow(e, Of(e)))) \in Nat
        /\ Cardinality(Devices(InWindow(e, Of(e)))) <= Cardinality(Devices(InWindow(e, Of(e)')))
    BY <2>2, DevicesGrow
  <2>4. r.limit \in Int
    BY LimitsAssumption
  <2> QED  BY <1>1, <2>2, <2>3, <2>4
<1>2. \A e \in Events, r \in Rules : <<e, r>> \in fired => Cause(e, r, Of(e))
  BY DEF NoFalseAlarm, Of
<1>3. \A e \in Events, r \in Rules : <<e, r>> \in fired' => Cause(e, r, Of(e)')
  <2>1. CASE UNCHANGED fired
    BY <1>1, <1>2, <2>1
  <2>2. ASSUME NEW w \in Workers, Evaluate(w)
        PROVE  \A e \in Events, r \in Rules : <<e, r>> \in fired' => Cause(e, r, Of(e)')
    <3>1. /\ \/ fired' = fired
             \/ /\ Holds(rules[next[w]], event[w], Of(event[w]))
                /\ fired' = fired \cup {<<event[w], rules[next[w]]>>}
          /\ event[w] \in Events /\ rules[next[w]] \in Rules
      BY <2>2, EvaluateStep
    <3>2. Holds(rules[next[w]], event[w], Of(event[w]))
            => Cause(event[w], rules[next[w]], Of(event[w]))
      BY DEF Holds
    <3> QED  BY <1>1, <1>2, <3>1, <3>2
  <2> QED  BY <2>1, <2>2, FiredStep
<1> QED  BY <1>3 DEF NoFalseAlarm, Of

\* A burst lies within what a rule sees at the time of any event of the burst.
LEMMA BurstHolds ==
  ASSUME TypeInv, WindowsServed, NEW e \in Events, NEW s \in SUBSET Counted, e \in s,
         NEW r \in Rules, Burst(s), Reaches(s, r)
  PROVE  Holds(r, e, Of(e))
<1>1. IsFiniteSet(Of(e)) /\ s \subseteq Of(e) /\ s \subseteq Events
  <2>1. Counted \subseteq Events
    BY DEF TypeInv, Counted
  <2> QED  BY <2>1, CountedFinite DEF Of, Burst
<1>2. \A f \in s : /\ Stamp[f] >= Stamp[e] - Duration
                   /\ Stamp[f] < Stamp[e] + Second
  <2> TAKE f \in s
  <2>1. Stamp[e] \in Int /\ Stamp[f] \in Int /\ Duration \in Nat /\ Second \in Nat
        /\ Second <= Duration
    BY <1>1, StampAssumption
  <2>2. Stamp[f] < Stamp[e] + Second /\ Stamp[e] < Stamp[f] + Second
    BY DEF Burst
  <2> QED  BY <2>1, <2>2
<1>3. s \subseteq InWindow(e, Of(e)) /\ s \subseteq SinceWindow(e, Of(e))
  BY <1>1, <1>2 DEF InWindow, SinceWindow
<1>4. IsFiniteSet(InWindow(e, Of(e))) /\ IsFiniteSet(SinceWindow(e, Of(e)))
  BY <1>1, SeenGrow
<1>5. /\ Cardinality(Devices(InWindow(e, Of(e)))) \in Nat /\ Cardinality(Devices(s)) \in Nat
      /\ Cardinality(Devices(s)) <= Cardinality(Devices(InWindow(e, Of(e))))
  BY <1>3, <1>4, DevicesGrow
<1>6. /\ Cardinality(SinceWindow(e, Of(e))) \in Nat /\ Cardinality(s) \in Nat
      /\ Cardinality(s) <= Cardinality(SinceWindow(e, Of(e)))
  BY <1>3, <1>4, FS_Subset, FS_CardinalityType
<1>7. r.limit \in Int
  BY LimitsAssumption
<1> QED  BY <1>3, <1>5, <1>6, <1>7 DEF Holds, Reaches

\* The worker that is the last to evaluate a rule for an event of a burst fires it.
LEMMA BurstStep ==
  ASSUME TypeInv, WindowsServed, WorkersHold, EventsCounted, OneRuleList, CountedBurstsFire,
         [Next]_vars
  PROVE  CountedBurstsFire'
<1> SUFFICES ASSUME NEW s, s \subseteq Counted', NEW r \in Rules,
                    Burst(s), s # {}, Reaches(s, r), \A e \in s : r \in checked'[e]
             PROVE  \E e \in s : <<e, r>> \in fired'
  BY Zenon DEF CountedBurstsFire, Burst, Reaches, Devices
<1>1. ASSUME NEW w \in Workers, Evaluate(w) PROVE \E e \in s : <<e, r>> \in fired'
  <2> DEFINE e0 == event[w]
             r0 == rules[next[w]]
  <2>1. /\ e0 \in Events /\ s \subseteq Counted
        /\ fired' = IF Holds(r0, e0, Of(e0)) THEN fired \cup {<<e0, r0>>} ELSE fired
        /\ checked' = [checked EXCEPT ![e0] = @ \cup {r0}]
    BY <1>1, EvaluateStep
  <2>2. CASE e0 \in s /\ r = r0
    <3>1. Holds(r0, e0, Of(e0))
      BY <2>1, <2>2, BurstHolds
    <3> QED  BY <2>1, <2>2, <3>1
  <2>3. CASE ~(e0 \in s /\ r = r0)
    <3>1. ASSUME NEW e \in s PROVE r \in checked[e]
      <4>1. e \in Events
        BY <2>1 DEF TypeInv, Counted
      <4>2. CASE e = e0
        BY <2>1, <2>3, <4>1, <4>2 DEF TypeInv
      <4>3. CASE e # e0
        BY <2>1, <4>1, <4>3 DEF TypeInv
      <4> QED  BY <4>2, <4>3
    <3>2. \E e \in s : <<e, r>> \in fired
      BY <2>1, <3>1 DEF CountedBurstsFire
    <3> QED  BY <2>1, <3>2
  <2> QED  BY <2>2, <2>3
<1>2. ASSUME UNCHANGED <<fired, checked>> PROVE \E e \in s : <<e, r>> \in fired'
  <2>1. CASE s \subseteq Counted
    BY <1>2, <2>1 DEF CountedBurstsFire
  <2>2. ASSUME NEW w \in Workers, Add(w) PROVE event[w] \in s => FALSE
    <3>1. checked[event[w]] = {}
      BY <2>2 DEF Add, EventsCounted, WorkersHold, Uncounted
    <3> QED  BY <1>2, <3>1
  <2>3. CASE ~(s \subseteq Counted)
    <3>1. PICK w \in Workers : Add(w)
      BY <2>3, CountedStep
    <3>2. event[w] \in s
      BY <2>3, <3>1, AddStep
    <3> QED  BY <2>2, <3>1, <3>2
  <2> QED  BY <2>1, <2>3
<1> QED  BY <1>1, <1>2, FiredStep

-----------------------------------------------------------------------------
\* The invariant holds at the start,
LEMMA InitInv == Init => IInv
<1> SUFFICES ASSUME Init PROVE IInv
  OBVIOUS
<1>1. Counted = {} /\ windows = <<>> /\ Len(windows) = 0
  BY DEF Init, Counted
<1>2. WindowsServed
  <2>1. \A k \in Keys : registry[k] = 0
    BY DEF Init
  <2> QED  BY <1>1, <2>1 DEF WindowsServed
<1>3. WorkersHold /\ EventsCounted /\ Unevaluated /\ OneRuleList /\ NoFalseAlarm
  BY <1>1 DEF Init, WorkersHold, EventsCounted, Unevaluated, OneRuleList, NoFalseAlarm
<1>4. CountedBurstsFire
  BY <1>1 DEF CountedBurstsFire
<1> QED  BY InitTypes, <1>2, <1>3, <1>4 DEF IInv

\* and every step keeps it.
LEMMA NextInv == IInv /\ [Next]_vars => IInv'
<1> SUFFICES ASSUME IInv, [Next]_vars PROVE IInv'
  OBVIOUS
<1> USE DEF IInv
<1>1. TypeInv'
  BY TypeStep
<1>2. WindowsServed'
  BY WindowsStep
<1>3. WorkersHold'
  BY WorkersStep
<1>4. EventsCounted'
  BY EventsStep
<1>5. OneRuleList'
  BY RuleListStep
<1>6. NoFalseAlarm'
  BY <1>1, <1>2, AlarmStep
<1>7. CountedBurstsFire'
  BY BurstStep
<1>8. Unevaluated'
  BY UnevaluatedStep
<1> QED  BY <1>1, <1>2, <1>3, <1>4, <1>5, <1>6, <1>7, <1>8

\* A finished event has been counted, so that bursts of finished events fire.
LEMMA FinishedFire == IInv => NoBurstMissed
<1> SUFFICES ASSUME IInv PROVE NoBurstMissed
  OBVIOUS
<1> USE DEF IInv
<1>1. Finished \subseteq Counted
  BY DEF Finished, EventsCounted, Uncounted
<1>2. ASSUME NEW s \in SUBSET Finished, NEW r \in Rules,
             Burst(s), s # {},
             \A e \in s : r \in checked[e] /\ r.cohort = Key[e].cohort
                                           /\ r.trigger = Key[e].trigger,
             r.enabled,
             \/ r.type = "fleet_threshold" /\ Cardinality(Devices(s)) >= r.limit
             \/ r.type = "fleet_rate" /\ Cardinality(s) >= r.limit
      PROVE  \E e \in s : <<e, r>> \in fired
  <2>1. Reaches(s, r)
    BY <1>2 DEF Reaches
  <2> QED  BY <1>1, <1>2, <2>1 DEF CountedBurstsFire
<1> QED  BY <1>2 DEF NoBurstMissed

\* The invariant of the rule engine.
THEOREM Invariant == Spec => []IInv
BY InitInv, NextInv, PTL DEF Spec

\* However many workers miss the window of a new key at once, none of them counts an
\* event in a window that the registry does not serve (GetOrCreate, counters.go).
THEOREM WindowsNotLost == Spec => []NothingStranded
<1>1. IInv => NothingStranded
  BY WindowIsCounted DEF IInv
<1> QED  BY <1>1, Invariant, PTL

\* A rule fires only for an event in whose window enough events of its own cohort and
\* trigger type lie, whatever the other workers count meanwhile (evaluateThreshold and
\* evaluateRate, engine.go).
THEOREM AlarmsHaveCause == Spec => []NoFalseAlarm
<1>1. IInv => NoFalseAlarm
  BY DEF IInv
<1> QED  BY <1>1, Invariant, PTL

\* A burst that reaches the limit of a rule fires it, for every order and interleaving of
\* the workers (OnFleetEvent, engine.go: the event is added before the rules are looked
\* at, and the window is counted anew for every rule).
THEOREM BurstsFire == Spec => []NoBurstMissed
BY FinishedFire, Invariant, PTL
=============================================================================
