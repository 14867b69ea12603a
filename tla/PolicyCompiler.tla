--------------------------- MODULE PolicyCompiler ---------------------------
(***************************************************************************)
(* The policy compiler of the control plane UI: what validateGraph rejects *)
(* and what the v1 and the v2 compiler make of a workflow graph.           *)
(*                                                                         *)
(* A graph is a record with a list of nodes [id, type, name, flag], a list *)
(* of edges <<source, target>> and the id of its entry node.  name is the  *)
(* stateName of a state; flag is isInitial of a state, and of a trigger    *)
(* whether it has the optional field that narrows it.  The other fields go *)
(* into a document as they are and are left out.  An exception is a result *)
(* with ok = FALSE.                                                        *)
(***************************************************************************)
EXTENDS Arrays, SequencesExt

Gates == {"any", "all"}

\* The types of which validateGraph wants an edge that leads on.  It knows the
\* fleet and backend triggers as little as the gates.
TriggerTypes ==
  {"event_match", "log_severity_match", "metric_threshold", "http_error_match",
   "crash_marker", "exception_pattern", "ui_freeze", "slow_operation", "frame_drop",
   "network_loss", "network_restored", "slow_request", "low_memory", "battery_drain",
   "thermal_throttling", "storage_low", "predictive_risk", "timeout_matcher"}

V1Actions == {"annotate_trigger", "flush_window", "set_sampling"}

-----------------------------------------------------------------------------
\* The vocabulary of v2: the type in the document for the type of a node.
Same(types) == [t \in types |-> t]

EventMatchers ==
  [log_severity_match |-> "log_severity", http_error_match |-> "http_match",
   crash_marker |-> "crash"]
    @@ Same({"event_match", "metric_threshold", "exception_pattern"})

PerformanceMatchers == Same({"ui_freeze", "slow_operation", "frame_drop"})

NetworkMatchers == Same({"network_loss", "network_restored", "slow_request"})

HealthMatchers ==
  [thermal_throttling |-> "thermal_throttle"]
    @@ Same({"low_memory", "battery_drain", "storage_low", "predictive_risk"})

TimeoutMatcher == [timeout_matcher |-> "timeout"]

FleetMatchers ==
  Same({"fleet_threshold", "fleet_rate", "fleet_absence", "fleet_correlation",
        "fleet_anomaly", "fleet_prediction", "fleet_root_cause"})

BackendMatchers == Same({"backend_health", "backend_deploy", "backend_capacity"})

Matchers ==
  EventMatchers @@ PerformanceMatchers @@ NetworkMatchers @@ HealthMatchers
    @@ TimeoutMatcher @@ FleetMatchers @@ BackendMatchers

\* The triggers with an optional field, which goes into the document if it is
\* there.
Narrowable ==
  {"event_match", "log_severity_match", "http_error_match", "exception_pattern",
   "network_loss", "network_restored", "slow_request", "timeout_matcher",
   "fleet_threshold"}

DeviceActions ==
  [annotate_trigger |-> "annotate", flush_window |-> "flush_buffer",
   adjust_config |-> "adjust_buffer"]
    @@ Same({"set_sampling", "send_alert"})

InsightActions ==
  Same({"emit_metric", "record_session", "create_funnel", "create_sankey",
        "take_screenshot"})

FleetActions ==
  Same({"fleet_flush", "fleet_set_sampling", "fleet_adjust_config",
        "fleet_screenshot", "fleet_client_circuit_break"})

ActionTypes == DOMAIN (DeviceActions @@ InsightActions @@ FleetActions)

-----------------------------------------------------------------------------
\* Lookups.  find yields the first node of an id; an edge may lead nowhere.
Ids(g) == {g.nodes[i].id : i \in DOMAIN g.nodes}

\* The ids a graph speaks of.
Places(g) == Ids(g) \cup UNION {{e[1], e[2]} : e \in ToSet(g.edges)}

NodeOf(g, id) == Filter(g.nodes, {n \in ToSet(g.nodes) : n.id = id})[1]

EndsOf(edges, end) == [i \in DOMAIN edges |-> edges[i][end]]
Targets(g, id) == EndsOf(Filter(g.edges, {e \in ToSet(g.edges) : e[1] = id}), 2)
Sources(g, id) == EndsOf(Filter(g.edges, {e \in ToSet(g.edges) : e[2] = id}), 1)

\* The nodes the given ids denote, without those that denote none.
Nodes(g, ids) ==
  LET known == Filter(ids, Ids(g))
  IN  [i \in DOMAIN known |-> NodeOf(g, known[i])]

States(g) == Filter(g.nodes, {n \in ToSet(g.nodes) : n.type = "state"})

-----------------------------------------------------------------------------
\* What a search has marked, and whether it has found a cycle.
Marks(g) == [visited : SUBSET Places(g), recStack : SUBSET Places(g), found : BOOLEAN]

\* Goes through ids in their order.  An id that was not visited is searched from;
\* a result that found a cycle is returned at once, as it is.
Through(search, ids, marks) ==
  LET after[i \in 0 .. Len(ids)] ==
        IF i = 0 THEN marks
        ELSE LET s == after[i - 1]
             IN  IF s.found THEN s
                 ELSE IF ids[i] \notin s.visited THEN search[ids[i]][s]
                 ELSE [s EXCEPT !.found = ids[i] \in s.recStack]
  IN  after[Len(ids)]

\* dfs, by the node it starts from and the marks it finds.
Dfs(g) ==
  LET dfs[here \in Places(g)] == [s \in Marks(g) |->
        LET entered == [s EXCEPT !.visited = @ \cup {here}, !.recStack = @ \cup {here}]
            left == Through(dfs, Targets(g, here), entered)
        IN  IF left.found THEN left ELSE [left EXCEPT !.recStack = @ \ {here}]]
  IN  dfs

Unmarked == [visited |-> {}, recStack |-> {}, found |-> FALSE]

\* Mutation: only the entry node is searched from.
HasCycleFromEntry(g) == Dfs(g)[g.entry][Unmarked].found

\* Searches from every node that no earlier search has reached.  Between two
\* searches nothing is on the stack.
HasCycle(g) == Through(Dfs(g), [i \in DOMAIN g.nodes |-> g.nodes[i].id], Unmarked).found

Initials(g) == Filter(States(g), {n \in ToSet(g.nodes) : n.flag})

\* Mutation: the states are not counted.
ValidatesAnyStates(g) ==
  /\ g.entry \in Ids(g)
  /\ ~HasCycle(g)
  /\ \A i \in DOMAIN g.edges : {g.edges[i][1], g.edges[i][2]} \subseteq Ids(g)

\* The graph has no errors.
Validates(g) ==
  /\ g.entry \in Ids(g)
  /\ ~HasCycle(g)
  /\ \A i \in DOMAIN g.edges : {g.edges[i][1], g.edges[i][2]} \subseteq Ids(g)
  /\ \A i \in DOMAIN g.nodes :
       g.nodes[i].type \in TriggerTypes => Targets(g, g.nodes[i].id) # <<>>
  /\ States(g) # <<>> =>
       /\ Len(Initials(g)) = 1
       /\ \A i \in DOMAIN States(g) :
            ~States(g)[i].flag => Sources(g, States(g)[i].id) # <<>>

-----------------------------------------------------------------------------
Thrown == [ok |-> FALSE]

Failed(results) == \E i \in DOMAIN results : ~results[i].ok

\* What a node asks for: the event it is named for, and what narrows that.
Event(n) == <<n.id, "event">>
Narrowing(n) == <<n.id, "narrowing">>

\* Mutation: the route is left out.
StatusOnly(n) == <<{Event(n)}>>

\* The conditions of an http_error_match, on the status and on the route.
HttpConditions(n) == <<{Event(n)}>> \o IF n.flag THEN <<{Narrowing(n)}>> ELSE <<>>

\* The condition of an event_match, which holds its predicates.
EventCondition(n) == {Event(n)} \cup IF n.flag THEN {Narrowing(n)} ELSE {}

\* buildTrigger of a node.  A condition is the set of what it asks for.  A gate
\* that is below itself recurses until the stack is full.
BuildTrigger(g, node) ==
  LET build[n \in ToSet(g.nodes), above \in SUBSET Ids(g)] ==
        CASE n.type = "event_match" ->
               [ok |-> TRUE, gate |-> "any", conditions |-> <<EventCondition(n)>>]
          [] n.type = "crash_marker" ->
               [ok |-> TRUE, gate |-> "any", conditions |-> <<{Event(n)}>>]
          [] n.type = "http_error_match" ->
               [ok |-> TRUE, gate |-> "all", conditions |-> HttpConditions(n)]
          [] n.type \in Gates /\ n.id \notin above ->
               LET children == Nodes(g, Targets(g, n.id))
                   built == [i \in DOMAIN children |-> build[children[i], above \cup {n.id}]]
               IN  IF Failed(built) THEN Thrown
                   ELSE [ok |-> TRUE, gate |-> n.type,
                         conditions |-> FlattenSeq([i \in DOMAIN built |-> built[i].conditions])]
          [] OTHER -> Thrown
  IN  build[node, {}]

\* nodeToAction and nodeToActionV2.
NodeToAction(n) == [node |-> n.id, type |-> n.type]

NodeToActionV2(n) ==
  [node |-> n.id, type |-> (DeviceActions @@ InsightActions @@ FleetActions)[n.type]]

\* The nodes of the given types on the way from the entry, each once.
Walk(g, types) ==
  LET trails == [visited : SUBSET Places(g), found : Seq(ToSet(g.nodes))]
      walk[id \in Places(g), s \in trails] ==
        LET Follow(t, target) == walk[target, t]
            here == [s EXCEPT !.visited = @ \cup {id},
                              !.found = IF id \in Ids(g) /\ NodeOf(g, id).type \in types
                                        THEN Append(@, NodeOf(g, id)) ELSE @]
        IN  IF id \in s.visited THEN s
            ELSE IF id \notin Ids(g) THEN here
            ELSE FoldLeft(Follow, here, Targets(g, id))
  IN  walk[g.entry, [visited |-> {}, found |-> <<>>]]

ActionNodes(g, types) == Walk(g, types).found

BuildActions(g) ==
  LET found == ActionNodes(g, V1Actions) IN [i \in DOMAIN found |-> NodeToAction(found[i])]

BuildActionsV2(g) ==
  LET found == ActionNodes(g, ActionTypes) IN [i \in DOMAIN found |-> NodeToActionV2(found[i])]

\* Mutation: a graph without its entry node is skipped.
CompileV1Leniently(g) ==
  IF g.entry \notin Ids(g) THEN [ok |-> TRUE, id |-> g.id]
  ELSE [ok |-> TRUE, id |-> g.id, actions |-> BuildActions(g)]

\* compileWorkflow.
CompileV1(g) ==
  IF g.entry \notin Ids(g) THEN Thrown
  ELSE LET trigger == BuildTrigger(g, NodeOf(g, g.entry))
       IN  IF ~trigger.ok THEN Thrown
           ELSE [ok |-> TRUE, id |-> g.id, trigger |-> trigger,
                 actions |-> BuildActions(g)]

-----------------------------------------------------------------------------
\* The matcher of a trigger.
Matcher(n) ==
  [combine |-> "none", node |-> n.id, type |-> Matchers[n.type],
   narrowed |-> n.type \in Narrowable /\ n.flag]

\* What a gate makes of the matchers of the nodes it leads to.
Gather(n, built) ==
  IF Failed(built) THEN Thrown
  ELSE [ok |-> TRUE,
        matchers |-> <<[combine |-> n.type,
                        children |-> FlattenSeq([i \in DOMAIN built |-> built[i].matchers])]>>]

\* nodeToMatcher: no matcher or one, in a list.
NodeToMatcher(g, node) ==
  LET matcher[n \in ToSet(g.nodes)] == [above \in SUBSET Ids(g) |->
        LET children == Nodes(g, Targets(g, n.id))
            built == [i \in DOMAIN children |-> matcher[children[i]][above \cup {n.id}]]
        IN  CASE n.type \in DOMAIN Matchers -> [ok |-> TRUE, matchers |-> <<Matcher(n)>>]
              [] n.type \in Gates /\ n.id \notin above -> Gather(n, built)
              [] n.type \in Gates /\ n.id \in above -> Thrown
              [] OTHER -> [ok |-> TRUE, matchers |-> <<>>]]
  IN  matcher[node][{}]

\* The name of the state that the first edge from one state to another leads
\* to, in a list; empty names count as none.
TransitionFrom(g, n) ==
  LET states == ToSet(States(g))
      after == Filter(Targets(g, n.id), {s.id : s \in states})
      name == Filter(States(g), {s \in states : s.id = after[1]})[1].name
  IN  IF after = <<>> \/ name = "" THEN <<>> ELSE <<name>>

ActionsAfter(g, n) ==
  LET after == Filter(Nodes(g, Targets(g, n.id)), {m \in ToSet(g.nodes) : m.type \in ActionTypes})
  IN  [i \in DOMAIN after |-> NodeToActionV2(after[i])]

\* One state of compileMultiStateFSM.  Of several timeouts the last one counts.
CompileState(g, n) ==
  LET into == Nodes(g, Sources(g, n.id))
      timeouts == Filter(into, {m \in ToSet(g.nodes) : m.type = "timeout_matcher"})
      events == Filter(into, {m \in ToSet(g.nodes) : m.type \notin {"state", "timeout_matcher"}})
      built == [i \in DOMAIN events |-> NodeToMatcher(g, events[i])]
      result == [actions |-> ActionsAfter(g, n), transition |-> TransitionFrom(g, n)]
  IN  IF Failed(built) THEN Thrown
      ELSE [ok |-> TRUE, id |-> n.name,
            matchers |-> FlattenSeq([i \in DOMAIN built |-> built[i].matchers]),
            onMatch |-> result,
            onTimeout |-> IF timeouts = <<>> THEN <<>>
                          ELSE <<[after |-> Last(timeouts).id, do |-> result]>>]

\* compileWorkflowV2.
CompileV2(g) ==
  IF States(g) # <<>>
  THEN LET states == [i \in DOMAIN States(g) |-> CompileState(g, States(g)[i])]
       IN  IF Initials(g) = <<>> \/ Failed(states) THEN Thrown
           ELSE [ok |-> TRUE, id |-> g.id, initial |-> Initials(g)[1].name, states |-> states]
  ELSE IF g.entry \notin Ids(g) THEN Thrown
  ELSE LET built == NodeToMatcher(g, NodeOf(g, g.entry))
           result == [actions |-> BuildActionsV2(g), transition |-> <<>>]
       IN  IF ~built.ok THEN Thrown
           ELSE [ok |-> TRUE, id |-> g.id, initial |-> "default",
                 states |-> <<[ok |-> TRUE, id |-> "default", matchers |-> built.matchers,
                               onMatch |-> result, onTimeout |-> <<>>]>>]

-----------------------------------------------------------------------------
\* compileGraphToDSL and compileGraphToDSLv2 of a list of graphs.
CompileAllV1(graphs) ==
  LET built == [i \in DOMAIN graphs |-> CompileV1(graphs[i])]
  IN  IF Failed(built) THEN Thrown ELSE [ok |-> TRUE, workflows |-> built]

CompileAllV2(graphs) ==
  LET drawn == Filter(graphs, {g \in ToSet(graphs) : g.nodes # <<>>})
      built == [i \in DOMAIN drawn |-> CompileV2(drawn[i])]
  IN  IF Failed(built) THEN Thrown ELSE [ok |-> TRUE, workflows |-> built]
=============================================================================
