---------------------------- MODULE PolicyMeaning ---------------------------
(***************************************************************************)
(* What the two dialects of a policy mean to the devices that read them:   *)
(* on which facts they act, and what they do.                              *)
(***************************************************************************)
EXTENDS PolicyGraphs

\* All that the nodes of the graph can ask for.
AllFacts ==
  UNION {{Event(graph.nodes[i]), Narrowing(graph.nodes[i])} : i \in DOMAIN graph.nodes}

\* A v1 trigger holds when the facts do.
TriggerHolds(t, facts) ==
  IF t.gate = "any" THEN \E i \in DOMAIN t.conditions : t.conditions[i] \subseteq facts
                    ELSE \A i \in DOMAIN t.conditions : t.conditions[i] \subseteq facts

\* A v2 matcher matches when the facts hold; the matchers of a state, all of
\* them, are an implicit AND.
RECURSIVE Matches(_, _)
Matches(m, facts) ==
  CASE m.combine = "none" ->
         /\ <<m.node, "event">> \in facts
         /\ m.narrowed => <<m.node, "narrowing">> \in facts
    [] m.combine = "any" -> \E i \in DOMAIN m.children : Matches(m.children[i], facts)
    [] m.combine = "all" -> \A i \in DOMAIN m.children : Matches(m.children[i], facts)

\* The gates below the entry agree: v1 has one mode for all of a trigger, and
\* a request condition with a route is itself an AND.
OneMode ==
  LET below == {graph.entry} \cup After(graph.entry, ToSet(graph.edges))
      nodes == {NodeOf(graph, id) : id \in below \cap Ids(graph)}
      modes == {n.type : n \in nodes} \cap Gates
  IN  \/ modes \in {{}, {"all"}}
      \/ modes = {"any"} /\ \A n \in nodes : n.type = "http_error_match" => ~n.flag

\* The v1 actions under the names of v2.
Renamed == [annotate_trigger |-> "annotate", flush_window |-> "flush_buffer",
            set_sampling |-> "set_sampling"]

\* Devices that read v1 and devices that read v2 do the same: a graph without
\* states that compiles to v1 compiles to v2, with the same actions in the same
\* order besides those that v1 does not know, on the same facts.  Graphs that
\* mix AND and OR are left out of the last: v1 flattens them.
SameMeaning ==
  LET v1 == CompileV1(graph)
      v2 == CompileV2(graph)
      known == SelectSeq(v2.states[1].onMatch.actions,
                         LAMBDA a : NodeOf(graph, a.node).type \in DOMAIN Renamed)
  IN  States(graph) = <<>> /\ v1.ok =>
        /\ v2.ok
        /\ known = [i \in DOMAIN v1.actions |->
                      [node |-> v1.actions[i].node, type |-> Renamed[v1.actions[i].type]]]
        /\ OneMode =>
             \A facts \in SUBSET AllFacts :
               TriggerHolds(v1.trigger, facts)
                 <=> \A i \in DOMAIN v2.states[1].matchers :
                       Matches(v2.states[1].matchers[i], facts)
=============================================================================
