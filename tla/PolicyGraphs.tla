---------------------------- MODULE PolicyGraphs ----------------------------
(***************************************************************************)
(* What the policy compiler promises, over every graph that can be drawn   *)
(* edge by edge between given nodes, in every order.                       *)
(***************************************************************************)
EXTENDS PolicyCompiler

CONSTANTS
  Palettes, \* what a graph is drawn of: a list of nodes, the first of which is the entry,
            \* and ids of no node, for an edge may still lead to a node that is gone
  MaxDrawn  \* a graph has no more edges (bound)

\* A palette has a first node.
ASSUME PalettesAssumption ==
  \A palette \in Palettes : palette.nodes \in Seq(ToSet(palette.nodes)) \ {<<>>}

VARIABLE graph

GraphInit ==
  \E palette \in Palettes :
    graph = [id |-> "w", nodes |-> palette.nodes, edges |-> <<>>, entry |-> palette.nodes[1].id,
             gone |-> palette.gone]

\* onConnect.  An edge that is there is not drawn again, but it is reported again.
Draw(source, target) ==
  /\ Len(graph.edges) < MaxDrawn /\ IsInjective(graph.edges)
  /\ graph' = [graph EXCEPT !.edges = Append(@, <<source, target>>)]

GraphNext == \E source \in Ids(graph), target \in Ids(graph) \cup graph.gone : Draw(source, target)

GraphSpec == GraphInit /\ [][GraphNext]_graph
-----------------------------------------------------------------------------
\* What the pairs of a relation lead to from x, in one step or more.
After(x, pairs) ==
  LET Step(s) == {p[2] : p \in {q \in pairs : q[1] \in s}}
      Further(s) == s \cup Step(s)
      Reach[n \in 0 .. Cardinality(pairs)] == IF n = 0 THEN Step({x}) ELSE Further(Reach[n - 1])
  IN  Reach[Cardinality(pairs)]

\* hasCycle, a search that marks nodes once for all and stops half way, finds
\* a cycle exactly if some node lies on one, in whatever order the edges were
\* drawn and whichever node is the entry.
CycleCheckExact ==
  HasCycle(graph) <=> \E id \in Ids(graph) : id \in After(id, ToSet(graph.edges))

\* The transitions of a compiled machine.
Moves(v2) ==
  {<<v2.states[i].id, v2.states[i].onMatch.transition[1]>> :
     i \in {j \in DOMAIN v2.states : v2.states[j].onMatch.transition # <<>>}}

\* What validateGraph accepts the v2 compiler compiles: it finds the entry or
\* the initial state, and no gate is below itself.  The machine starts in one
\* of its states and, if no two of them have the same name, never leads a
\* device back to a state it has left, also where the states on a cycle of edges
\* are off the entry.
ValidatedCompiles ==
  LET v2 == CompileV2(graph)
      names == {v2.states[i].id : i \in DOMAIN v2.states}
      unique == \A i, j \in DOMAIN v2.states : v2.states[i].id = v2.states[j].id => i = j
  IN  Validates(graph) =>
        /\ v2.ok
        /\ {v2.initial} \cup {m[2] : m \in Moves(v2)} \subseteq names
        /\ unique => \A name \in names : name \notin After(name, Moves(v2))
=============================================================================
