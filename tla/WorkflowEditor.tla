--------------------------- MODULE WorkflowEditor ---------------------------
(***************************************************************************)
(* The workflow builder of the control plane UI.  App keeps the list of    *)
(* workflows and which one is selected; WorkflowBuilder keeps the nodes    *)
(* and edges of the canvas, which it copies from the selected workflow     *)
(* when it is mounted and never again.  Its handlers report what they read *)
(* from the last rendering, so that of a removal they report the canvas as *)
(* it was before.                                                          *)
(*                                                                         *)
(* The requests that save a workflow are sent and forgotten: nothing the   *)
(* UI does depends on their answer, and they are not part of the state.    *)
(***************************************************************************)
EXTENDS PolicyCompiler

CONSTANTS
  Default,   \* defaultWorkflow
  Lists,     \* what the gateway may answer to listWorkflows
  NewIds,    \* the ids handleCreateWorkflow may take from the clock
  Templates, \* types of the palette
  NodeIds,   \* the ids of dropped nodes: node_1000, node_1001, ... (bound: no more
             \* nodes are dropped while the builder is mounted)
  MaxNodes,  \* nothing is dropped on a canvas with this many nodes (bound)
  MaxEdges,  \* nothing is connected on a canvas with this many edges (bound)
  MaxEdits,  \* how often nodes and edges are added or removed (bound)
  MaxLength, \* no workflow is created when there are this many (bound)
  MaxDeletes \* delete requests under way at a time (bound)

Nothing == "nothing"

IsWorkflow(w) ==
  /\ DOMAIN w = {"id", "nodes", "edges", "entry"} /\ w.id # Nothing
  /\ w.nodes \in Seq(ToSet(w.nodes)) /\ w.edges \in Seq(ToSet(w.edges))

\* The id of a workflow is a primary key.
IsList(list) ==
  /\ list \in Seq(ToSet(list)) /\ \A w \in ToSet(list) : IsWorkflow(w)
  /\ \A i, j \in DOMAIN list : list[i].id = list[j].id => i = j

ASSUME ListsAssumption == \A list \in Lists \cup {<<Default>>} : IsList(list)
ASSUME NewIdsAssumption == Nothing \notin NewIds

VARIABLES
  workflows,     \* the list
  selected,      \* selectedWorkflowId
  asked,         \* listWorkflows has not been answered
  deleting,      \* delete requests: <<id, the selected id when it was sent>>
  shown,         \* the builder tab is open
  nodes, edges,  \* the canvas
  nodeIdCounter, \* which of NodeIds is next
  edits,         \* how often nodes and edges were added or removed
  origin         \* history: the workflow the canvas shows, as far as it follows it

editorVars == <<workflows, selected, asked, deleting, shown, nodes, edges, nodeIdCounter,
          edits, origin>>

appVars == <<workflows, selected, asked, deleting>>
canvasVars == <<nodes, edges, nodeIdCounter, edits>>

NewNode(n, type) == [id |-> NodeIds[n], type |-> type, name |-> "", flag |-> FALSE]

WorkflowIds == {workflows[i].id : i \in DOMAIN workflows}

\* selectedWorkflow.
Selected ==
  IF selected \in WorkflowIds
  THEN Filter(workflows, {w \in ToSet(workflows) : w.id = selected})[1]
  ELSE Default

EditorInit ==
  /\ workflows = <<Default>>
  /\ selected = Default.id
  /\ asked = TRUE
  /\ deleting = {}
  /\ shown = TRUE
  /\ nodes = Default.nodes
  /\ edges = Default.edges
  /\ nodeIdCounter = 1
  /\ edits = 0
  /\ origin = Default.id

-----------------------------------------------------------------------------
\* The list of workflows.

\* The gateway answers listWorkflows, or the request fails.
Load ==
  /\ asked
  /\ asked' = FALSE
  /\ \/ \E list \in Lists \ {<<>>} :
          workflows' = list /\ selected' = list[1].id /\ origin' = Nothing
     \/ UNCHANGED <<workflows, selected, origin>>
  /\ UNCHANGED <<deleting, shown, canvasVars>>

\* What the canvas follows after id has become the selected workflow.
Follows(id) == IF id = origin THEN origin ELSE Nothing

Select(id) ==
  /\ shown
  /\ selected' = id
  /\ origin' = Follows(id)
  /\ UNCHANGED <<workflows, asked, deleting, shown, canvasVars>>

\* handleCreateWorkflow, when the gateway has answered.
Create(id) ==
  /\ id \notin WorkflowIds /\ Len(workflows) < MaxLength
  /\ workflows' = Append(workflows, [id |-> id, nodes |-> <<>>, edges |-> <<>>, entry |-> Nothing])
  /\ selected' = id
  /\ origin' = Nothing
  /\ UNCHANGED <<asked, deleting, shown, canvasVars>>

\* handleDeleteWorkflow sends the request ...
Delete(id) ==
  /\ shown /\ Len(workflows) > 1 /\ Cardinality(deleting) < MaxDeletes
  /\ deleting' = deleting \cup {<<id, selected>>}
  /\ UNCHANGED <<workflows, selected, asked, shown, canvasVars, origin>>

\* ... and goes on with the answer, knowing the selection of the time it was
\* sent.  On a failure nothing is changed.
Deleted(d) ==
  LET remaining == Filter(workflows, {w \in ToSet(workflows) : w.id # d[1]})
  IN  /\ deleting' = deleting \ {d}
      /\ \/ /\ workflows' = remaining
            /\ selected' = IF d[2] = d[1] /\ remaining # <<>> THEN remaining[1].id ELSE selected
            /\ origin' = IF d[1] = origin THEN Nothing ELSE Follows(selected')
         \/ UNCHANGED <<workflows, selected, origin>>
      /\ UNCHANGED <<asked, shown, canvasVars>>

\* Another tab is opened, which unmounts the builder ...
LeaveBuilder ==
  /\ shown
  /\ shown' = FALSE
  /\ UNCHANGED <<appVars, canvasVars, origin>>

\* ... and the builder tab again, which mounts it.
ReturnToBuilder ==
  /\ ~shown
  /\ shown' = TRUE
  /\ nodes' = Selected.nodes
  /\ edges' = Selected.edges
  /\ nodeIdCounter' = 1
  /\ UNCHANGED edits
  /\ origin' = IF selected \in WorkflowIds THEN selected ELSE Nothing
  /\ UNCHANGED appVars

-----------------------------------------------------------------------------
\* The canvas.

\* handleWorkflowChange with the selected workflow, of which the nodes or the
\* edges have been replaced.
OnChange(changed) ==
  workflows' = [i \in DOMAIN workflows |->
                  IF workflows[i].id = changed.id THEN changed ELSE workflows[i]]

OnChangeNodes(reported) == OnChange([Selected EXCEPT !.nodes = reported])
OnChangeEdges(reported) == OnChange([Selected EXCEPT !.edges = reported])

\* The edit is one of the first MaxEdits.
Count == edits < MaxEdits /\ edits' = edits + 1

listVars == <<selected, asked, deleting, shown, origin>>

\* A node is selected, moved or measured.
NodeEvent ==
  /\ shown /\ nodes # <<>>
  /\ OnChangeNodes(nodes)
  /\ UNCHANGED <<listVars, canvasVars>>

EdgeEvent ==
  /\ shown /\ edges # <<>>
  /\ OnChangeEdges(edges)
  /\ UNCHANGED <<listVars, canvasVars>>

\* onConnect.  addEdge does not add an edge the canvas has.
Connect(source, target) ==
  LET edge == <<source, target>>
  IN  /\ shown /\ Count /\ Len(edges) < MaxEdges
      /\ edges' = IF edge \in ToSet(edges) THEN edges ELSE Append(edges, edge)
      /\ OnChangeEdges(Append(edges, edge))
      /\ UNCHANGED <<listVars, nodes, nodeIdCounter>>

\* Mutation: the new node is not reported.
DropUnreported(type) ==
  LET node == NewNode(nodeIdCounter, type)
  IN  /\ shown /\ Count /\ Len(nodes) < MaxNodes /\ nodeIdCounter <= Len(NodeIds)
      /\ nodes' = Append(nodes, node)
      /\ nodeIdCounter' = nodeIdCounter + 1
      /\ OnChangeNodes(nodes)
      /\ UNCHANGED <<listVars, edges>>

\* onDrop.
Drop(type) ==
  LET node == NewNode(nodeIdCounter, type)
  IN  /\ shown /\ Count /\ Len(nodes) < MaxNodes /\ nodeIdCounter <= Len(NodeIds)
      /\ nodes' = Append(nodes, node)
      /\ nodeIdCounter' = nodeIdCounter + 1
      /\ OnChangeNodes(Append(nodes, node))
      /\ UNCHANGED <<listVars, edges>>

RemoveEdge(edge) ==
  /\ shown /\ Count
  /\ edges' = Filter(edges, ToSet(edges) \ {edge})
  /\ OnChangeEdges(edges)
  /\ UNCHANGED <<listVars, nodes, nodeIdCounter>>

\* A node is removed, after its edges.  Both handlers report to the workflow of
\* the last rendering, so that the second report undoes the first.
RemoveNode(id) ==
  /\ shown /\ Count
  /\ edges' = Filter(edges, {e \in ToSet(edges) : id \notin {e[1], e[2]}})
  /\ nodes' = Filter(nodes, {n \in ToSet(nodes) : n.id # id})
  /\ OnChangeNodes(nodes)
  /\ UNCHANGED <<listVars, nodeIdCounter>>

-----------------------------------------------------------------------------
\* The workflows of a document.
Titles(document) == [i \in DOMAIN document.workflows |-> document.workflows[i].id]

\* handlePublish, in one click: the selected workflow is validated and all are
\* compiled.  The request changes nothing here but the list of versions, which
\* the gateway answers.
Publishes ==
  /\ shown
  /\ Validates(Selected)
  /\ CompileAllV1(workflows).ok /\ CompileAllV2(workflows).ok

Edit ==
  \/ NodeEvent \/ EdgeEvent
  \/ \E n, m \in {nodes[i].id : i \in DOMAIN nodes} : Connect(n, m)
  \/ \E type \in Templates : Drop(type)
  \/ \E e \in ToSet(edges) : RemoveEdge(e)
  \/ \E n \in ToSet(nodes) : RemoveNode(n.id)

EditorNext ==
  \/ Load
  \/ \E id \in WorkflowIds : Select(id) \/ Delete(id)
  \/ \E id \in NewIds : Create(id)
  \/ \E d \in deleting : Deleted(d)
  \/ LeaveBuilder \/ ReturnToBuilder
  \/ Edit

EditorSpec == EditorInit /\ [][EditorNext]_editorVars
-----------------------------------------------------------------------------
\* While the canvas shows the selected workflow since it was mounted, no edit
\* of it is lost: whatever is on the canvas is in the workflow that is saved
\* and published.  (Not the reverse: what a removal leaves is reported late.)
NothingDrawnIsLost ==
  shown /\ origin = selected =>
    /\ ToSet(nodes) \subseteq ToSet(Selected.nodes)
    /\ ToSet(edges) \subseteq ToSet(Selected.edges)

\* Whenever publishing succeeds, its two documents hold the same workflows in
\* the same order: v2 skips the empty ones, and v1 fails on them.
DialectsCoverTheSame ==
  Publishes => Titles(CompileAllV1(workflows)) = Titles(CompileAllV2(workflows))

=============================================================================
