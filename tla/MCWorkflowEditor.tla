-------------------------- MODULE MCWorkflowEditor --------------------------
(* The workflow the UI starts with, and a gateway that has none or another.   *)
EXTENDS WorkflowEditor

Node(id, type) == [id |-> id, type |-> type, name |-> "", flag |-> FALSE]

MCDefault ==
  [id |-> "ui-freeze", entry |-> "trigger-1",
   nodes |-> <<Node("trigger-1", "event_match"), Node("action-1", "flush_window")>>,
   edges |-> << <<"trigger-1", "action-1">> >>]
MCNodeIds == <<"node_1000">>
MCLists ==
  {<<>>,
   <<[id |-> "stored", entry |-> "t", nodes |-> <<Node("t", "crash_marker"), Node("a", "set_sampling")>>,
      edges |-> << <<"t", "a">> >>]>>}
=============================================================================
