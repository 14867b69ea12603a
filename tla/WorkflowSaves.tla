--------------------------- MODULE WorkflowSaves ---------------------------
(***************************************************************************)
(* The workflows of the builder page and the table they are saved in.  The *)
(* page asks for the list once, saves every change of a workflow with a    *)
(* request of its own and does not wait for it; a workflow is created or   *)
(* deleted on the page when the gateway has answered.  The gateway serves  *)
(* a request statement by statement, at the same time as others, and may   *)
(* be told to stop: then main closes the databases and exits while         *)
(* requests are still being served.                                        *)
(*                                                                         *)
(* A workflow's name, flag and graph are one datum, the number of the save *)
(* that carries them: the page always sends all three.  The order of the   *)
(* list, by a time in seconds, is left open.                               *)
(***************************************************************************)
EXTENDS Naturals, FiniteSets, Functions

CONSTANTS
  Default,    \* the workflow the page starts with, which nobody has created
  Ids,        \* the ids of the others, in the table or yet to be created
  MaxSent,    \* calls that are ever made (bound)
  MaxLost,    \* calls being served nobody waits for (bound)
  MaxStarts   \* times the gateway is started again (bound)

ASSUME DefaultNotCreated == Default \notin Ids

VARIABLES
  rows,     \* the table workflows: the saved state of each id
  process,  \* "up", "closed" (the databases are) or "down"
  starts,   \* how often it was started again
  shown,    \* the page: workflows
  selected, \* the page: selectedWorkflowId
  calls,    \* the calls that the page awaits or the gateway still serves
  sent,     \* how many there were
  deleted,  \* history: ids a DELETE was executed for
  refused,  \* history: ids a save was refused for as not found
  astray    \* history: ids the page need not show as they are saved

table == <<rows, process, starts>>
pageVars == <<shown, selected>>
vars == <<table, pageVars, calls, sent, deleted, refused, astray>>

\* A call: n numbers saves and deletions, at is how far the gateway is with it,
\* awaited whether the page still waits, selection the workflow that was selected
\* when a deletion was sent.
NewCall(op, id) ==
  [n |-> IF op \in {"update", "delete"} THEN sent + 1 ELSE 0,
   op |-> op, id |-> id, at |-> "sent", awaited |-> TRUE,
   selection |-> IF op = "delete" THEN selected ELSE id, list |-> <<>>]

Send(op, id) ==
  /\ sent < MaxSent /\ sent' = sent + 1
  /\ calls' = calls \cup {NewCall(op, id)}

Move(call, at) == calls' = (calls \ {call}) \cup {[call EXCEPT !.at = at]}

\* A list with one workflow less, and with one more unless it is there already.
Without(list, id) == Restrict(list, DOMAIN list \ {id})

With(list, id) ==
  [i \in DOMAIN list \cup {id} |-> IF i \in DOMAIN list THEN list[i] ELSE 0]

OnlyDefault == [i \in {Default} |-> 0]

Init ==
  /\ rows \in {[id \in saved |-> 0] : saved \in SUBSET (Ids \cup {Default})}
  /\ process = "up" /\ starts = 0
  /\ shown = OnlyDefault /\ selected = Default
  /\ sent = 0 /\ calls = {NewCall("list", Default)}
  /\ deleted = {} /\ refused = {} /\ astray = {Default}

-----------------------------------------------------------------------------
\* The page.

Select(id) ==
  /\ id # selected /\ selected' = id
  /\ UNCHANGED <<table, shown, calls, sent, deleted, refused, astray>>

\* selectedWorkflow: the default one if the selected one is not in the list.
Current == IF selected \in DOMAIN shown THEN selected ELSE Default

\* handleWorkflowChange.
Change ==
  /\ Send("update", Current)
  /\ shown' = [id \in DOMAIN shown |-> IF id = Current THEN sent' ELSE shown[id]]
  /\ astray' = astray \ {Current}
  /\ UNCHANGED <<table, selected, deleted, refused>>

\* Mutation: the new workflow is shown at once.
CreateAtOnce(id) ==
  /\ id \notin deleted \cup DOMAIN rows \cup DOMAIN shown /\ Send("create", id)
  /\ shown' = With(shown, id) /\ selected' = id
  /\ UNCHANGED <<table, deleted, refused, astray>>

\* handleCreateWorkflow, whose id is made of the time: it is new.
Create(id) ==
  /\ id \notin deleted \cup DOMAIN rows \cup {call.id : call \in calls}
  /\ Send("create", id)
  /\ UNCHANGED <<table, pageVars, deleted, refused, astray>>

\* handleDeleteWorkflow: the last workflow has no button.
Delete(id) ==
  /\ Cardinality(DOMAIN shown) > 1
  /\ Send("delete", id)
  /\ UNCHANGED <<table, pageVars, deleted, refused, astray>>

\* listWorkflows is answered.  A workflow that was changed since it was read, or is
\* being changed, may not be shown as it is saved.
ShowList(call) ==
  /\ IF call.list = <<>> THEN UNCHANGED pageVars
     ELSE shown' = call.list /\ selected' \in DOMAIN call.list
  /\ astray' =
       IF call.list = <<>> THEN astray
       ELSE {id \in DOMAIN call.list : \/ id \notin DOMAIN rows \/ rows[id] # call.list[id]
                                       \/ \E c \in calls : c.id = id /\ c.op # "list"}

\* A list that came before this answer may have it already; then it is in the list
\* twice, and the first entry, which is the one that counts, is the one of the list.
ShowCreated(call) ==
  /\ shown' = With(shown, call.id) /\ selected' = call.id
  /\ astray' = IF call.id \in deleted THEN astray \cup {call.id} ELSE astray

\* The selection moves on if the deleted workflow was selected when the button was
\* pressed, whatever is selected now.
ShowDeleted(call) ==
  /\ shown' = Without(shown, call.id)
  /\ IF call.selection = call.id /\ DOMAIN shown' # {}
     THEN selected' \in DOMAIN shown' ELSE UNCHANGED selected
  /\ UNCHANGED astray

\* A call is answered with success, and the page goes on.  It takes no notice of
\* the answer to a save.
Answer(call) ==
  /\ call.at = "done"
  /\ IF ~call.awaited THEN UNCHANGED <<pageVars, astray>>
     ELSE \/ call.op = "list" /\ ShowList(call)
          \/ call.op = "create" /\ ShowCreated(call)
          \/ call.op = "delete" /\ ShowDeleted(call)
  /\ calls' = calls \ {call}
  /\ UNCHANGED <<table, sent, deleted, refused>>

\* What failed may leave the page with something else than the table.
Misses(call) == astray' = astray \cup (IF call.op = "list" THEN {} ELSE {call.id})

\* The connection breaks: the page sees a failure, the gateway goes on.
Lose(call) ==
  /\ call.awaited /\ call.op # "update" /\ Cardinality({c \in calls : ~c.awaited}) < MaxLost
  /\ calls' = (calls \ {call}) \cup {[call EXCEPT !.awaited = FALSE]}
  /\ Misses(call)
  /\ UNCHANGED <<table, pageVars, sent, deleted, refused>>

-----------------------------------------------------------------------------
\* The gateway.

\* A request or a statement fails, or the process is gone.
Fail(call) ==
  /\ calls' = calls \ {call}
  /\ Misses(call)
  /\ UNCHANGED <<table, pageVars, sent, deleted, refused>>

\* A statement is executed: the database is open.
Executes(call, at) == call.at = at /\ process = "up"

ServeList(call) ==
  /\ call.op = "list" /\ Executes(call, "sent")
  /\ calls' = (calls \ {call}) \cup {[[call EXCEPT !.at = "done"] EXCEPT !.list = rows]}
  /\ UNCHANGED <<table, pageVars, sent, deleted, refused, astray>>

\* HandleCreateWorkflow; id is the primary key.
Insert(call) ==
  /\ call.op = "create" /\ Executes(call, "sent") /\ call.id \notin DOMAIN rows
  /\ rows' = With(rows, call.id)
  /\ Move(call, "done")
  /\ UNCHANGED <<process, starts, pageVars, sent, deleted, refused, astray>>

\* HandleUpdateWorkflow: the row is read and merged with the request, written,
\* and read again.  Not found is an answer only to the first read.
Read(call) ==
  /\ call.op = "update" /\ Executes(call, "sent")
  /\ IF call.id \in DOMAIN rows THEN Move(call, "read") /\ UNCHANGED <<refused, astray>>
     ELSE /\ calls' = calls \ {call}
          /\ refused' = refused \cup {call.id}
          /\ Misses(call)
  /\ UNCHANGED <<table, pageVars, sent, deleted>>

\* Mutation: a workflow that is not there any more is inserted.
Upsert(call) ==
  /\ call.op = "update" /\ Executes(call, "read")
  /\ rows' = [With(rows, call.id) EXCEPT ![call.id] = call.n]
  /\ Move(call, "written")
  /\ UNCHANGED <<process, starts, pageVars, sent, deleted, refused, astray>>

\* Mutation: an error of the statement is not looked at.
WriteUnchecked(call) ==
  /\ call.op = "update" /\ call.at = "read" /\ process # "down"
  /\ rows' = IF process # "closed" /\ call.id \in DOMAIN rows THEN [rows EXCEPT ![call.id] = call.n] ELSE rows
  /\ calls' = calls \ {call}
  /\ astray' = IF call.id \in DOMAIN rows /\ rows[call.id] > call.n THEN astray \cup {call.id} ELSE astray
  /\ UNCHANGED <<process, starts, pageVars, sent, deleted, refused>>

Write(call) ==
  /\ call.op = "update" /\ Executes(call, "read")
  /\ IF call.id \in DOMAIN rows
     THEN /\ rows' = [rows EXCEPT ![call.id] = call.n]
          /\ astray' = IF rows[call.id] > call.n THEN astray \cup {call.id} ELSE astray
     ELSE UNCHANGED <<rows, astray>>
  /\ Move(call, "written")
  /\ UNCHANGED <<process, starts, pageVars, sent, deleted, refused>>

ReadAgain(call) ==
  /\ call.op = "update" /\ Executes(call, "written")
  /\ calls' = calls \ {call}
  /\ UNCHANGED <<table, pageVars, sent, deleted, refused, astray>>

\* HandleDeleteWorkflow: success also if there is no such row.  The page does not
\* learn of it when it no longer waits.
Remove(call) ==
  /\ call.op = "delete" /\ Executes(call, "sent")
  /\ rows' = Without(rows, call.id)
  /\ deleted' = deleted \cup {call.id}
  /\ astray' = IF call.awaited THEN astray ELSE astray \cup {call.id}
  /\ Move(call, "done")
  /\ UNCHANGED <<process, starts, pageVars, sent, refused>>

\* SIGINT or SIGTERM: ListenAndServe returns at once, and the deferred calls of main
\* close the databases.  Nothing waits for the requests, and the time limit of
\* Shutdown matters to nobody.  New connections are refused, which Fail covers.
Stop ==
  /\ process = "up" /\ process' = "closed"
  /\ UNCHANGED <<rows, starts, pageVars, calls, sent, deleted, refused, astray>>

\* The process exits, as the last step of main or because it is killed: what it
\* was serving fails.  Answers under way still arrive.
Exit ==
  /\ process # "down" /\ process' = "down"
  /\ calls' = {call \in calls : call.at = "done"}
  /\ astray' = astray \cup {call.id : call \in {c \in calls : c.at # "done" /\ c.op # "list"}}
  /\ UNCHANGED <<rows, starts, pageVars, sent, deleted, refused>>

Start ==
  /\ process = "down" /\ starts < MaxStarts
  /\ process' = "up" /\ starts' = starts + 1
  /\ UNCHANGED <<rows, pageVars, calls, sent, deleted, refused, astray>>

Next ==
  \/ \E id \in DOMAIN shown : Select(id) \/ Delete(id)
  \/ Change
  \/ \E id \in Ids : Create(id)
  \/ \E call \in calls :
       \/ Answer(call) \/ Lose(call) \/ Fail(call)
       \/ ServeList(call) \/ Insert(call) \/ Remove(call)
       \/ Read(call) \/ Write(call) \/ ReadAgain(call)
  \/ Stop \/ Exit \/ Start

Spec == Init /\ [][Next]_vars
-----------------------------------------------------------------------------
\* A deleted workflow stays deleted, whatever saves of it are still under way, and
\* also when the gateway stops and starts again in between.
DeletedStaysDeleted == deleted \cap DOMAIN rows = {}

\* A save is refused only for a workflow that was deleted, or for the one the page
\* starts with: it shows that one without anybody having created it.
RefusedOnlyGone == refused \subseteq deleted \cup {Default}

\* Once nothing is under way for a workflow, the page shows it as it is saved,
\* although the saves were sent without waiting and the gateway may have been
\* stopped meanwhile.  Excepted are workflows whose last save or deletion failed
\* (the page says nothing about a save), was overwritten by an older save that
\* arrived after it, that came with a list while they were being changed, or whose
\* creation was answered after their deletion.
SettledAsSaved ==
  \A id \in DOMAIN shown \ astray :
    (\A call \in calls : call.id # id) =>
      id \in DOMAIN rows /\ rows[id] = shown[id]
=============================================================================
