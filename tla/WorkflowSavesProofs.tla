------------------------ MODULE WorkflowSavesProofs ------------------------
(***************************************************************************)
(* Nothing deleted comes back, no save is refused for a workflow that is   *)
(* there, and a settled page shows what is saved, for any number of        *)
(* workflows, calls, lost connections and starts of the gateway.  The      *)
(* first two are not inductive: what the page shows and what it asks for   *)
(* must be known to the table, now or once, so that only a creation under  *)
(* way can bring an id the table has never had, and no two creations bring *)
(* the same.  The third needs to be told what is still to come for a       *)
(* workflow that something is under way for.                               *)
(***************************************************************************)
EXTENDS WorkflowSaves, TLAPS

\* The ids the table has or has had, and the one of the default workflow.
Known == DOMAIN rows \cup deleted \cup {Default}

\* A creation the gateway has not executed.
Pending(call) == call.op = "create" /\ call.at = "sent"

\* A call has the fields NewCall gives it.
Shaped(call) ==
  call = [n |-> call.n, op |-> call.op, id |-> call.id, at |-> call.at,
          awaited |-> call.awaited, selection |-> call.selection, list |-> call.list]

\* The page knows, and asks for, nothing the table has never had.
CallKnown(call) ==
  /\ Shaped(call)
  /\ DOMAIN call.list \subseteq Known
  /\ Pending(call) <=> call.id \notin Known

\* A creation under way is the only one of its id.
CreatedOnce ==
  \A c, d \in calls : Pending(c) /\ Pending(d) /\ c.id = d.id => c = d

IInv ==
  /\ DOMAIN shown \subseteq Known
  /\ \A call \in calls : CallKnown(call)
  /\ CreatedOnce
  /\ DeletedStaysDeleted
  /\ RefusedOnlyGone

-----------------------------------------------------------------------------
\* What a new call looks like.
LEMMA NewCallFields ==
  ASSUME NEW op, NEW id
  PROVE  /\ Shaped(NewCall(op, id))
         /\ NewCall(op, id).op = op /\ NewCall(op, id).id = id
         /\ NewCall(op, id).at = "sent" /\ NewCall(op, id).list = <<>>
         /\ NewCall(op, id).n = IF op \in {"update", "delete"} THEN sent + 1 ELSE 0
BY DEF NewCall, Shaped

\* What moving a call leaves as it is.
LEMMA MovedFields ==
  ASSUME NEW call, Shaped(call), NEW at
  PROVE  LET moved == [call EXCEPT !.at = at]
         IN  /\ Shaped(moved)
             /\ moved.op = call.op /\ moved.id = call.id
             /\ moved.at = at /\ moved.list = call.list
             /\ moved.n = call.n /\ moved.awaited = call.awaited
BY DEF Shaped

\* The same for the other two fields that are ever changed.
LEMMA AwaitedFields ==
  ASSUME NEW call, Shaped(call), NEW awaited
  PROVE  LET lost == [call EXCEPT !.awaited = awaited]
         IN  /\ Shaped(lost)
             /\ lost.op = call.op /\ lost.id = call.id
             /\ lost.at = call.at /\ lost.list = call.list
             /\ lost.n = call.n
BY DEF Shaped

LEMMA ListFields ==
  ASSUME NEW call, Shaped(call), NEW list
  PROVE  LET listed == [call EXCEPT !.list = list]
         IN  /\ Shaped(listed)
             /\ listed.op = call.op /\ listed.id = call.id
             /\ listed.at = call.at /\ listed.list = list
             /\ listed.n = call.n /\ listed.awaited = call.awaited
BY DEF Shaped

\* Losing a call.
LEMMA LostFields ==
  ASSUME NEW call, Shaped(call)
  PROVE  LET lost == [call EXCEPT !.awaited = FALSE]
         IN  /\ Shaped(lost)
             /\ lost.op = call.op /\ lost.id = call.id
             /\ lost.at = call.at /\ lost.list = call.list
             /\ lost.n = call.n
BY AwaitedFields, Zenon

\* A list that was read.
LEMMA ServedFields ==
  ASSUME NEW call, Shaped(call), NEW list
  PROVE  LET served == [[call EXCEPT !.at = "done"] EXCEPT !.list = list]
         IN  /\ Shaped(served)
             /\ served.op = call.op /\ served.id = call.id /\ served.list = list
             /\ served.n = call.n /\ served.awaited = call.awaited
<1> DEFINE done == [call EXCEPT !.at = "done"]
<1>1. /\ Shaped(done) /\ done.op = call.op /\ done.id = call.id
      /\ done.n = call.n /\ done.awaited = call.awaited
  BY MovedFields
<1> DEFINE served == [done EXCEPT !.list = list]
<1>2. /\ Shaped(served) /\ served.op = done.op /\ served.id = done.id /\ served.list = list
      /\ served.n = done.n /\ served.awaited = done.awaited
  <2> HIDE DEF done
  <2> QED  BY <1>1, ListFields
<1> QED  BY <1>1, <1>2, Zenon

\* The domains of the functions the steps build.
LEMMA Domains ==
  ASSUME NEW f, NEW x, NEW v
  PROVE  /\ DOMAIN With(f, x) = DOMAIN f \cup {x}
         /\ DOMAIN Without(f, x) = DOMAIN f \ {x}
         /\ DOMAIN [f EXCEPT ![x] = v] = DOMAIN f
         /\ DOMAIN <<>> = {}
<1>1. DOMAIN With(f, x) = DOMAIN f \cup {x}
  BY DEF With
<1>2. DOMAIN Without(f, x) = DOMAIN f \ {x}
  BY DEF Without, Restrict
<1>3. DOMAIN [f EXCEPT ![x] = v] = DOMAIN f
  OBVIOUS
<1>4. DOMAIN <<>> = {}
  OBVIOUS
<1> QED  BY <1>1, <1>2, <1>3, <1>4

\* The page shows the default workflow, whatever is in the table.
LEMMA InitInv == Init => IInv
<1> SUFFICES ASSUME Init PROVE IInv
  OBVIOUS
<1>1. DOMAIN shown = {Default}
  BY Domains DEF Init, OnlyDefault
<1>2. \A call \in calls : CallKnown(call) /\ ~Pending(call)
  BY NewCallFields, Domains DEF Init, CallKnown, Pending, Known
<1> QED
  BY <1>1, <1>2 DEF Init, IInv, Known, CreatedOnce, DeletedStaysDeleted, RefusedOnlyGone

-----------------------------------------------------------------------------
\* A step after which the table has had no other ids than before preserves the
\* invariant if the page shows and asks for nothing else either.
LEMMA KnownKept ==
  ASSUME IInv, Known' = Known, DeletedStaysDeleted', RefusedOnlyGone',
         DOMAIN shown' \subseteq Known,
         \A call \in calls' : call \in calls \/ (CallKnown(call) /\ ~Pending(call))
  PROVE  IInv'
<1>1. \A call \in calls' : CallKnown(call)'
  BY DEF IInv, CallKnown, Shaped, Pending
<1>2. CreatedOnce'
  BY DEF IInv, CreatedOnce, Pending
<1> QED  BY <1>1, <1>2 DEF IInv

\* The same where the table is left alone.
LEMMA TableKept ==
  ASSUME IInv, UNCHANGED <<rows, deleted, refused>>,
         DOMAIN shown' \subseteq Known,
         \A call \in calls' : call \in calls \/ (CallKnown(call) /\ ~Pending(call))
  PROVE  IInv'
<1>1. Known' = Known /\ DeletedStaysDeleted' /\ RefusedOnlyGone'
  BY DEF IInv, Known, DeletedStaysDeleted, RefusedOnlyGone
<1> QED  BY <1>1, KnownKept

\* A call that is no creation moves on.
LEMMA MoveKnown ==
  ASSUME IInv, NEW call \in calls, call.op # "create", NEW at, Move(call, at)
  PROVE  \A c \in calls' : c \in calls \/ (CallKnown(c) /\ ~Pending(c))
<1>1. Shaped(call) /\ DOMAIN call.list \subseteq Known /\ call.id \in Known
  BY DEF IInv, CallKnown, Pending
<1> DEFINE moved == [call EXCEPT !.at = at]
<1>2. CallKnown(moved) /\ ~Pending(moved)
  BY <1>1, MovedFields DEF CallKnown, Pending
<1> QED  BY <1>2 DEF Move

\* The page sends a call for what it shows or for the default workflow.
LEMMA SendKnown ==
  ASSUME IInv, NEW op \in {"update", "delete"}, NEW id \in DOMAIN shown \cup {Default},
         Send(op, id), UNCHANGED <<rows, deleted, refused>>, DOMAIN shown' = DOMAIN shown
  PROVE  IInv'
<1>1. CallKnown(NewCall(op, id)) /\ ~Pending(NewCall(op, id))
  BY NewCallFields, Domains DEF IInv, CallKnown, Pending, Known
<1> QED  BY <1>1, TableKept DEF IInv, Send

-----------------------------------------------------------------------------
\* The steps of the page.
LEMMA PageSteps ==
  ASSUME IInv,
         \/ \E id \in DOMAIN shown : Select(id) \/ Delete(id)
         \/ Change
         \/ \E id \in Ids : Create(id)
  PROVE  IInv'
<1>1. CASE \E id \in DOMAIN shown : Select(id)
  BY <1>1, TableKept DEF IInv, Select, table
<1>2. CASE \E id \in DOMAIN shown : Delete(id)
  BY <1>2, SendKnown DEF Delete, table, pageVars
<1>3. CASE Change
  <2>1. Current \in DOMAIN shown \cup {Default}
    BY DEF Current
  <2>2. Send("update", Current) /\ DOMAIN shown' = DOMAIN shown
    BY <1>3 DEF Change
  <2> QED  BY <1>3, <2>1, <2>2, SendKnown DEF Change, table
<1>4. ASSUME NEW id \in Ids, Create(id)
      PROVE  IInv'
  <2> DEFINE new == NewCall("create", id)
  <2>1. calls' = calls \cup {new} /\ UNCHANGED <<rows, shown, deleted, refused>>
    BY <1>4 DEF Create, Send, table, pageVars
  <2>2. id \notin Known /\ \A call \in calls : call.id # id
    BY <1>4, DefaultNotCreated DEF Create, Known, DefaultNotCreated
  <2>3. Known' = Known
    BY <2>1 DEF Known
  <2>4. Shaped(new) /\ new.id = id /\ Pending(new) /\ new.list = <<>>
    BY NewCallFields DEF Pending
  <2>5. CallKnown(new)
    BY <2>2, <2>4, Domains DEF CallKnown
  <2>6. \A call \in calls' : CallKnown(call)'
    BY <2>1, <2>3, <2>5 DEF IInv, CallKnown, Shaped, Pending
  <2>7. CreatedOnce'
    BY <2>1, <2>2, <2>4 DEF IInv, CreatedOnce, Pending
  <2> QED  BY <2>1, <2>3, <2>6, <2>7 DEF IInv, DeletedStaysDeleted, RefusedOnlyGone
<1> QED  BY <1>1, <1>2, <1>3, <1>4

\* The page shows what is answered, of which the table knows.
LEMMA AnswerShowsKnown ==
  ASSUME IInv, NEW call \in calls, Answer(call)
  PROVE  DOMAIN shown' \subseteq Known
<1>1. call.id \in Known /\ DOMAIN call.list \subseteq Known /\ DOMAIN shown \subseteq Known
  BY DEF IInv, CallKnown, Pending, Answer
<1>2. CASE ~call.awaited
  BY <1>1, <1>2 DEF Answer, pageVars
<1>3. CASE ShowList(call)
  BY <1>1, <1>3 DEF ShowList, pageVars
<1>4. CASE ShowCreated(call)
  <2>1. DOMAIN shown' = DOMAIN shown \cup {call.id}
    BY <1>4 DEF ShowCreated, With
  <2> QED  BY <1>1, <2>1
<1>5. CASE ShowDeleted(call)
  <2>1. DOMAIN shown' = DOMAIN shown \ {call.id}
    BY <1>5 DEF ShowDeleted, Without, Restrict
  <2> QED  BY <1>1, <2>1
<1> QED  BY <1>2, <1>3, <1>4, <1>5 DEF Answer

\* The connection breaks: the call is the same to the gateway.
LEMMA LoseStep == ASSUME IInv, NEW call \in calls, Lose(call) PROVE IInv'
<1> DEFINE lost == [call EXCEPT !.awaited = FALSE]
<1>1. /\ Shaped(lost) /\ lost.list = call.list
      /\ lost.op = call.op /\ lost.id = call.id /\ lost.at = call.at
  <2>1. Shaped(call)
    BY DEF IInv, CallKnown
  <2> QED  BY <2>1, LostFields
<1>2. calls' = (calls \ {call}) \cup {lost} /\ UNCHANGED <<rows, shown, deleted, refused>>
  BY DEF Lose, table, pageVars
<1>3. Known' = Known
  BY <1>2 DEF Known
<1>4. CallKnown(lost)
  BY <1>1 DEF IInv, CallKnown, Pending
<1>5. \A c \in calls' : CallKnown(c)'
  BY <1>2, <1>3, <1>4 DEF IInv, CallKnown, Shaped, Pending
<1>6. CreatedOnce'
  <2>1. Pending(lost) <=> Pending(call)
    BY <1>1 DEF Pending
  <2>2. \A c \in calls \ {call} : ~(Pending(lost) /\ Pending(c) /\ c.id = lost.id)
    BY <1>1, <2>1 DEF IInv, CreatedOnce
  <2>3. ASSUME NEW c \in calls', NEW d \in calls', Pending(c), Pending(d), c.id = d.id
        PROVE  c = d
    <3>1. CASE c = lost \/ d = lost
      BY <1>2, <2>2, <2>3, <3>1
    <3>2. CASE c # lost /\ d # lost
      BY <1>2, <2>3, <3>2 DEF IInv, CreatedOnce
    <3> QED  BY <3>1, <3>2
  <2> QED  BY <2>3 DEF CreatedOnce, Pending
<1> QED  BY <1>2, <1>3, <1>5, <1>6 DEF IInv, DeletedStaysDeleted, RefusedOnlyGone

-----------------------------------------------------------------------------
\* The statements of the gateway that bring an id the table has never had.
LEMMA InsertStep == ASSUME IInv, NEW call \in calls, Insert(call) PROVE IInv'
<1> DEFINE done == [call EXCEPT !.at = "done"]
<1>1. Pending(call) /\ Shaped(call) /\ call.id \notin Known /\ DOMAIN call.list \subseteq Known
  BY DEF IInv, CallKnown, Insert, Executes, Pending
<1>2. /\ DOMAIN rows' = DOMAIN rows \cup {call.id}
      /\ calls' = (calls \ {call}) \cup {done}
      /\ UNCHANGED <<shown, deleted, refused>>
  BY Domains DEF Insert, Move, pageVars
<1>3. Known' = Known \cup {call.id}
  BY <1>2 DEF Known
<1>4. Shaped(done) /\ done.id = call.id /\ ~Pending(done) /\ done.list = call.list
  BY <1>1, MovedFields DEF Pending
<1>5. ASSUME NEW c \in calls \ {call}
      PROVE  CallKnown(c)'
  <2>1. Pending(c) => c.id # call.id
    BY <1>1 DEF IInv, CreatedOnce
  <2> QED  BY <1>3, <2>1 DEF IInv, CallKnown, Shaped, Pending
<1>6. CallKnown(done)'
  BY <1>1, <1>3, <1>4 DEF CallKnown, Shaped, Pending
<1>7. CreatedOnce'
  BY <1>2, <1>4 DEF IInv, CreatedOnce, Pending
<1>8. DeletedStaysDeleted' /\ RefusedOnlyGone'
  BY <1>1, <1>2 DEF IInv, Known, DeletedStaysDeleted, RefusedOnlyGone
<1> QED  BY <1>2, <1>3, <1>5, <1>6, <1>7, <1>8 DEF IInv

\* A row that is removed is remembered as deleted.
LEMMA RemoveStep == ASSUME IInv, NEW call \in calls, Remove(call) PROVE IInv'
<1>1. call.id \in Known
  BY DEF IInv, CallKnown, Remove, Pending
<1>2. DOMAIN rows' = DOMAIN rows \ {call.id} /\ deleted' = deleted \cup {call.id}
  BY Domains DEF Remove
<1>3. Known' = Known
  BY <1>1, <1>2 DEF Known
<1>4. DeletedStaysDeleted' /\ RefusedOnlyGone'
  BY <1>2 DEF IInv, Remove, DeletedStaysDeleted, RefusedOnlyGone
<1>5. \A c \in calls' : c \in calls \/ (CallKnown(c) /\ ~Pending(c))
  BY MoveKnown DEF Remove
<1> QED  BY <1>3, <1>4, <1>5, KnownKept DEF IInv, Remove, pageVars

\* The statements of a save; not found is answered only to the first.
LEMMA SaveSteps ==
  ASSUME IInv, NEW call \in calls, Read(call) \/ Write(call) \/ ReadAgain(call)
  PROVE  IInv'
<1>1. CASE Read(call)
  <2>1. call.id \in Known
    BY <1>1 DEF IInv, CallKnown, Read, Pending
  <2>2. Known' = Known /\ DeletedStaysDeleted' /\ RefusedOnlyGone'
    BY <1>1, <2>1 DEF IInv, Read, table, Known, DeletedStaysDeleted, RefusedOnlyGone
  <2>3. \A c \in calls' : c \in calls \/ (CallKnown(c) /\ ~Pending(c))
    BY <1>1, MoveKnown DEF Read
  <2> QED  BY <1>1, <2>2, <2>3, KnownKept DEF IInv, Read, pageVars
<1>2. CASE Write(call)
  <2>1. DOMAIN rows' = DOMAIN rows
    BY <1>2, Domains DEF Write
  <2>2. Known' = Known /\ DeletedStaysDeleted' /\ RefusedOnlyGone'
    BY <1>2, <2>1 DEF IInv, Write, Known, DeletedStaysDeleted, RefusedOnlyGone
  <2>3. \A c \in calls' : c \in calls \/ (CallKnown(c) /\ ~Pending(c))
    BY <1>2, MoveKnown DEF Write
  <2> QED  BY <1>2, <2>2, <2>3, KnownKept DEF IInv, Write, pageVars
<1>3. CASE ReadAgain(call)
  BY <1>3, TableKept DEF IInv, ReadAgain, table, pageVars
<1> QED  BY <1>1, <1>2, <1>3

\* The list holds what is in the table.
LEMMA ServeListStep == ASSUME IInv, NEW call \in calls, ServeList(call) PROVE IInv'
<1> DEFINE served == [[call EXCEPT !.at = "done"] EXCEPT !.list = rows]
<1>1. Shaped(served) /\ served.op = "list" /\ served.id = call.id /\ served.list = rows
  <2>1. Shaped(call) /\ call.op = "list"
    BY DEF IInv, CallKnown, ServeList
  <2> QED  BY <2>1, ServedFields
<1>2. CallKnown(served) /\ ~Pending(served)
  BY <1>1 DEF IInv, CallKnown, Known, Pending, ServeList
<1> QED  BY <1>2, TableKept DEF IInv, ServeList, table, pageVars

-----------------------------------------------------------------------------
\* Every step preserves the invariant.
LEMMA NextInv == IInv /\ [Next]_vars => IInv'
<1> SUFFICES ASSUME IInv, [Next]_vars PROVE IInv'
  OBVIOUS
<1>1. CASE \/ \E id \in DOMAIN shown : Select(id) \/ Delete(id)
           \/ Change
           \/ \E id \in Ids : Create(id)
  BY <1>1, PageSteps
<1>2. ASSUME NEW call \in calls, Answer(call)
      PROVE  IInv'
  BY <1>2, AnswerShowsKnown, TableKept DEF Answer, table
<1>3. ASSUME NEW call \in calls, Fail(call)
      PROVE  IInv'
  BY <1>3, TableKept DEF IInv, Fail, table, pageVars
<1>4. ASSUME NEW call \in calls,
             \/ Lose(call) \/ ServeList(call) \/ Insert(call) \/ Remove(call)
             \/ Read(call) \/ Write(call) \/ ReadAgain(call)
      PROVE  IInv'
  BY <1>4, LoseStep, ServeListStep, InsertStep, RemoveStep, SaveSteps
<1>5. CASE Stop \/ Exit \/ Start \/ UNCHANGED vars
  <2>1. UNCHANGED <<rows, deleted, refused, shown>> /\ calls' \subseteq calls
    BY <1>5 DEF Stop, Exit, Start, vars, table, pageVars
  <2> QED  BY <2>1, TableKept DEF IInv
<1> QED  BY <1>1, <1>2, <1>3, <1>4, <1>5 DEF Next

\* The invariant holds in every reachable state.
THEOREM Invariant == Spec => []IInv
<1> QED  BY InitInv, NextInv, PTL DEF Spec

\* What a DELETE was executed for is not in the table again, whatever saves and
\* creations are under way and however often the gateway is stopped and started.
THEOREM NothingDeletedReturns == Spec => []DeletedStaysDeleted
<1>1. IInv => DeletedStaysDeleted
  BY DEF IInv
<1> QED  BY <1>1, Invariant, PTL

\* A save is answered with not found only for a deleted workflow or the default.
THEOREM SavesRefusedForGone == Spec => []RefusedOnlyGone
<1>1. IInv => RefusedOnlyGone
  BY DEF IInv
<1> QED  BY <1>1, Invariant, PTL

-----------------------------------------------------------------------------
(***************************************************************************)
(* The page and the table agree in the end.  While saves are under way the *)
(* table holds something else than the page shows; the invariant says what *)
(* is still to come for a workflow that is not counted among those astray: *)
(* what is shown is saved already, or the save that carries it will find   *)
(* its row, or the answer to its deletion is under way.  No save under way *)
(* carries a later number than what is shown, so an older save overwrites  *)
(* it only where astray says so.  What a creation under way will show is   *)
(* in the table as it was created.                                         *)
(***************************************************************************)

\* The saves of a workflow under way.
Updates(id) == {c \in calls : c.op = "update" /\ c.id = id}

\* What is saved is a number, and no call has a later one than the last sent.
Numbers ==
  /\ sent \in Nat
  /\ \A id \in DOMAIN rows : rows[id] \in Nat
  /\ \A c \in calls : c.n \in Nat /\ c.n <= sent

\* The page asks for the list once, and for each workflow to be created once.
AskedOnce ==
  /\ \A c, d \in calls : c.op = "list" /\ d.op = "list" => c = d
  /\ \A c, d \in calls : c.op = "create" /\ d.op = "create" /\ c.id = d.id => c = d

\* Nothing was saved of a workflow whose creation is not answered, unless the list
\* has shown it.
Fresh(call) ==
  /\ call.id # Default
  /\ (\E c \in calls : c.op = "list" /\ c.awaited) => call.id \notin DOMAIN shown
  /\ call.id \notin DOMAIN shown \cup deleted =>
       /\ Updates(call.id) = {}
       /\ call.at = "done" => call.id \in DOMAIN rows /\ rows[call.id] = 0

CreatesFresh == \A c \in calls : c.op = "create" => Fresh(c)

DeletesDone == \A c \in calls : c.op = "delete" /\ c.at = "done" => c.id \in deleted

\* What becomes of a workflow the page shows.
NoneLater(id) == \A c \in Updates(id) : c.n <= shown[id]
Saved(id) == id \in DOMAIN rows /\ rows[id] = shown[id]
Carries(c, id) ==
  c.n = shown[id] /\ (c.at = "sent" \/ (c.at = "read" /\ id \in DOMAIN rows))
Coming(id) == \E c \in Updates(id) : Carries(c, id)
Going(id) == \E c \in calls : c.op = "delete" /\ c.id = id /\ c.at = "done" /\ c.awaited

Agrees(id) == NoneLater(id) /\ (Saved(id) \/ Coming(id) \/ Going(id))

SInv ==
  /\ Numbers
  /\ AskedOnce
  /\ CreatesFresh
  /\ DeletesDone
  /\ \A id \in DOMAIN shown \ astray : Agrees(id)

-----------------------------------------------------------------------------
\* The invariant says what the property asks of a workflow nothing is under way for.
LEMMA AgreesSettled == SInv => SettledAsSaved
BY DEF SInv, Agrees, Coming, Going, Updates, Saved, SettledAsSaved

\* At first the page shows a workflow that the table need not have.
LEMMA SavedInit == Init => SInv
<1> SUFFICES ASSUME Init PROVE SInv
  OBVIOUS
<1> DEFINE list == NewCall("list", Default)
<1>1. list.op = "list" /\ list.n = 0 /\ calls = {list}
  BY NewCallFields DEF Init
<1>2. DOMAIN shown \ astray = {}
  BY DEF Init, OnlyDefault
<1>3. Numbers
  BY <1>1 DEF Init, Numbers
<1> QED  BY <1>1, <1>2, <1>3 DEF SInv, AskedOnce, CreatesFresh, DeletesDone

\* A call moves on, or is over: what is asked for once still is.
LEMMA AskedOnceKept ==
  ASSUME SInv, NEW call \in calls, NEW d, d.op = call.op, d.id = call.id,
         calls' \subseteq (calls \ {call}) \cup {d}
  PROVE  AskedOnce'
BY DEF SInv, AskedOnce

\* A step of one call that leaves the table and what is shown as they are: the call
\* is over or is d now, and if it was to bring what is shown, it still is or the
\* workflow counts as astray.
LEMMA OneCallStep ==
  ASSUME SInv, UNCHANGED <<rows, shown, deleted, sent>>, astray \subseteq astray',
         NEW call \in calls, NEW d, NEW S \in {{}, {d}},
         calls' = (calls \ {call}) \cup S,
         d.op = call.op, d.id = call.id, d.n = call.n,
         d.awaited => call.awaited,
         d.at = "done" => call.at = "done" \/ call.op = "list",
         \/ call.id \in astray'
         \/ call.op \notin {"update", "delete"}
         \/ call.op = "update" /\ call.at \notin {"sent", "read"}
         \/ call.op = "update" /\ S = {d} /\ d.at = "read" /\ call.id \in DOMAIN rows
         \/ call.op = "delete" /\ ~call.awaited
  PROVE  SInv'
<1>1. calls \ {call} \subseteq calls' /\ calls' \subseteq (calls \ {call}) \cup {d}
  OBVIOUS
<1>2. Numbers'
  BY <1>1 DEF SInv, Numbers
<1>3. AskedOnce'
  BY <1>1, AskedOnceKept
<1>4. ASSUME NEW c \in calls', c.op = "create"
      PROVE  Fresh(c)'
  <2>1. PICK b \in calls : b.op = "create" /\ b.id = c.id /\ (c.at = "done" => b.at = "done")
    BY <1>1, <1>4
  <2>2. Fresh(b)
    BY <2>1 DEF SInv, CreatesFresh
  <2>3. Updates(b.id) = {} => Updates(b.id)' = {}
    BY <1>1 DEF Updates
  <2>4. (\E l \in calls' : l.op = "list" /\ l.awaited) => \E l \in calls : l.op = "list" /\ l.awaited
    BY <1>1
  <2> QED  BY <2>1, <2>2, <2>3, <2>4 DEF Fresh
<1>5. DeletesDone'
  BY <1>1 DEF SInv, DeletesDone
<1>6. ASSUME NEW id \in DOMAIN shown' \ astray'
      PROVE  Agrees(id)'
  <2>1. id \in DOMAIN shown \ astray /\ Agrees(id)
    BY <1>6 DEF SInv
  <2>2. NoneLater(id)'
    BY <1>1, <2>1 DEF Agrees, NoneLater, Updates
  <2>3. CASE Saved(id)
    BY <2>2, <2>3 DEF Agrees, Saved
  <2>4. CASE Coming(id)
    <3>1. PICK c \in calls : c.op = "update" /\ c.id = id /\ Carries(c, id)
      BY <2>4 DEF Coming, Updates
    <3>2. c # call => Coming(id)'
      BY <1>1, <3>1 DEF Coming, Updates, Carries
    <3>3. c = call => Coming(id)'
      BY <3>1, <1>6 DEF Coming, Updates, Carries
    <3> QED  BY <2>2, <3>2, <3>3 DEF Agrees
  <2>5. CASE Going(id)
    <3>1. PICK c \in calls : c.op = "delete" /\ c.id = id /\ c.at = "done" /\ c.awaited
      BY <2>5 DEF Going
    <3>2. c # call
      BY <3>1, <1>6
    <3> QED  BY <1>1, <2>2, <3>1, <3>2 DEF Agrees, Going
  <2> QED  BY <2>1, <2>3, <2>4, <2>5 DEF Agrees
<1> QED  BY <1>2, <1>3, <1>4, <1>5, <1>6 DEF SInv, CreatesFresh

-----------------------------------------------------------------------------
\* A call is sent: what is asked of it is asked of a new one only.
LEMMA SentStep ==
  ASSUME SInv, NEW u, u.at = "sent", u.n \in Nat, u.n <= sent', u.op # "list",
         calls' = calls \cup {u}, sent' = sent + 1, UNCHANGED <<rows, deleted>>,
         u.op = "create" => \A c \in calls : c.id # u.id
  PROVE  Numbers' /\ AskedOnce' /\ DeletesDone'
<1>1. Numbers'
  BY DEF SInv, Numbers
<1> QED  BY <1>1 DEF SInv, AskedOnce, DeletesDone

\* A change is shown at once and carried by its save.
LEMMA ChangeSaved == ASSUME IInv, SInv, Change PROVE SInv'
<1> DEFINE u == NewCall("update", Current)
<1>1. /\ calls' = calls \cup {u} /\ sent' = sent + 1
      /\ shown' = [id \in DOMAIN shown |-> IF id = Current THEN sent' ELSE shown[id]]
      /\ astray' = astray \ {Current}
      /\ UNCHANGED <<rows, deleted>>
  BY DEF Change, Send, table
<1>2. u.op = "update" /\ u.id = Current /\ u.at = "sent" /\ u.n = sent + 1
  BY NewCallFields
<1>3. Current \in DOMAIN shown \cup {Default} /\ sent \in Nat
  BY DEF Current, SInv, Numbers
<1> HIDE DEF u
<1>4. Numbers' /\ AskedOnce' /\ DeletesDone'
  BY <1>1, <1>2, <1>3, SentStep
<1>5. ASSUME NEW c \in calls', c.op = "create"
      PROVE  Fresh(c)'
  <2>1. c \in calls /\ Fresh(c)
    BY <1>1, <1>2, <1>5 DEF SInv, CreatesFresh
  <2>2. c.id \notin DOMAIN shown \cup deleted => Updates(c.id)' = Updates(c.id)
    BY <1>1, <1>2, <1>3, <2>1 DEF Updates, Fresh
  <2> QED  BY <1>1, <1>2, <2>1, <2>2 DEF Fresh
<1>6. ASSUME NEW id \in DOMAIN shown' \ astray'
      PROVE  Agrees(id)'
  <2>1. CASE id = Current
    <3>1. shown'[id] = sent'
      BY <1>1, <1>6, <2>1
    <3>2. NoneLater(id)'
      BY <1>1, <1>2, <1>3, <3>1 DEF NoneLater, Updates, SInv, Numbers
    <3>3. Coming(id)'
      BY <1>1, <1>2, <2>1, <3>1 DEF Coming, Updates, Carries
    <3> QED  BY <3>2, <3>3 DEF Agrees
  <2>2. CASE id # Current
    <3>1. id \in DOMAIN shown \ astray /\ shown'[id] = shown[id] /\ Agrees(id)
      BY <1>1, <1>6, <2>2 DEF SInv
    <3>2. NoneLater(id)'
      BY <1>1, <1>2, <2>2, <3>1 DEF Agrees, NoneLater, Updates
    <3> QED
      BY <1>1, <3>1, <3>2 DEF Agrees, Saved, Coming, Going, Updates, Carries
  <2> QED  BY <2>1, <2>2
<1> QED  BY <1>4, <1>5, <1>6 DEF SInv, CreatesFresh

\* A creation or a deletion is asked for.
LEMMA AskSaved ==
  ASSUME IInv, SInv, (\E id \in Ids : Create(id)) \/ (\E id \in DOMAIN shown : Delete(id))
  PROVE  SInv'
<1>1. PICK u :
        /\ u.at = "sent" /\ u.n \in Nat /\ u.n <= sent' /\ u.op \in {"create", "delete"}
        /\ calls' = calls \cup {u} /\ sent' = sent + 1
        /\ UNCHANGED <<rows, shown, deleted, astray>>
        /\ u.op = "create" =>
             /\ u.id # Default /\ u.id \notin DOMAIN shown
             /\ \A c \in calls : c.id # u.id
  <2>0. sent \in Nat
    BY DEF SInv, Numbers
  <2>1. ASSUME NEW id \in Ids, Create(id)
        PROVE  \E u :
          /\ u.at = "sent" /\ u.n \in Nat /\ u.n <= sent' /\ u.op \in {"create", "delete"}
          /\ calls' = calls \cup {u} /\ sent' = sent + 1
          /\ UNCHANGED <<rows, shown, deleted, astray>>
          /\ u.op = "create" =>
               /\ u.id # Default /\ u.id \notin DOMAIN shown
               /\ \A c \in calls : c.id # u.id
    <3>1. id \notin Known /\ \A c \in calls : c.id # id
      BY <2>1, DefaultNotCreated DEF Create, Known, DefaultNotCreated
    <3>2. id # Default /\ id \notin DOMAIN shown
      BY <3>1 DEF IInv, Known
    <3> QED
      BY <2>0, <2>1, <3>1, <3>2, NewCallFields DEF Create, Send, table, pageVars
  <2>2. ASSUME NEW id \in DOMAIN shown, Delete(id)
        PROVE  \E u :
          /\ u.at = "sent" /\ u.n \in Nat /\ u.n <= sent' /\ u.op \in {"create", "delete"}
          /\ calls' = calls \cup {u} /\ sent' = sent + 1
          /\ UNCHANGED <<rows, shown, deleted, astray>>
          /\ u.op = "create" =>
               /\ u.id # Default /\ u.id \notin DOMAIN shown
               /\ \A c \in calls : c.id # u.id
    BY <2>0, <2>2, NewCallFields DEF Delete, Send, table, pageVars
  <2> QED  BY <2>1, <2>2
<1>2. Numbers' /\ AskedOnce' /\ DeletesDone'
  BY <1>1, SentStep
<1>3. \A id : Updates(id)' = Updates(id)
  BY <1>1 DEF Updates
<1>4. ASSUME NEW c \in calls', c.op = "create"
      PROVE  Fresh(c)'
  <2>1. (\E l \in calls' : l.op = "list" /\ l.awaited) => \E l \in calls : l.op = "list" /\ l.awaited
    BY <1>1
  <2>2. CASE c \in calls
    BY <1>1, <1>3, <1>4, <2>1, <2>2 DEF SInv, CreatesFresh, Fresh
  <2>3. CASE c = u
    BY <1>1, <1>3, <1>4, <2>3 DEF Fresh, Updates
  <2> QED  BY <1>1, <2>2, <2>3
<1>5. \A id : Agrees(id) => Agrees(id)'
  BY <1>1, <1>3 DEF Agrees, NoneLater, Saved, Coming, Going, Carries
<1> QED  BY <1>1, <1>2, <1>4, <1>5 DEF SInv, CreatesFresh

\* Another workflow is looked at.
LEMMA SameSaved ==
  ASSUME SInv, UNCHANGED <<rows, shown, calls, sent, deleted, astray>> PROVE SInv'
BY DEF SInv, Numbers, AskedOnce, CreatesFresh, Fresh, DeletesDone, Agrees, NoneLater,
       Saved, Coming, Going, Carries, Updates

-----------------------------------------------------------------------------
\* The steps of one call that leave the table and the page as they are.
LEMMA QuietSteps ==
  ASSUME IInv, SInv, NEW call \in calls,
         Lose(call) \/ Fail(call) \/ ServeList(call) \/ Read(call) \/ ReadAgain(call)
  PROVE  SInv'
<1>1. Shaped(call)
  BY DEF IInv, CallKnown
<1>2. CASE Lose(call)
  <2> DEFINE lost == [call EXCEPT !.awaited = FALSE]
  <2>1. /\ lost.op = call.op /\ lost.id = call.id /\ lost.at = call.at /\ lost.n = call.n
        /\ ~lost.awaited
    <3>1. lost.op = call.op /\ lost.id = call.id /\ lost.at = call.at /\ lost.n = call.n
      BY <1>1, LostFields
    <3>2. lost.awaited = FALSE
      BY <1>1 DEF Shaped
    <3> QED  BY <3>1, <3>2
  <2> HIDE DEF lost
  <2>2. /\ UNCHANGED <<rows, shown, deleted, sent>> /\ astray \subseteq astray'
        /\ call.op # "list" => call.id \in astray'
        /\ calls' = (calls \ {call}) \cup {lost}
    BY <1>2 DEF Lose, Misses, table, pageVars, lost
  <2> QED  BY <2>1, <2>2, OneCallStep
<1>3. CASE Fail(call)
  <2>1. /\ UNCHANGED <<rows, shown, deleted, sent>> /\ astray \subseteq astray'
        /\ call.op # "list" => call.id \in astray'
        /\ calls' = (calls \ {call}) \cup {}
    BY <1>3 DEF Fail, Misses, table, pageVars
  <2> QED  BY <2>1, OneCallStep
<1>4. CASE ServeList(call)
  <2> DEFINE served == [[call EXCEPT !.at = "done"] EXCEPT !.list = rows]
  <2>1. /\ served.op = call.op /\ served.id = call.id /\ served.n = call.n
        /\ served.awaited = call.awaited
    BY <1>1, ServedFields
  <2> HIDE DEF served
  <2>2. /\ UNCHANGED <<rows, shown, deleted, sent, astray>> /\ call.op = "list"
        /\ calls' = (calls \ {call}) \cup {served}
    BY <1>4 DEF ServeList, table, pageVars, served
  <2> QED  BY <2>1, <2>2, OneCallStep
<1>5. CASE Read(call)
  <2> DEFINE moved == [call EXCEPT !.at = "read"]
  <2>1. /\ moved.op = call.op /\ moved.id = call.id /\ moved.at = "read"
        /\ moved.n = call.n /\ moved.awaited = call.awaited
    BY <1>1, MovedFields
  <2> HIDE DEF moved
  <2>2. UNCHANGED <<rows, shown, deleted, sent>> /\ call.op = "update"
    BY <1>5 DEF Read, table, pageVars
  <2>3. CASE call.id \in DOMAIN rows
    <3>1. astray' = astray /\ calls' = (calls \ {call}) \cup {moved}
      BY <1>5, <2>3 DEF Read, Move, moved
    <3> QED  BY <2>1, <2>2, <2>3, <3>1, OneCallStep
  <2>4. CASE call.id \notin DOMAIN rows
    <3>1. astray \subseteq astray' /\ call.id \in astray' /\ calls' = (calls \ {call}) \cup {}
      BY <1>5, <2>2, <2>4 DEF Read, Misses
    <3> QED  BY <2>2, <3>1, OneCallStep
  <2> QED  BY <2>3, <2>4
<1>6. CASE ReadAgain(call)
  <2>1. /\ UNCHANGED <<rows, shown, deleted, sent, astray>>
        /\ call.op = "update" /\ call.at = "written"
        /\ calls' = (calls \ {call}) \cup {}
    BY <1>6 DEF ReadAgain, Executes, table, pageVars
  <2> QED  BY <2>1, OneCallStep
<1> QED  BY <1>2, <1>3, <1>4, <1>5, <1>6

\* Of an answer: fewer calls are under way.
LEMMA AnswerKeeps ==
  ASSUME SInv, NEW call \in calls, Answer(call)
  PROVE  /\ Numbers' /\ AskedOnce' /\ DeletesDone'
         /\ calls' = calls \ {call} /\ UNCHANGED <<rows, deleted, sent>>
<1>1. calls' = calls \ {call} /\ UNCHANGED <<rows, deleted, sent>>
  BY DEF Answer, table
<1> QED  BY <1>1 DEF SInv, Numbers, AskedOnce, DeletesDone

\* The list is shown.
LEMMA ShowListSaved ==
  ASSUME SInv, NEW call \in calls, Answer(call), call.awaited, call.op = "list", ShowList(call)
  PROVE  SInv'
<1>1. calls' = calls \ {call} /\ UNCHANGED <<rows, deleted, sent>>
  BY AnswerKeeps
<1>2. CASE call.list = <<>>
  <2>1. UNCHANGED <<shown, astray>> /\ calls' = (calls \ {call}) \cup {}
    BY <1>1, <1>2 DEF ShowList, pageVars
  <2> QED  BY <1>1, <2>1, OneCallStep
<1>3. CASE call.list # <<>>
  <2>1. /\ shown' = call.list
        /\ astray' =
             {id \in DOMAIN call.list :
                \/ id \notin DOMAIN rows \/ rows[id] # call.list[id]
                \/ \E c \in calls : c.id = id /\ c.op # "list"}
    BY <1>3 DEF ShowList
  <2>2. ASSUME NEW c \in calls', c.op = "create"
        PROVE  Fresh(c)'
    <3>1. c \in calls /\ Fresh(c) /\ c.id \notin DOMAIN shown
      BY <1>1, <2>2 DEF SInv, CreatesFresh, Fresh
    <3>2. ~\E l \in calls' : l.op = "list" /\ l.awaited
      BY <1>1 DEF SInv, AskedOnce
    <3>3. Updates(c.id)' \subseteq Updates(c.id)
      BY <1>1 DEF Updates
    <3> QED  BY <1>1, <3>1, <3>2, <3>3 DEF Fresh
  <2>3. ASSUME NEW id \in DOMAIN shown' \ astray'
        PROVE  Agrees(id)'
    <3>1. id \in DOMAIN rows /\ rows[id] = call.list[id] /\ Updates(id) = {}
      BY <2>1, <2>3 DEF Updates
    <3>2. Saved(id)' /\ Updates(id)' = {}
      BY <1>1, <2>1, <3>1 DEF Saved, Updates
    <3> QED  BY <3>2 DEF Agrees, NoneLater
  <2> QED  BY <2>2, <2>3, AnswerKeeps DEF SInv, CreatesFresh
<1> QED  BY <1>2, <1>3

\* What was created is shown.
LEMMA ShowCreatedSaved ==
  ASSUME SInv, NEW call \in calls, Answer(call), call.awaited, call.op = "create", ShowCreated(call)
  PROVE  SInv'
<1>1. calls' = calls \ {call} /\ UNCHANGED <<rows, deleted, sent>>
  BY AnswerKeeps
<1>2. /\ DOMAIN shown' = DOMAIN shown \cup {call.id}
      /\ \A id \in DOMAIN shown : shown'[id] = shown[id]
      /\ call.id \notin DOMAIN shown => shown'[call.id] = 0
      /\ astray' = IF call.id \in deleted THEN astray \cup {call.id} ELSE astray
  BY DEF ShowCreated, With
<1>3. \A id : Updates(id)' = Updates(id)
  BY <1>1 DEF Updates
<1>4. ASSUME NEW c \in calls', c.op = "create"
      PROVE  Fresh(c)'
  <2>1. c \in calls /\ Fresh(c) /\ c.id # call.id
    BY <1>1, <1>4 DEF SInv, CreatesFresh, AskedOnce
  <2> QED  BY <1>1, <1>2, <1>3, <2>1 DEF Fresh
<1>5. ASSUME NEW id \in DOMAIN shown' \ astray'
      PROVE  Agrees(id)'
  <2>1. CASE id \in DOMAIN shown
    <3>1. Agrees(id) /\ shown'[id] = shown[id]
      BY <1>2, <1>5, <2>1 DEF SInv
    <3> QED
      BY <1>1, <1>3, <3>1 DEF Agrees, NoneLater, Saved, Coming, Going, Carries
  <2>2. CASE id \notin DOMAIN shown
    <3>1. id = call.id /\ id \notin deleted /\ shown'[id] = 0
      BY <1>2, <1>5, <2>2
    <3>2. Updates(id) = {} /\ id \in DOMAIN rows /\ rows[id] = 0
      BY <2>2, <3>1 DEF Answer, SInv, CreatesFresh, Fresh
    <3> QED  BY <1>1, <1>3, <3>1, <3>2 DEF Agrees, NoneLater, Saved
  <2> QED  BY <2>1, <2>2
<1> QED  BY <1>4, <1>5, AnswerKeeps DEF SInv, CreatesFresh

\* What was deleted is not shown.
LEMMA ShowDeletedSaved ==
  ASSUME SInv, NEW call \in calls, Answer(call), call.awaited, call.op = "delete", ShowDeleted(call)
  PROVE  SInv'
<1>1. calls' = calls \ {call} /\ UNCHANGED <<rows, deleted, sent, astray>>
  BY AnswerKeeps DEF ShowDeleted
<1>2. /\ DOMAIN shown' = DOMAIN shown \ {call.id}
      /\ \A id \in DOMAIN shown' : shown'[id] = shown[id]
  BY DEF ShowDeleted, Without, Restrict
<1>3. call.id \in deleted
  BY DEF Answer, SInv, DeletesDone
<1>4. \A id : Updates(id)' = Updates(id)
  BY <1>1 DEF Updates
<1>5. ASSUME NEW c \in calls', c.op = "create"
      PROVE  Fresh(c)'
  <2>1. c \in calls /\ Fresh(c)
    BY <1>1, <1>5 DEF SInv, CreatesFresh
  <2> QED  BY <1>1, <1>2, <1>3, <1>4, <2>1 DEF Fresh
<1>6. ASSUME NEW id \in DOMAIN shown' \ astray'
      PROVE  Agrees(id)'
  <2>1. id # call.id /\ id \in DOMAIN shown \ astray /\ shown'[id] = shown[id] /\ Agrees(id)
    BY <1>1, <1>2, <1>6 DEF SInv
  <2> QED
    BY <1>1, <1>4, <2>1 DEF Agrees, NoneLater, Saved, Coming, Going, Carries
<1> QED  BY <1>5, <1>6, AnswerKeeps DEF SInv, CreatesFresh

\* An answer arrives, perhaps with nobody waiting for it.
LEMMA AnswerSaved == ASSUME SInv, NEW call \in calls, Answer(call) PROVE SInv'
<1>1. CASE ~call.awaited
  <2>1. /\ UNCHANGED <<rows, shown, deleted, sent, astray>>
        /\ call.at = "done" /\ calls' = (calls \ {call}) \cup {}
    BY <1>1 DEF Answer, table, pageVars
  <2> QED  BY <1>1, <2>1, OneCallStep
<1>2. CASE call.awaited
  BY <1>2, ShowListSaved, ShowCreatedSaved, ShowDeletedSaved DEF Answer
<1> QED  BY <1>1, <1>2

-----------------------------------------------------------------------------
\* A row is inserted.
LEMMA InsertSaved == ASSUME IInv, SInv, NEW call \in calls, Insert(call) PROVE SInv'
<1> DEFINE done == [call EXCEPT !.at = "done"]
<1>1. /\ done.op = call.op /\ done.id = call.id /\ done.at = "done"
      /\ done.n = call.n /\ done.awaited = call.awaited
  BY MovedFields DEF IInv, CallKnown
<1>2. /\ call.op = "create" /\ call.id \notin DOMAIN rows
      /\ DOMAIN rows' = DOMAIN rows \cup {call.id} /\ rows'[call.id] = 0
      /\ \A id \in DOMAIN rows : rows'[id] = rows[id]
      /\ calls' = (calls \ {call}) \cup {done}
      /\ UNCHANGED <<shown, deleted, sent, astray>>
  BY DEF Insert, Move, With, pageVars
<1> HIDE DEF done
<1>3. Numbers' /\ AskedOnce' /\ DeletesDone'
  <2>1. AskedOnce'
    BY <1>1, <1>2, AskedOnceKept
  <2> QED  BY <1>1, <1>2, <2>1 DEF SInv, Numbers, DeletesDone
<1>4. \A id : Updates(id)' = Updates(id)
  BY <1>1, <1>2 DEF Updates
<1>5. ASSUME NEW c \in calls', c.op = "create"
      PROVE  Fresh(c)'
  <2>1. (\E l \in calls' : l.op = "list" /\ l.awaited) => \E l \in calls : l.op = "list" /\ l.awaited
    BY <1>1, <1>2
  <2>2. CASE c = done
    <3>1. Fresh(call)
      BY <1>2 DEF SInv, CreatesFresh
    <3> QED  BY <1>1, <1>2, <1>4, <2>1, <2>2, <3>1 DEF Fresh
  <2>3. CASE c # done
    <3>1. c \in calls /\ Fresh(c)
      BY <1>2, <1>5, <2>3 DEF SInv, CreatesFresh
    <3> QED  BY <1>2, <1>4, <2>1, <3>1 DEF Fresh
  <2> QED  BY <2>2, <2>3
<1>6. ASSUME NEW id \in DOMAIN shown' \ astray'
      PROVE  Agrees(id)'
  <2>1. Agrees(id)
    BY <1>2, <1>6 DEF SInv
  <2>2. Saved(id) => Saved(id)'
    BY <1>2 DEF Saved
  <2>3. Coming(id) => Coming(id)'
    BY <1>2, <1>4 DEF Coming, Carries
  <2>4. Going(id) => Going(id)'
    BY <1>2 DEF Going
  <2>5. NoneLater(id)'
    BY <1>2, <1>4, <2>1 DEF Agrees, NoneLater
  <2> QED  BY <2>1, <2>2, <2>3, <2>4, <2>5 DEF Agrees
<1> QED  BY <1>3, <1>5, <1>6 DEF SInv, CreatesFresh

\* A row is written: an older save than the one shown leaves the workflow astray if
\* it comes after it, and is overwritten by it if it comes before.
LEMMA WriteSaved == ASSUME IInv, SInv, NEW call \in calls, Write(call) PROVE SInv'
<1> DEFINE moved == [call EXCEPT !.at = "written"]
<1>1. /\ moved.op = call.op /\ moved.id = call.id /\ moved.at = "written"
      /\ moved.n = call.n /\ moved.awaited = call.awaited
  BY MovedFields DEF IInv, CallKnown
<1>2. /\ call.op = "update" /\ call.at = "read"
      /\ DOMAIN rows' = DOMAIN rows
      /\ \A id \in DOMAIN rows : rows'[id] = IF id = call.id THEN call.n ELSE rows[id]
      /\ calls' = (calls \ {call}) \cup {moved}
      /\ astray \subseteq astray'
      /\ call.id \in DOMAIN rows /\ rows[call.id] > call.n => call.id \in astray'
      /\ UNCHANGED <<shown, deleted, sent>>
  BY DEF Write, Executes, Move, pageVars
<1> HIDE DEF moved
<1>3. call.n \in Nat /\ \A id \in DOMAIN rows : rows[id] \in Nat
  BY DEF SInv, Numbers
<1>4. Numbers' /\ AskedOnce' /\ DeletesDone'
  <2>1. AskedOnce'
    BY <1>1, <1>2, AskedOnceKept
  <2> QED  BY <1>1, <1>2, <1>3, <2>1 DEF SInv, Numbers, DeletesDone
<1>5. ASSUME NEW c \in calls', c.op = "create"
      PROVE  Fresh(c)'
  <2>1. c \in calls /\ Fresh(c)
    BY <1>1, <1>2, <1>5 DEF SInv, CreatesFresh
  <2>2. (\E l \in calls' : l.op = "list" /\ l.awaited) => \E l \in calls : l.op = "list" /\ l.awaited
    BY <1>1, <1>2
  <2>3. Updates(c.id) = {} => c.id # call.id /\ Updates(c.id)' = {}
    BY <1>1, <1>2 DEF Updates
  <2> QED  BY <1>2, <2>1, <2>2, <2>3 DEF Fresh
<1>6. ASSUME NEW id \in DOMAIN shown' \ astray'
      PROVE  Agrees(id)'
  <2>1. id \in DOMAIN shown \ astray /\ Agrees(id)
    BY <1>2, <1>6 DEF SInv
  <2>2. NoneLater(id)'
    BY <1>1, <1>2, <2>1 DEF Agrees, NoneLater, Updates
  <2>3. CASE Saved(id)
    <3>1. CASE id = call.id
      <4>1. call.n <= shown[id] /\ ~(rows[id] > call.n) /\ rows[id] = shown[id]
        BY <1>2, <1>6, <2>1, <2>3, <3>1 DEF Agrees, NoneLater, Updates, Saved
      <4> QED  BY <1>2, <1>3, <2>2, <2>3, <3>1, <4>1 DEF Agrees, Saved
    <3>2. CASE id # call.id
      BY <1>2, <2>2, <2>3, <3>2 DEF Agrees, Saved
    <3> QED  BY <3>1, <3>2
  <2>4. CASE Coming(id)
    <3>1. PICK c \in calls : c.op = "update" /\ c.id = id /\ Carries(c, id)
      BY <2>4 DEF Coming, Updates
    <3>2. c # call => Coming(id)'
      BY <1>2, <3>1 DEF Coming, Updates, Carries
    <3>3. c = call => Saved(id)'
      BY <1>2, <3>1 DEF Saved, Carries
    <3> QED  BY <2>2, <3>2, <3>3 DEF Agrees
  <2>5. CASE Going(id)
    BY <1>2, <2>2, <2>5 DEF Agrees, Going
  <2> QED  BY <2>1, <2>3, <2>4, <2>5 DEF Agrees
<1> QED  BY <1>4, <1>5, <1>6 DEF SInv, CreatesFresh

\* A row is removed: the answer is under way, or nobody waits for it.
LEMMA RemoveSaved == ASSUME IInv, SInv, NEW call \in calls, Remove(call) PROVE SInv'
<1> DEFINE done == [call EXCEPT !.at = "done"]
<1>1. /\ done.op = call.op /\ done.id = call.id /\ done.at = "done"
      /\ done.n = call.n /\ done.awaited = call.awaited
  BY MovedFields DEF IInv, CallKnown
<1>2. /\ call.op = "delete" /\ call.at = "sent"
      /\ DOMAIN rows' = DOMAIN rows \ {call.id}
      /\ \A id \in DOMAIN rows' : rows'[id] = rows[id]
      /\ deleted' = deleted \cup {call.id}
      /\ calls' = (calls \ {call}) \cup {done}
      /\ astray' = IF call.awaited THEN astray ELSE astray \cup {call.id}
      /\ UNCHANGED <<shown, sent>>
  BY DEF Remove, Executes, Move, Without, Restrict, pageVars
<1> HIDE DEF done
<1>3. Numbers' /\ AskedOnce' /\ DeletesDone'
  <2>1. AskedOnce'
    BY <1>1, <1>2, AskedOnceKept
  <2>2. Numbers'
    BY <1>1, <1>2 DEF SInv, Numbers
  <2> QED  BY <1>1, <1>2, <2>1, <2>2 DEF SInv, DeletesDone
<1>4. \A id : Updates(id)' = Updates(id)
  BY <1>1, <1>2 DEF Updates
<1>5. ASSUME NEW c \in calls', c.op = "create"
      PROVE  Fresh(c)'
  <2>1. c \in calls /\ Fresh(c)
    BY <1>1, <1>2, <1>5 DEF SInv, CreatesFresh
  <2>2. (\E l \in calls' : l.op = "list" /\ l.awaited) => \E l \in calls : l.op = "list" /\ l.awaited
    BY <1>1, <1>2
  <2> QED  BY <1>2, <1>4, <2>1, <2>2 DEF Fresh
<1>6. ASSUME NEW id \in DOMAIN shown' \ astray'
      PROVE  Agrees(id)'
  <2>1. id \in DOMAIN shown \ astray /\ Agrees(id)
    BY <1>2, <1>6 DEF SInv
  <2>2. NoneLater(id)'
    BY <1>2, <1>4, <2>1 DEF Agrees, NoneLater
  <2>3. CASE id = call.id
    <3>1. done \in calls' /\ done.awaited
      BY <1>1, <1>2, <1>6, <2>3
    <3> QED  BY <1>1, <1>2, <2>2, <2>3, <3>1 DEF Agrees, Going
  <2>4. CASE id # call.id
    <3>1. Saved(id) => Saved(id)'
      BY <1>2, <2>4 DEF Saved
    <3>2. Coming(id) => Coming(id)'
      BY <1>2, <1>4, <2>4 DEF Coming, Carries
    <3>3. Going(id) => Going(id)'
      BY <1>2, <2>4 DEF Going
    <3> QED  BY <2>1, <2>2, <3>1, <3>2, <3>3 DEF Agrees
  <2> QED  BY <2>3, <2>4
<1> QED  BY <1>3, <1>5, <1>6 DEF SInv, CreatesFresh

\* The process ends: of what it was serving only the answers are left.
LEMMA ExitSaved == ASSUME SInv, Exit PROVE SInv'
<1>1. /\ calls' \subseteq calls /\ UNCHANGED <<rows, shown, sent, deleted>>
      /\ astray \subseteq astray'
      /\ \A c \in calls : c.at = "done" => c \in calls'
      /\ \A c \in calls : c.at # "done" /\ c.op # "list" => c.id \in astray'
  BY DEF Exit, pageVars
<1>2. Numbers' /\ AskedOnce' /\ DeletesDone'
  BY <1>1 DEF SInv, Numbers, AskedOnce, DeletesDone
<1>3. ASSUME NEW c \in calls', c.op = "create"
      PROVE  Fresh(c)'
  <2>1. c \in calls /\ Fresh(c) /\ Updates(c.id)' \subseteq Updates(c.id)
    BY <1>1, <1>3 DEF SInv, CreatesFresh, Updates
  <2> QED  BY <1>1, <2>1 DEF Fresh
<1>4. ASSUME NEW id \in DOMAIN shown' \ astray'
      PROVE  Agrees(id)'
  <2>1. Agrees(id) /\ Updates(id)' \subseteq Updates(id)
    BY <1>1, <1>4 DEF SInv, Updates
  <2>2. ~Coming(id)
    BY <1>1, <1>4 DEF Coming, Updates, Carries
  <2> QED  BY <1>1, <2>1, <2>2 DEF Agrees, NoneLater, Saved, Going
<1> QED  BY <1>2, <1>3, <1>4 DEF SInv, CreatesFresh

-----------------------------------------------------------------------------
\* Every step preserves what is known of the saves.
LEMMA NextSaved == IInv /\ SInv /\ [Next]_vars => SInv'
<1> SUFFICES ASSUME IInv, SInv, [Next]_vars PROVE SInv'
  OBVIOUS
<1>1. CASE \E id \in DOMAIN shown : Select(id)
  BY <1>1, SameSaved DEF Select, table
<1>2. CASE Change
  BY <1>2, ChangeSaved
<1>3. CASE (\E id \in Ids : Create(id)) \/ (\E id \in DOMAIN shown : Delete(id))
  BY <1>3, AskSaved
<1>4. ASSUME NEW call \in calls,
             Lose(call) \/ Fail(call) \/ ServeList(call) \/ Read(call) \/ ReadAgain(call)
      PROVE  SInv'
  BY <1>4, QuietSteps
<1>5. ASSUME NEW call \in calls, Answer(call) \/ Insert(call) \/ Write(call) \/ Remove(call)
      PROVE  SInv'
  BY <1>5, AnswerSaved, InsertSaved, WriteSaved, RemoveSaved
<1>6. CASE Exit
  BY <1>6, ExitSaved
<1>7. CASE Stop \/ Start \/ UNCHANGED vars
  BY <1>7, SameSaved DEF Stop, Start, vars, table, pageVars
<1> QED  BY <1>1, <1>2, <1>3, <1>4, <1>5, <1>6, <1>7 DEF Next

\* Once nothing is under way for a workflow, the page shows it as it is saved, for
\* any number of workflows, calls and starts of the gateway.
THEOREM PageAgreesWithTable == Spec => []SettledAsSaved
<1>1. IInv /\ SInv /\ [Next]_vars => (IInv /\ SInv)'
  BY NextInv, NextSaved
<1>2. Init => IInv /\ SInv
  BY InitInv, SavedInit
<1> QED  BY <1>1, <1>2, AgreesSettled, PTL DEF Spec
=============================================================================
