----------------------------- MODULE ConfigStore -----------------------------
(***************************************************************************)
(* The config_versions table of the gateway and the handlers that use it:  *)
(* POST /admin/publish, POST /admin/rollback and GET /config, each in a    *)
(* goroutine with a database connection of its own, one action per SQL     *)
(* statement.                                                              *)
(*                                                                         *)
(* SQLite runs in its default rollback-journal mode (NewDatabase sets no   *)
(* pragma).  A transaction is deferred: its first read takes the SHARED    *)
(* lock, its first write the RESERVED lock, and its commit waits behind a  *)
(* PENDING lock until no other connection is SHARED.  Which lock a         *)
(* connection holds follows from the statement it has reached.             *)
(***************************************************************************)
EXTENDS Integers, Sequences

CONSTANTS
  Handlers,    \* request goroutines
  MaxVersion   \* publish is not called any more at this version (bound)

ASSUME MaxVersionAssumption == MaxVersion \in Nat

VARIABLES
  rows,        \* the committed table: rows[v] is the row of version v
  dirty,       \* dirty[h] : the table as the open transaction of h sees it
  pc,          \* pc[h] : the statement h is about to execute
  request,     \* request[h] : the request h serves
  version,     \* version[h] : the local or parameter of that name
  answer       \* answer[h] : a version, 0 for the default policy, or an error

vars == <<rows, dirty, pc, request, version, answer>>

\* A policy is published for v1 devices only or for v1 and v2 devices.
Dsl == {"v1", "v2"}

Row == [active : {0, 1}, dsl : Dsl]

\* Two error answers: the request failed; "version N not found".
Failed == -1
Missing == -2

\* What the clients send.  A "malformed" request stands for a publish that
\* fails validation before the database is reached.
Requests ==
  [op : {"publish"}, dsl : Dsl, target : {0}]
    \cup [op : {"malformed"}, dsl : {"v1"}, target : {0}]
    \cup [op : {"rollback"}, dsl : {"v1"}, target : 0 .. MaxVersion + 1]
    \cup [op : {"poll"}, dsl : Dsl, target : {0}]

\* A goroutine that serves nobody.
NoRequest == [op |-> "none", dsl |-> "v1", target |-> 0]

Labels == {"idle", "refuse", "deactivate", "insert", "check", "demote", "promote",
           "commit", "drain", "readback", "select", "reply"}

(***************************************************************************)
(* Locks, by the statement a connection has reached.                       *)
(***************************************************************************)
HoldsReserved(h) == pc[h] \in {"insert", "promote", "commit", "drain"}
HoldsShared(h) == pc[h] = "demote" \/ HoldsReserved(h)
HoldsPending(h) == pc[h] = "drain"

NoWriterBut(h) == \A g \in Handlers \ {h} : ~HoldsReserved(g)
NoReaderBut(h) == \A g \in Handlers \ {h} : ~HoldsShared(g)
NoPending == \A g \in Handlers : ~HoldsPending(g)

\* Mutation: the upgrade of a SHARED lock waits as well.
WaitsOnUpgrade(h) ==
  \/ pc[h] \in {"deactivate", "demote"} /\ ~NoWriterBut(h)
  \/ pc[h] \in {"check", "readback", "select"} /\ ~NoPending
  \/ pc[h] = "drain" /\ ~NoReaderBut(h)

\* h sits in SQLite's busy handler, waiting for another connection.  An
\* upgrade from SHARED ("demote") never waits: it is refused at once.
Waits(h) ==
  \/ pc[h] = "deactivate" /\ ~NoWriterBut(h)
  \/ pc[h] \in {"check", "readback", "select"} /\ ~NoPending
  \/ pc[h] = "drain" /\ ~NoReaderBut(h)

-----------------------------------------------------------------------------
Active(table) == {v \in DOMAIN table : table[v].active = 1}

\* SELECT ... WHERE is_active = 1 ORDER BY version DESC LIMIT 1; 0 if no row.
ActiveVersion(table) ==
  IF Active(table) = {} THEN 0
  ELSE CHOOSE v \in Active(table) : \A w \in Active(table) : w <= v

\* Mutation: SET is_active = is_active - 1.
DecrementedFlags(table) ==
  [v \in DOMAIN table |-> [active |-> table[v].active - 1, dsl |-> table[v].dsl]]

\* UPDATE config_versions SET is_active = 0
Deactivated(table) ==
  [v \in DOMAIN table |-> [active |-> 0, dsl |-> table[v].dsl]]

\* The policy GET /config serves: the default one (0) when nothing is active,
\* and when the device asks for v2 and the active version carries none.
Served(r) ==
  LET v == ActiveVersion(rows)
  IN  IF v # 0 /\ r.dsl = "v2" /\ rows[v].dsl = "v1" THEN 0 ELSE v

Goto(h, label) == pc' = [pc EXCEPT ![h] = label]

\* The handler answers a; its transaction, if one is open, is over.
Finish(h, a) ==
  /\ Goto(h, "reply")
  /\ answer' = [answer EXCEPT ![h] = a]
  /\ dirty' = [dirty EXCEPT ![h] = <<>>]

Init ==
  /\ rows = <<>>
  /\ dirty = [h \in Handlers |-> <<>>]
  /\ pc = [h \in Handlers |-> "idle"]
  /\ request = [h \in Handlers |-> NoRequest]
  /\ version = [h \in Handlers |-> 0]
  /\ answer = [h \in Handlers |-> Failed]

\* The first statement a request executes, if the handler lets it through.
Entry(r) ==
  CASE r.op = "publish" -> "deactivate"
    [] r.op = "rollback" /\ r.target > 0 -> "check"
    [] r.op = "poll" -> "select"
    [] OTHER -> "refuse"

\* A request arrives.
Call(h, r) ==
  /\ pc[h] = "idle"
  /\ r.op = "publish" => Len(rows) < MaxVersion
  /\ request' = [request EXCEPT ![h] = r]
  /\ Goto(h, Entry(r))
  /\ version' = [version EXCEPT ![h] = r.target]
  /\ UNCHANGED <<rows, dirty, answer>>

\* The request fails the handler's validation, before any SQL.
Refuse(h) ==
  /\ pc[h] = "refuse"
  /\ Finish(h, Failed)
  /\ UNCHANGED <<rows, request, version>>

\* PublishConfig: begin; deactivate the active row.
Deactivate(h) ==
  /\ pc[h] = "deactivate"
  /\ NoWriterBut(h)
  /\ dirty' = [dirty EXCEPT ![h] = Deactivated(rows)]
  /\ Goto(h, "insert")
  /\ UNCHANGED <<rows, request, version, answer>>

\* PublishConfig: insert the new row as the active one; LastInsertId.
Insert(h) ==
  /\ pc[h] = "insert"
  /\ dirty' = [dirty EXCEPT ![h] = Append(@, [active |-> 1, dsl |-> request[h].dsl])]
  /\ version' = [version EXCEPT ![h] = Len(dirty[h]) + 1]
  /\ Goto(h, "commit")
  /\ UNCHANGED <<rows, request, answer>>

\* Mutation: the existence query is dropped.
CheckNothing(h) ==
  /\ pc[h] = "check"
  /\ NoPending
  /\ Goto(h, "demote")
  /\ UNCHANGED <<rows, dirty, request, version, answer>>

\* Mutation: a missing version is not answered.
CheckWithoutAnswer(h) ==
  /\ CheckNothing(h)
  /\ request[h].target \in DOMAIN rows

\* RollbackToVersion: begin; does the version exist?
Check(h) ==
  /\ pc[h] = "check"
  /\ NoPending
  /\ \/ /\ request[h].target \in DOMAIN rows
        /\ Goto(h, "demote")
        /\ UNCHANGED <<dirty, answer>>
     \/ /\ request[h].target \notin DOMAIN rows
        /\ Finish(h, Missing)
  /\ UNCHANGED <<rows, request, version>>

\* RollbackToVersion: deactivate every row, which upgrades the SHARED lock.
Demote(h) ==
  /\ pc[h] = "demote"
  /\ NoWriterBut(h)
  /\ dirty' = [dirty EXCEPT ![h] = Deactivated(rows)]
  /\ Goto(h, "promote")
  /\ UNCHANGED <<rows, request, version, answer>>

\* RollbackToVersion: activate the target row.
Promote(h) ==
  /\ pc[h] = "promote"
  /\ dirty' = [dirty EXCEPT ![h][request[h].target].active = 1]
  /\ Goto(h, "commit")
  /\ UNCHANGED <<rows, request, version, answer>>

\* COMMIT takes the PENDING lock, which keeps new readers out ...
StartCommit(h) ==
  /\ pc[h] = "commit"
  /\ Goto(h, "drain")
  /\ UNCHANGED <<rows, dirty, request, version, answer>>

\* ... and writes the table once the readers have left.
Commit(h) ==
  /\ pc[h] = "drain"
  /\ NoReaderBut(h)
  /\ rows' = dirty[h]
  /\ dirty' = [dirty EXCEPT ![h] = <<>>]
  /\ \/ request[h].op = "publish" /\ Goto(h, "readback") /\ UNCHANGED answer
     \/ /\ request[h].op = "rollback"
        /\ Goto(h, "reply")
        /\ answer' = [answer EXCEPT ![h] = version[h]]
  /\ UNCHANGED <<request, version>>

\* Mutation: the active row is read back instead of the row just published.
ReadBackActive(h) ==
  /\ pc[h] = "readback"
  /\ NoPending
  /\ Finish(h, ActiveVersion(rows))
  /\ UNCHANGED <<rows, request, version>>

\* PublishConfig ends with GetConfigByVersion, outside the transaction.
ReadBack(h) ==
  /\ pc[h] = "readback"
  /\ NoPending
  /\ version[h] \in DOMAIN rows
  /\ Finish(h, version[h])
  /\ UNCHANGED <<rows, request, version>>

\* HandleGetConfig: one SELECT, outside any transaction.
Select(h) ==
  /\ pc[h] = "select"
  /\ NoPending
  /\ Finish(h, Served(request[h]))
  /\ UNCHANGED <<rows, request, version>>

\* The response is written and the goroutine's locals are gone.
Reply(h) ==
  /\ pc[h] = "reply"
  /\ Goto(h, "idle")
  /\ request' = [request EXCEPT ![h] = NoRequest]
  /\ version' = [version EXCEPT ![h] = 0]
  /\ answer' = [answer EXCEPT ![h] = Failed]
  /\ UNCHANGED <<rows, dirty>>

\* What the client is told when the statement of h fails.  RollbackToVersion
\* reports every error of its existence query as a missing version.
ErrorAnswer(h) == IF pc[h] = "check" THEN Missing ELSE Failed

\* The statement ends with SQLITE_BUSY: the busy handler gave up after its
\* timeout, or the upgrade of a SHARED lock met another writer.
Busy(h) ==
  /\ Waits(h) \/ (pc[h] = "demote" /\ ~NoWriterBut(h))
  /\ Finish(h, ErrorAnswer(h))
  /\ UNCHANGED <<rows, request, version>>

\* Any statement may fail (disk full, I/O error): the deferred Rollback ends
\* the transaction and the handler answers 500.
StatementError(h) ==
  /\ pc[h] \notin {"idle", "refuse", "reply"}
  /\ Finish(h, ErrorAnswer(h))
  /\ UNCHANGED <<rows, request, version>>

\* The gateway dies and is restarted: connections and their transactions are
\* gone, the journal restores the committed table, nobody gets an answer.
Restart ==
  /\ pc' = [h \in Handlers |-> "idle"]
  /\ dirty' = [h \in Handlers |-> <<>>]
  /\ request' = [h \in Handlers |-> NoRequest]
  /\ version' = [h \in Handlers |-> 0]
  /\ answer' = [h \in Handlers |-> Failed]
  /\ UNCHANGED rows

\* What h does by itself once it has a request, faults aside.
Step(h) ==
  \/ Refuse(h)
  \/ Deactivate(h) \/ Insert(h)
  \/ Check(h) \/ Demote(h) \/ Promote(h)
  \/ StartCommit(h) \/ Commit(h)
  \/ ReadBack(h) \/ Select(h)
  \/ Busy(h)
  \/ Reply(h)

Next ==
  \/ \E h \in Handlers : \/ \E r \in Requests : Call(h, r)
                         \/ Step(h)
                         \/ StatementError(h)
  \/ Restart

Spec == Init /\ [][Next]_vars

\* A goroutine is scheduled until it has answered; nothing makes clients call.
FairSpec == Spec /\ \A h \in Handlers : WF_vars(Step(h))

-----------------------------------------------------------------------------
TypeOK ==
  /\ rows \in Seq(Row)
  /\ dirty \in [Handlers -> Seq(Row)]
  /\ pc \in [Handlers -> Labels]
  /\ request \in [Handlers -> Requests \cup {NoRequest}]
  /\ version \in [Handlers -> Nat]
  /\ answer \in [Handlers -> Nat \cup {Failed, Missing}]

\* Once something was published exactly one version is active, through any
\* interleaving of publishes, rollbacks, failures and restarts: the pair of
\* updates in PublishConfig and in RollbackToVersion is never seen half done.
ExactlyOneActive == rows # <<>> => \E v \in DOMAIN rows : Active(rows) = {v}

\* Two transactions never hold uncommitted writes at once, so a commit cannot
\* overwrite the table with one that misses another handler's version.
OneWriter ==
  \A g, h \in Handlers : HoldsReserved(g) /\ HoldsReserved(h) => g = h

\* Whatever the handlers wait for, one of them is not waiting for another:
\* a rollback that holds SHARED is refused, not queued, behind a writer that
\* itself waits for readers to leave.
NoLockCycle ==
  (\E h \in Handlers : pc[h] # "idle")
    => \E h \in Handlers : pc[h] # "idle" /\ ~Waits(h)

\* A version, once committed, keeps its policy for ever and is never removed:
\* publishes only append (AUTOINCREMENT), rollbacks only move the flag.
VersionsKept ==
  [][/\ Len(rows') >= Len(rows)
     /\ \A v \in DOMAIN rows : rows'[v].dsl = rows[v].dsl]_rows

\* The refinement mapping.  A request is settled by the commit of its
\* transaction, or by the SELECT of a poll; the answer of a publish is known
\* before the row is read back.
Catalog(table) == [v \in DOMAIN table |-> table[v].dsl]

Phase ==
  [h \in Handlers |-> IF pc[h] = "idle" THEN "idle"
                      ELSE IF pc[h] \in {"reply", "readback"} THEN "settled"
                      ELSE "pending"]

Promised ==
  [h \in Handlers |-> IF pc[h] = "readback" THEN version[h] ELSE answer[h]]

Registry ==
  INSTANCE ConfigRegistry WITH
    Clients <- Handlers, catalog <- Catalog(rows),
    active <- ActiveVersion(rows), phase <- Phase, answer <- Promised

\* The store as its clients see it: every publish, rollback and poll of these
\* handlers is one atomic operation of the registry, or has no effect.
ImplementsRegistry == Registry!Spec

\* Every request is answered: no handler waits for a lock for ever.
Answered == \A h \in Handlers : pc[h] # "idle" ~> pc[h] = "idle"
=============================================================================
