-------------------------- MODULE ConfigStoreProofs --------------------------
(***************************************************************************)
(* Proofs about ConfigStore, for any set of handlers and any bound.        *)
(*                                                                         *)
(* The inductive invariant ties the private view of the one writer to the  *)
(* committed table: from the statement that takes the RESERVED lock to the *)
(* commit, nobody else can change the table, so what is committed is the   *)
(* committed table with every flag cleared and exactly one set again.      *)
(***************************************************************************)
EXTENDS ConfigStore, SequenceTheorems, TLAPS

\* The two tables a transaction may commit over the table t.
PublishedTable(t, b) == Append(Deactivated(t), [active |-> 1, dsl |-> b])
RestoredTable(t, v) == [Deactivated(t) EXCEPT ![v].active = 1]

\* What the request says of the statement a handler has reached.
RequestInv(h) ==
  /\ pc[h] \in {"deactivate", "insert", "readback"} => request[h].op = "publish"
  /\ pc[h] \in {"check", "demote", "promote"} => request[h].op = "rollback"
  /\ pc[h] \in {"commit", "drain"} => request[h].op \in {"publish", "rollback"}
  /\ pc[h] = "select" => request[h].op = "poll"
  /\ pc[h] \in {"check", "demote", "promote", "commit", "drain"}
       /\ request[h].op = "rollback" => version[h] = request[h].target
  /\ pc[h] \in {"demote", "promote", "commit", "drain"}
       /\ request[h].op = "rollback" => request[h].target \in DOMAIN rows
  /\ pc[h] = "readback" => version[h] \in DOMAIN rows

\* What the open transaction of a handler is about to commit.
WriterInv(h) ==
  /\ pc[h] \in {"insert", "promote"} => dirty[h] = Deactivated(rows)
  /\ pc[h] \in {"commit", "drain"} /\ request[h].op = "publish" =>
       /\ dirty[h] = PublishedTable(rows, request[h].dsl)
       /\ version[h] = Len(rows) + 1
  /\ pc[h] \in {"commit", "drain"} /\ request[h].op = "rollback" =>
       dirty[h] = RestoredTable(rows, request[h].target)

IInv ==
  /\ TypeOK
  /\ ExactlyOneActive
  /\ OneWriter
  /\ \A h \in Handlers : RequestInv(h) /\ WriterInv(h)

-----------------------------------------------------------------------------
(* Lemmas about tables. *)

\* A row is a flag and a policy.
LEMMA RowFacts ==
  /\ \A r \in Row : r.dsl \in Dsl
  /\ \A d \in Dsl, a \in {0, 1} : [active |-> a, dsl |-> d] \in Row
BY DEF Row

\* A request names a policy and a version.
LEMMA RequestFacts ==
  \A r \in Requests \cup {NoRequest} : r.dsl \in Dsl /\ r.target \in Nat
BY MaxVersionAssumption DEF Requests, NoRequest, Dsl

\* Every entry of a table is a row.
LEMMA TableFacts ==
  ASSUME NEW t \in Seq(Row)
  PROVE  /\ Len(t) \in Nat
         /\ DOMAIN t = 1 .. Len(t)
         /\ \A v \in 1 .. Len(t) : t[v] \in Row /\ t[v].dsl \in Dsl
<1>1. Len(t) \in Nat /\ DOMAIN t = 1 .. Len(t) /\ \A v \in 1 .. Len(t) : t[v] \in Row
  OBVIOUS
<1> QED  BY <1>1, RowFacts

\* Clearing the flags keeps the rows and their policies and leaves none active.
LEMMA DeactivatedTable ==
  ASSUME NEW t \in Seq(Row)
  PROVE  /\ Deactivated(t) \in Seq(Row)
         /\ Len(Deactivated(t)) = Len(t)
         /\ DOMAIN Deactivated(t) = DOMAIN t
         /\ Active(Deactivated(t)) = {}
         /\ \A v \in DOMAIN t : Deactivated(t)[v] = [active |-> 0, dsl |-> t[v].dsl]
<1>1. DOMAIN t = 1 .. Len(t) /\ \A v \in DOMAIN t : t[v].dsl \in Dsl
  BY TableFacts
<1>2. DOMAIN Deactivated(t) = 1 .. Len(t)
  BY <1>1 DEF Deactivated
<1>3. \A v \in DOMAIN t : Deactivated(t)[v] = [active |-> 0, dsl |-> t[v].dsl]
  BY DEF Deactivated
<1>4. \A v \in 1 .. Len(t) : Deactivated(t)[v] \in Row
  BY <1>1, <1>3, RowFacts
<1>5. Deactivated(t) \in [1 .. Len(t) -> Row]
  BY <1>2, <1>4 DEF Deactivated
<1>6. Deactivated(t) \in Seq(Row)
  BY <1>5, IsASeq
<1>7. Len(Deactivated(t)) = Len(t)
  BY <1>2, <1>6
<1>8. \A v \in DOMAIN Deactivated(t) : Deactivated(t)[v].active = 0
  BY <1>1, <1>2, <1>3
<1>9. Active(Deactivated(t)) = {}
  BY <1>8 DEF Active
<1> QED  BY <1>1, <1>2, <1>3, <1>6, <1>7, <1>9

\* A publish commits one more row, the only active one.
LEMMA PublishedTableFacts ==
  ASSUME NEW t \in Seq(Row), NEW b \in Dsl
  PROVE  /\ PublishedTable(t, b) \in Seq(Row)
         /\ Len(PublishedTable(t, b)) = Len(t) + 1
         /\ Active(PublishedTable(t, b)) = {Len(t) + 1}
         /\ \A v \in DOMAIN t : PublishedTable(t, b)[v].dsl = t[v].dsl
         /\ PublishedTable(t, b)[Len(t) + 1].dsl = b
<1> DEFINE d == Deactivated(t)
           r == [active |-> 1, dsl |-> b]
           p == Append(d, r)
<1>1. d \in Seq(Row) /\ Len(d) = Len(t) /\ DOMAIN t = 1 .. Len(t)
      /\ \A v \in DOMAIN t : d[v] = [active |-> 0, dsl |-> t[v].dsl]
  BY DeactivatedTable
<1>2. r \in Row
  BY DEF Row
<1>3. p \in Seq(Row) /\ Len(p) = Len(t) + 1 /\ DOMAIN p = 1 .. Len(t) + 1
  <2> HIDE DEF d, r
  <2> QED  BY <1>1, <1>2
<1>4. p[Len(t) + 1] = r /\ \A v \in 1 .. Len(t) : p[v] = d[v]
  <2> HIDE DEF d, r
  <2> QED  BY <1>1, <1>2
<1>5. \A v \in 1 .. Len(t) : p[v].active = 0 /\ p[v].dsl = t[v].dsl
  <2> SUFFICES ASSUME NEW v \in 1 .. Len(t)
               PROVE  p[v].active = 0 /\ p[v].dsl = t[v].dsl
    OBVIOUS
  <2> HIDE DEF d, p, r
  <2>1. p[v] = [active |-> 0, dsl |-> t[v].dsl]
    BY <1>1, <1>4
  <2> QED  BY <2>1
<1>6. p[Len(t) + 1].active = 1 /\ p[Len(t) + 1].dsl = b
  <2> HIDE DEF p
  <2> QED  BY <1>4
<1>7. \A v \in DOMAIN p : p[v].active = 1 <=> v = Len(t) + 1
  <2> HIDE DEF p
  <2> QED  BY <1>3, <1>5, <1>6
<1>8. Len(t) + 1 \in DOMAIN p
  <2> HIDE DEF p
  <2> QED  BY <1>3
<1>9. Active(p) = {Len(t) + 1}
  <2> HIDE DEF p
  <2> QED  BY <1>7, <1>8 DEF Active
<1> QED
  <2>1. PublishedTable(t, b) = p
    BY DEF PublishedTable
  <2> HIDE DEF p
  <2> QED  BY <2>1, <1>1, <1>3, <1>5, <1>6, <1>9

\* A rollback commits the same rows, its target being the only active one.
LEMMA RestoredTableFacts ==
  ASSUME NEW t \in Seq(Row), NEW v \in DOMAIN t
  PROVE  /\ RestoredTable(t, v) \in Seq(Row)
         /\ Len(RestoredTable(t, v)) = Len(t)
         /\ Active(RestoredTable(t, v)) = {v}
         /\ \A w \in DOMAIN t : RestoredTable(t, v)[w].dsl = t[w].dsl
<1> DEFINE d == Deactivated(t)
           p == RestoredTable(t, v)
<1>1. d \in Seq(Row) /\ Len(d) = Len(t) /\ DOMAIN d = DOMAIN t
      /\ \A w \in DOMAIN t : d[w] = [active |-> 0, dsl |-> t[w].dsl]
  BY DeactivatedTable
<1>2. DOMAIN p = 1 .. Len(t)
  BY <1>1 DEF RestoredTable
<1>3. \A w \in 1 .. Len(t) :
        p[w] = [active |-> IF w = v THEN 1 ELSE 0, dsl |-> t[w].dsl]
  BY <1>1 DEF RestoredTable
<1>4. \A w \in 1 .. Len(t) : p[w] \in Row
  <2>1. \A w \in 1 .. Len(t) : t[w].dsl \in Dsl
    BY TableFacts
  <2> HIDE DEF p, d
  <2> QED  BY <1>3, <2>1, RowFacts
<1>5. p \in [1 .. Len(t) -> Row]
  BY <1>2, <1>4 DEF RestoredTable
<1>6. p \in Seq(Row)
  BY <1>5, IsASeq
<1>7. Active(p) = {v}
  BY <1>2, <1>3 DEF Active
<1> QED  BY <1>2, <1>3, <1>6, <1>7

-----------------------------------------------------------------------------
(* The invariant is inductive. *)

\* The gateway starts with an empty table and no request.
LEMMA InitInv == Init => IInv
<1> SUFFICES ASSUME Init PROVE IInv
  OBVIOUS
<1>1. TypeOK
  <2>1. rows \in Seq(Row) /\ dirty \in [Handlers -> Seq(Row)]
    BY DEF Init
  <2> QED  BY <2>1 DEF Init, TypeOK, Labels
<1>2. ExactlyOneActive /\ OneWriter
  BY DEF Init, ExactlyOneActive, OneWriter, HoldsReserved
<1>3. \A h \in Handlers : RequestInv(h) /\ WriterInv(h)
  BY DEF Init, RequestInv, WriterInv
<1> QED  BY <1>1, <1>2, <1>3 DEF IInv

\* A call starts a handler at a statement that fits its request.
LEMMA CallInv ==
  ASSUME IInv, NEW h \in Handlers, NEW r \in Requests, Call(h, r)
  PROVE  IInv'
<1> USE DEF IInv, Call, Goto, Entry
<1>1. Entry(r) \in {"deactivate", "check", "select", "refuse"} /\ r.target \in Nat
  BY RequestFacts DEF Requests
<1>2. TypeOK'
  BY <1>1 DEF TypeOK, Labels
<1>3. ExactlyOneActive'
  BY DEF ExactlyOneActive, Active
<1>4. OneWriter'
  BY <1>1 DEF OneWriter, HoldsReserved, TypeOK
<1>5. ASSUME NEW g \in Handlers PROVE RequestInv(g)' /\ WriterInv(g)'
  <2>1. CASE g = h
    BY <2>1, <1>1 DEF RequestInv, WriterInv, TypeOK
  <2>2. CASE g # h
    BY <2>2, <1>1 DEF RequestInv, WriterInv, TypeOK
  <2> QED  BY <2>1, <2>2
<1> QED  BY <1>2, <1>3, <1>4, <1>5

\* A handler that answers lets go of its transaction.
LEMMA FinishInv ==
  ASSUME IInv, NEW h \in Handlers, NEW a \in Nat \cup {Failed, Missing},
         Finish(h, a), UNCHANGED <<rows, request, version>>
  PROVE  IInv'
<1> USE DEF IInv, Finish, Goto
<1>1. TypeOK'
  BY DEF TypeOK, Labels
<1>2. ExactlyOneActive'
  BY DEF ExactlyOneActive, Active
<1>3. OneWriter'
  BY DEF OneWriter, HoldsReserved, TypeOK
<1>4. ASSUME NEW g \in Handlers PROVE RequestInv(g)' /\ WriterInv(g)'
  <2>1. CASE g = h
    BY <2>1 DEF RequestInv, WriterInv, TypeOK
  <2>2. CASE g # h
    BY <2>2 DEF RequestInv, WriterInv, TypeOK
  <2> QED  BY <2>1, <2>2
<1> QED  BY <1>1, <1>2, <1>3, <1>4

\* The first write of a transaction starts from the committed table.
LEMMA FirstWriteInv ==
  ASSUME IInv, NEW h \in Handlers, Deactivate(h) \/ Demote(h)
  PROVE  IInv'
<1> USE DEF IInv, Deactivate, Demote, Goto
<1> DEFINE next == IF pc[h] = "deactivate" THEN "insert" ELSE "promote"
<1>1. /\ pc[h] \in {"deactivate", "demote"}
      /\ pc' = [pc EXCEPT ![h] = next]
      /\ next \in {"insert", "promote"}
      /\ NoWriterBut(h)
      /\ dirty' = [dirty EXCEPT ![h] = Deactivated(rows)]
      /\ UNCHANGED <<rows, request, version, answer>>
  OBVIOUS
<1>2. Deactivated(rows) \in Seq(Row)
  BY DeactivatedTable DEF TypeOK
<1>3. TypeOK'
  BY <1>1, <1>2 DEF TypeOK, Labels
<1>4. ExactlyOneActive'
  BY <1>1 DEF ExactlyOneActive, Active
<1>5. OneWriter'
  BY <1>1 DEF OneWriter, NoWriterBut, HoldsReserved, TypeOK
<1>6. ASSUME NEW g \in Handlers PROVE RequestInv(g)' /\ WriterInv(g)'
  <2>1. CASE g = h
    BY <2>1, <1>1 DEF RequestInv, WriterInv, TypeOK
  <2>2. CASE g # h
    BY <2>2, <1>1 DEF RequestInv, WriterInv, TypeOK
  <2> QED  BY <2>1, <2>2
<1> QED  BY <1>3, <1>4, <1>5, <1>6

\* The insert of a publish completes the table it will commit.
LEMMA InsertInv ==
  ASSUME IInv, NEW h \in Handlers, Insert(h)
  PROVE  IInv'
<1> USE DEF IInv, Insert, Goto
<1>1. rows \in Seq(Row) /\ request[h] \in Requests \cup {NoRequest}
      /\ request[h].op = "publish" /\ dirty[h] = Deactivated(rows)
  BY DEF TypeOK, RequestInv, WriterInv
<1>2. request[h].dsl \in Dsl
  BY <1>1, RequestFacts
<1>3. dirty' = [dirty EXCEPT ![h] = PublishedTable(rows, request[h].dsl)]
  BY <1>1 DEF PublishedTable
<1>4. version' = [version EXCEPT ![h] = Len(rows) + 1] /\ Len(rows) \in Nat
  <2>1. Len(dirty[h]) = Len(rows) /\ Len(rows) \in Nat
    BY <1>1, DeactivatedTable, TableFacts
  <2> QED  BY <2>1
<1>5. PublishedTable(rows, request[h].dsl) \in Seq(Row)
  BY <1>1, <1>2, PublishedTableFacts
<1>6. TypeOK'
  BY <1>3, <1>4, <1>5 DEF TypeOK, Labels
<1>7. ExactlyOneActive'
  BY DEF ExactlyOneActive, Active
<1>8. OneWriter'
  BY DEF OneWriter, HoldsReserved, TypeOK
<1>9. ASSUME NEW g \in Handlers PROVE RequestInv(g)' /\ WriterInv(g)'
  <2>1. CASE g = h
    BY <2>1, <1>1, <1>3, <1>4 DEF RequestInv, WriterInv, TypeOK
  <2>2. CASE g # h
    BY <2>2 DEF RequestInv, WriterInv, TypeOK
  <2> QED  BY <2>1, <2>2
<1> QED  BY <1>6, <1>7, <1>8, <1>9

\* So does the second update of a rollback.
LEMMA PromoteInv ==
  ASSUME IInv, NEW h \in Handlers, Promote(h)
  PROVE  IInv'
<1> USE DEF IInv, Promote, Goto
<1>1. rows \in Seq(Row) /\ request[h].target \in DOMAIN rows
      /\ request[h].op = "rollback" /\ dirty[h] = Deactivated(rows)
  BY DEF TypeOK, RequestInv, WriterInv
<1>2. dirty' = [dirty EXCEPT ![h] = RestoredTable(rows, request[h].target)]
  BY <1>1 DEF RestoredTable
<1>3. RestoredTable(rows, request[h].target) \in Seq(Row)
  BY <1>1, RestoredTableFacts
<1>4. TypeOK'
  BY <1>2, <1>3 DEF TypeOK, Labels
<1>5. ExactlyOneActive'
  BY DEF ExactlyOneActive, Active
<1>6. OneWriter'
  BY DEF OneWriter, HoldsReserved, TypeOK
<1>7. ASSUME NEW g \in Handlers PROVE RequestInv(g)' /\ WriterInv(g)'
  <2>1. CASE g = h
    BY <2>1, <1>1, <1>2 DEF RequestInv, WriterInv, TypeOK
  <2>2. CASE g # h
    BY <2>2 DEF RequestInv, WriterInv, TypeOK
  <2> QED  BY <2>1, <2>2
<1> QED  BY <1>4, <1>5, <1>6, <1>7

\* What the writer commits has one active version, and nobody else has
\* uncommitted writes that would be based on the old table.
LEMMA CommittedTable ==
  ASSUME IInv, NEW h \in Handlers, pc[h] = "drain"
  PROVE  /\ dirty[h] \in Seq(Row)
         /\ \E v \in DOMAIN dirty[h] : Active(dirty[h]) = {v}
         /\ Len(rows) \in Nat /\ Len(dirty[h]) \in Nat
         /\ Len(dirty[h]) >= Len(rows)
         /\ DOMAIN rows \subseteq DOMAIN dirty[h]
         /\ \A v \in DOMAIN rows : dirty[h][v].dsl = rows[v].dsl
         /\ request[h].op = "publish" => version[h] \in DOMAIN dirty[h]
<1>1. rows \in Seq(Row) /\ request[h] \in Requests \cup {NoRequest}
      /\ request[h].op \in {"publish", "rollback"} /\ RequestInv(h) /\ WriterInv(h)
  BY DEF IInv, TypeOK, RequestInv
<1>2. Len(rows) \in Nat /\ DOMAIN rows = 1 .. Len(rows)
  BY <1>1, TableFacts
<1>3. CASE request[h].op = "publish"
  <2>1. request[h].dsl \in Dsl
    BY <1>1, RequestFacts
  <2>2. dirty[h] = PublishedTable(rows, request[h].dsl) /\ version[h] = Len(rows) + 1
    BY <1>1, <1>3 DEF WriterInv
  <2>3. /\ dirty[h] \in Seq(Row)
        /\ Len(dirty[h]) = Len(rows) + 1
        /\ Active(dirty[h]) = {Len(rows) + 1}
        /\ \A v \in DOMAIN rows : dirty[h][v].dsl = rows[v].dsl
    BY <1>1, <2>1, <2>2, PublishedTableFacts
  <2>4. DOMAIN dirty[h] = 1 .. Len(rows) + 1
    BY <2>3, TableFacts
  <2> QED  BY <1>2, <2>2, <2>3, <2>4
<1>4. CASE request[h].op = "rollback"
  <2> DEFINE t == request[h].target
  <2>1. dirty[h] = RestoredTable(rows, t) /\ t \in DOMAIN rows
    BY <1>1, <1>4 DEF WriterInv, RequestInv
  <2>2. /\ dirty[h] \in Seq(Row)
        /\ Len(dirty[h]) = Len(rows)
        /\ Active(dirty[h]) = {t}
        /\ \A v \in DOMAIN rows : dirty[h][v].dsl = rows[v].dsl
    BY <1>1, <2>1, RestoredTableFacts
  <2>3. DOMAIN dirty[h] = DOMAIN rows
    BY <1>2, <2>2, TableFacts
  <2> QED  BY <1>2, <1>4, <2>1, <2>2, <2>3
<1> QED  BY <1>1, <1>3, <1>4

\* A commit replaces the table while no transaction but its own is open.
LEMMA CommitInv ==
  ASSUME IInv, NEW h \in Handlers, Commit(h)
  PROVE  IInv'
<1> USE DEF IInv, Commit, Goto
<1>1. /\ dirty[h] \in Seq(Row)
      /\ \E v \in DOMAIN dirty[h] : Active(dirty[h]) = {v}
      /\ DOMAIN rows \subseteq DOMAIN dirty[h]
      /\ request[h].op = "publish" => version[h] \in DOMAIN dirty[h]
  BY CommittedTable
<1>2. rows' = dirty[h] /\ UNCHANGED <<request, version>>
      /\ pc' = [pc EXCEPT ![h] = IF request[h].op = "publish" THEN "readback" ELSE "reply"]
      /\ answer' \in [Handlers -> Nat \cup {Failed, Missing}]
  BY DEF TypeOK
<1>3. TypeOK'
  <2>1. dirty' \in [Handlers -> Seq(Row)] /\ rows' \in Seq(Row)
    BY <1>1 DEF TypeOK
  <2>2. pc' \in [Handlers -> Labels]
    BY <1>2 DEF TypeOK, Labels
  <2> QED  BY <1>2, <2>1, <2>2 DEF TypeOK
<1>4. ExactlyOneActive'
  BY <1>1, <1>2 DEF ExactlyOneActive, Active
<1>5. OneWriter'
  BY <1>2 DEF OneWriter, HoldsReserved, TypeOK
<1>6. ASSUME NEW g \in Handlers PROVE RequestInv(g)' /\ WriterInv(g)'
  <2>1. CASE g = h
    BY <2>1, <1>1, <1>2 DEF RequestInv, WriterInv, TypeOK
  <2>2. CASE g # h
    <3>1. ~HoldsShared(g) /\ pc'[g] = pc[g]
      BY <2>2, <1>2 DEF NoReaderBut, TypeOK
    <3>2. RequestInv(g)'
      BY <3>1, <1>1, <1>2 DEF RequestInv, HoldsShared, HoldsReserved
    <3>3. WriterInv(g)'
      BY <3>1 DEF WriterInv, HoldsShared, HoldsReserved
    <3> QED  BY <3>2, <3>3
  <2> QED  BY <2>1, <2>2
<1> QED  BY <1>3, <1>4, <1>5, <1>6

\* The other statements leave every table alone.
LEMMA QuietInv ==
  ASSUME IInv, NEW h \in Handlers,
         \/ pc[h] = "check" /\ request[h].target \in DOMAIN rows
              /\ Goto(h, "demote") /\ UNCHANGED <<rows, dirty, request, version, answer>>
         \/ StartCommit(h)
         \/ Reply(h)
  PROVE  IInv'
<1> USE DEF IInv, StartCommit, Reply, Goto
<1>1. TypeOK'
  <2>1. CASE Reply(h)
    <3>1. /\ request' \in [Handlers -> Requests \cup {NoRequest}]
          /\ version' \in [Handlers -> Nat]
          /\ answer' \in [Handlers -> Nat \cup {Failed, Missing}]
      BY <2>1 DEF TypeOK
    <3> QED  BY <2>1, <3>1 DEF TypeOK, Labels
  <2>2. CASE ~Reply(h)
    BY <2>2 DEF TypeOK, Labels
  <2> QED  BY <2>1, <2>2
<1>2. ExactlyOneActive'
  BY DEF ExactlyOneActive, Active
<1>3. OneWriter'
  BY DEF OneWriter, HoldsReserved, TypeOK
<1>4. ASSUME NEW g \in Handlers PROVE RequestInv(g)' /\ WriterInv(g)'
  <2>1. CASE g = h
    BY <2>1 DEF RequestInv, WriterInv, TypeOK
  <2>2. CASE g # h
    BY <2>2 DEF RequestInv, WriterInv, TypeOK
  <2> QED  BY <2>1, <2>2
<1> QED  BY <1>1, <1>2, <1>3, <1>4

\* What a poll is served is a published version or the default policy.
LEMMA ServedType ==
  ASSUME TypeOK, ExactlyOneActive, NEW r
  PROVE  /\ ActiveVersion(rows) \in {0} \cup DOMAIN rows
         /\ Served(r) \in Nat
<1>1. DOMAIN rows \subseteq Nat
  BY TableFacts DEF TypeOK
<1>2. ActiveVersion(rows) \in {0} \cup DOMAIN rows
  <2>1. CASE Active(rows) = {}
    BY <2>1 DEF ActiveVersion
  <2>2. CASE Active(rows) # {}
    <3>1. rows # <<>>
      BY <2>2 DEF Active
    <3>2. PICK v \in DOMAIN rows : Active(rows) = {v}
      BY <3>1 DEF ExactlyOneActive
    <3>3. v \in Nat
      BY <1>1
    <3>4. ActiveVersion(rows) \in Active(rows)
      BY <2>2, <3>2, <3>3 DEF ActiveVersion
    <3> QED  BY <3>2, <3>4
  <2> QED  BY <2>1, <2>2
<1>3. ActiveVersion(rows) \in Nat
  BY <1>1, <1>2
<1> QED  BY <1>2, <1>3 DEF Served

\* Every step of a handler, and a restart, keeps the invariant.
LEMMA NextInv == IInv /\ [Next]_vars => IInv'
<1> SUFFICES ASSUME IInv, [Next]_vars PROVE IInv'
  OBVIOUS
<1>1. CASE UNCHANGED vars
  BY <1>1 DEF IInv, TypeOK, ExactlyOneActive, Active, OneWriter, HoldsReserved,
              RequestInv, WriterInv, vars
<1>2. CASE Restart
  <2>1. TypeOK'
    <3>1. dirty' \in [Handlers -> Seq(Row)]
      BY <1>2 DEF Restart
    <3> QED  BY <1>2, <3>1 DEF Restart, IInv, TypeOK, Labels
  <2>2. ExactlyOneActive'
    BY <1>2 DEF Restart, IInv, ExactlyOneActive, Active
  <2>3. OneWriter' /\ \A h \in Handlers : RequestInv(h)' /\ WriterInv(h)'
    BY <1>2 DEF Restart, OneWriter, HoldsReserved, RequestInv, WriterInv
  <2> QED  BY <2>1, <2>2, <2>3 DEF IInv
<1>3. ASSUME NEW h \in Handlers, NEW r \in Requests, Call(h, r)
      PROVE  IInv'
  BY <1>3, CallInv
<1>4. ASSUME NEW h \in Handlers, Step(h) \/ StatementError(h)
      PROVE  IInv'
  <2>1. CASE Refuse(h)
    BY <2>1, FinishInv DEF Refuse
  <2>2. CASE Deactivate(h) \/ Demote(h)
    BY <2>2, FirstWriteInv
  <2>3. CASE Insert(h)
    BY <2>3, InsertInv
  <2>4. CASE Check(h)
    <3>1. CASE request[h].target \in DOMAIN rows
      BY <2>4, <3>1, QuietInv DEF Check
    <3>2. CASE request[h].target \notin DOMAIN rows
      BY <2>4, <3>2, FinishInv DEF Check
    <3> QED  BY <3>1, <3>2
  <2>5. CASE Promote(h)
    BY <2>5, PromoteInv
  <2>6. CASE StartCommit(h) \/ Reply(h)
    BY <2>6, QuietInv
  <2>7. CASE Commit(h)
    BY <2>7, CommitInv
  <2>8. CASE ReadBack(h)
    <3>1. version[h] \in Nat
      BY DEF IInv, TypeOK
    <3> QED  BY <2>8, <3>1, FinishInv DEF ReadBack
  <2>9. CASE Select(h)
    <3>1. Served(request[h]) \in Nat
      BY ServedType DEF IInv
    <3> QED  BY <2>9, <3>1, FinishInv DEF Select
  <2>10. CASE Busy(h) \/ StatementError(h)
    <3>1. ErrorAnswer(h) \in Nat \cup {Failed, Missing}
      BY DEF ErrorAnswer
    <3> QED  BY <2>10, <3>1, FinishInv DEF Busy, StatementError
  <2> QED  BY <1>4, <2>1, <2>2, <2>3, <2>4, <2>5, <2>6, <2>7, <2>8, <2>9, <2>10 DEF Step
<1> QED  BY <1>1, <1>2, <1>3, <1>4 DEF Next

\* The invariant holds throughout.
LEMMA SpecInv == Spec => []IInv
BY InitInv, NextInv, PTL DEF Spec

-----------------------------------------------------------------------------
(* What follows for the store. *)

\* Tables, locals and answers keep their types (the handlers of publish,
\* rollback and poll over config_versions).
THEOREM TypeCorrect == Spec => []TypeOK
<1>1. IInv => TypeOK
  BY DEF IInv
<1> QED  BY <1>1, SpecInv, PTL

\* From the first publish on exactly one version is active, however publishes,
\* rollbacks, SQL errors and restarts interleave.
THEOREM AlwaysOneActive == Spec => []ExactlyOneActive
<1>1. IInv => ExactlyOneActive
  BY DEF IInv
<1> QED  BY <1>1, SpecInv, PTL

\* Two transactions never have uncommitted writes at the same time.
THEOREM WritersExclude == Spec => []OneWriter
<1>1. IInv => OneWriter
  BY DEF IInv
<1> QED  BY <1>1, SpecInv, PTL

\* Nobody waits for ever in a circle: of the handlers that serve a request one at least does
\* not sit in SQLite's busy handler, for the only reader of a transaction that a commit may
\* wait for is a rollback about to write, and that one is refused instead of queued.
THEOREM NobodyLocksOut == Spec => []NoLockCycle
<1>1. IInv => NoLockCycle
  <2> SUFFICES ASSUME IInv, NEW h \in Handlers, pc[h] # "idle"
               PROVE  \E g \in Handlers : pc[g] # "idle" /\ ~Waits(g)
    BY DEF NoLockCycle
  <2>1. CASE \E g \in Handlers : pc[g] = "demote"
    BY <2>1 DEF Waits
  <2>2. CASE \E g \in Handlers : HoldsReserved(g) /\ pc[g] # "drain"
    BY <2>2 DEF Waits, HoldsReserved
  <2>3. CASE \E g \in Handlers : pc[g] = "drain" /\ ~(\E f \in Handlers : pc[f] = "demote")
    <3>1. PICK g \in Handlers : pc[g] = "drain"
      BY <2>3
    <3>2. NoReaderBut(g)
      BY <2>3, <3>1 DEF IInv, OneWriter, NoReaderBut, HoldsShared, HoldsReserved
    <3> QED  BY <3>1, <3>2 DEF Waits
  <2>4. CASE ~(\E g \in Handlers : HoldsReserved(g))
    BY <2>4 DEF Waits, HoldsReserved, NoWriterBut, NoPending, HoldsPending
  <2> QED  BY <2>1, <2>2, <2>3, <2>4
<1> QED  BY <1>1, SpecInv, PTL

\* No step removes a version or changes its policy.
THEOREM VersionsAreKept == Spec => VersionsKept
<1> DEFINE Kept == /\ Len(rows') >= Len(rows)
                   /\ \A v \in DOMAIN rows : rows'[v].dsl = rows[v].dsl
<1>1. IInv /\ [Next]_vars => [Kept]_rows
  <2> SUFFICES ASSUME IInv, [Next]_vars, rows' # rows PROVE Kept
    OBVIOUS
  <2>1. PICK h \in Handlers : Commit(h)
    BY DEF Next, vars, Restart, Call, Step, Refuse, Deactivate, Insert, Check, Demote,
           Promote, StartCommit, ReadBack, Select, Busy, Reply, StatementError
  <2>2. rows' = dirty[h] /\ pc[h] = "drain"
    BY <2>1 DEF Commit
  <2> QED  BY <2>2, CommittedTable
<1> QED  BY <1>1, SpecInv, PTL DEF Spec, VersionsKept

-----------------------------------------------------------------------------
(* The store implements the registry. *)

\* The one active row is the one the SELECT returns.
LEMMA ActiveOfSingleton ==
  ASSUME NEW t, NEW v \in Nat, Active(t) = {v}
  PROVE  ActiveVersion(t) = v
BY DEF ActiveVersion

\* The catalogue of a table lists its policies.
LEMMA CatalogFacts ==
  ASSUME NEW t \in Seq(Row)
  PROVE  /\ Catalog(t) \in Seq(Dsl)
         /\ Len(Catalog(t)) = Len(t)
         /\ DOMAIN Catalog(t) = 1 .. Len(t)
         /\ \A v \in 1 .. Len(t) : Catalog(t)[v] = t[v].dsl
<1>1. DOMAIN t = 1 .. Len(t) /\ \A v \in 1 .. Len(t) : t[v].dsl \in Dsl
  BY TableFacts
<1>2. DOMAIN Catalog(t) = 1 .. Len(t) /\ \A v \in 1 .. Len(t) : Catalog(t)[v] = t[v].dsl
  BY <1>1 DEF Catalog
<1>3. Catalog(t) \in [1 .. Len(t) -> Dsl]
  BY <1>1, <1>2 DEF Catalog
<1>4. Catalog(t) \in Seq(Dsl)
  BY <1>3, IsASeq
<1>5. Len(Catalog(t)) = Len(t)
  BY <1>2, <1>4
<1> QED  BY <1>2, <1>4, <1>5

\* A commit of a publish appends to the catalogue.
LEMMA CatalogOfPublished ==
  ASSUME NEW t \in Seq(Row), NEW b \in Dsl
  PROVE  Catalog(PublishedTable(t, b)) = Append(Catalog(t), b)
<1> DEFINE p == PublishedTable(t, b)
           c == Catalog(p)
           d == Append(Catalog(t), b)
<1>1. p \in Seq(Row) /\ Len(p) = Len(t) + 1 /\ p[Len(t) + 1].dsl = b
      /\ \A v \in DOMAIN t : p[v].dsl = t[v].dsl
  BY PublishedTableFacts
<1>2. DOMAIN t = 1 .. Len(t) /\ Len(t) \in Nat
  BY TableFacts
<1>3. c \in Seq(Dsl) /\ Len(c) = Len(t) + 1
      /\ \A v \in 1 .. Len(t) + 1 : c[v] = p[v].dsl
  <2> HIDE DEF p
  <2> QED  BY <1>1, CatalogFacts
<1>4. Catalog(t) \in Seq(Dsl) /\ Len(Catalog(t)) = Len(t)
      /\ \A v \in 1 .. Len(t) : Catalog(t)[v] = t[v].dsl
  BY CatalogFacts
<1>5. d \in Seq(Dsl) /\ Len(d) = Len(t) + 1 /\ d[Len(t) + 1] = b
      /\ \A v \in 1 .. Len(t) : d[v] = t[v].dsl
  BY <1>4
<1>6. \A v \in 1 .. Len(t) + 1 : c[v] = d[v]
  <2> HIDE DEF c, d, p
  <2> QED  BY <1>1, <1>2, <1>3, <1>5
<1> HIDE DEF c, d
<1>7. c = d
  BY <1>2, <1>3, <1>5, <1>6, SeqEqual
<1> QED  BY <1>7 DEF c, d

\* A commit of a rollback keeps it.
LEMMA CatalogOfRestored ==
  ASSUME NEW t \in Seq(Row), NEW v \in DOMAIN t
  PROVE  Catalog(RestoredTable(t, v)) = Catalog(t)
<1> DEFINE p == RestoredTable(t, v)
<1>1. p \in Seq(Row) /\ Len(p) = Len(t) /\ \A w \in DOMAIN t : p[w].dsl = t[w].dsl
  BY RestoredTableFacts
<1>2. DOMAIN t = 1 .. Len(t) /\ DOMAIN p = 1 .. Len(t)
  <2> HIDE DEF p
  <2> QED  BY <1>1, TableFacts
<1> HIDE DEF p
<1>3. Catalog(p) = Catalog(t)
  BY <1>1, <1>2 DEF Catalog
<1> QED  BY <1>3 DEF p

\* The registry starts empty.
LEMMA RegistryInit == Init => Registry!Init
<1> SUFFICES ASSUME Init PROVE Registry!Init
  OBVIOUS
<1>1. rows = <<>> /\ rows \in Seq(Row) /\ Len(rows) = 0
  BY DEF Init
<1>2. Catalog(rows) \in Seq(Dsl) /\ Len(Catalog(rows)) = 0
  BY <1>1, CatalogFacts
<1>3. Catalog(rows) = <<>>
  BY <1>2
<1>4. ActiveVersion(rows) = 0
  BY <1>1 DEF ActiveVersion, Active
<1> QED
  BY <1>3, <1>4 DEF Init, Registry!Init, Phase, Promised, Registry!Failed, Failed

\* A call of a handler is a call of the registry.
LEMMA CallStep ==
  ASSUME IInv, NEW h \in Handlers, NEW r \in Requests, Call(h, r)
  PROVE  Registry!Call(h)
<1>1. Entry(r) \notin {"idle", "reply", "readback"} /\ pc \in [Handlers -> Labels]
  BY DEF Entry, IInv, TypeOK
<1>2. Phase[h] = "idle" /\ Phase' = [Phase EXCEPT ![h] = "pending"]
  BY <1>1 DEF Call, Goto, Phase
<1>3. Promised' = Promised
  BY <1>1 DEF Call, Goto, Promised, IInv, TypeOK
<1>4. UNCHANGED <<Catalog(rows), ActiveVersion(rows)>>
  BY DEF Call, Catalog, ActiveVersion, Active
<1> QED  BY <1>2, <1>3, <1>4 DEF Call, Registry!Call

\* An answer that settles a request settles it in the registry.
LEMMA SettleStep ==
  ASSUME IInv, NEW h \in Handlers, NEW a \in Nat \cup {Failed, Missing},
         Finish(h, a), UNCHANGED <<rows, request, version>>,
         pc[h] \notin {"idle", "reply", "readback"}
  PROVE  Registry!Settle(h, a) /\ UNCHANGED <<Catalog(rows), ActiveVersion(rows)>>
<1>1. pc \in [Handlers -> Labels] /\ answer \in [Handlers -> Nat \cup {Failed, Missing}]
  BY DEF IInv, TypeOK
<1>2. Phase[h] = "pending" /\ Phase' = [Phase EXCEPT ![h] = "settled"]
  BY <1>1 DEF Finish, Goto, Phase
<1>3. Promised' = [Promised EXCEPT ![h] = a]
  BY <1>1 DEF Finish, Goto, Promised
<1>4. UNCHANGED <<Catalog(rows), ActiveVersion(rows)>>
  BY DEF Catalog, ActiveVersion, Active
<1> QED  BY <1>2, <1>3, <1>4 DEF Registry!Settle

\* A poll is served what the registry holds.
LEMMA SelectStep ==
  ASSUME IInv, NEW h \in Handlers, Select(h)
  PROVE  Registry!Poll(h)
<1> DEFINE v == ActiveVersion(rows)
           r == request[h]
           served == IF v # 0 /\ r.dsl = "v2" /\ Catalog(rows)[v] = "v1" THEN 0 ELSE v
<1>1. v \in {0} \cup DOMAIN rows /\ Served(r) \in Nat
  BY ServedType DEF IInv
<1>2. v # 0 => Catalog(rows)[v] = rows[v].dsl
  BY <1>1 DEF Catalog
<1>3. Served(r) = served
  BY <1>2 DEF Served
<1>4. Registry!Settle(h, Served(r)) /\ UNCHANGED <<Catalog(rows), ActiveVersion(rows)>>
  BY <1>1, SettleStep DEF Select
<1>5. r.op = "poll"
  BY DEF Select, IInv, RequestInv
<1> QED  BY <1>3, <1>4, <1>5 DEF Registry!Poll

\* The commit of a transaction is where a publish or a rollback takes effect.
LEMMA CommitStep ==
  ASSUME IInv, NEW h \in Handlers, Commit(h)
  PROVE  Registry!Publish(h) \/ Registry!Rollback(h)
<1>1. /\ rows \in Seq(Row) /\ pc \in [Handlers -> Labels]
      /\ answer \in [Handlers -> Nat \cup {Failed, Missing}]
      /\ request[h] \in Requests \cup {NoRequest}
      /\ pc[h] = "drain" /\ RequestInv(h) /\ WriterInv(h)
      /\ rows' = dirty[h] /\ request' = request /\ version' = version
  BY DEF Commit, IInv, TypeOK
<1>2. Len(rows) \in Nat /\ DOMAIN rows = 1 .. Len(rows)
  BY <1>1, TableFacts
<1>3. Phase[h] = "pending" /\ Phase' = [Phase EXCEPT ![h] = "settled"]
  BY <1>1 DEF Commit, Goto, Phase
<1>4. Promised' = [Promised EXCEPT ![h] = version[h]]
  BY <1>1 DEF Commit, Goto, Promised
<1>5. Len(Catalog(rows)) = Len(rows)
  BY <1>1, CatalogFacts
<1>6. CASE request[h].op = "publish"
  <2> DEFINE b == request[h].dsl
  <2>1. b \in Dsl /\ rows' = PublishedTable(rows, b) /\ version[h] = Len(rows) + 1
    BY <1>1, <1>6, RequestFacts DEF WriterInv
  <2>2. Active(rows') = {Len(rows) + 1}
    BY <1>1, <2>1, PublishedTableFacts
  <2>3. ActiveVersion(rows') = Len(rows) + 1
    BY <1>2, <2>2, ActiveOfSingleton
  <2>4. Catalog(rows') = Append(Catalog(rows), b)
    BY <1>1, <2>1, CatalogOfPublished
  <2>5. Registry!Settle(h, Len(Catalog(rows)) + 1)
    BY <1>1, <1>3, <1>4, <1>5, <2>1 DEF Registry!Settle
  <2>6. Registry!Publish(h)
    BY <1>5, <1>6, <2>3, <2>4, <2>5 DEF Registry!Publish, Catalog, ActiveVersion, Active
  <2> QED  BY <2>6
<1>7. CASE request[h].op = "rollback"
  <2> DEFINE t == request[h].target
  <2>1. t \in DOMAIN rows /\ rows' = RestoredTable(rows, t) /\ version[h] = t
    BY <1>1, <1>7 DEF WriterInv, RequestInv
  <2>2. Active(rows') = {t}
    BY <1>1, <2>1, RestoredTableFacts
  <2>3. ActiveVersion(rows') = t
    BY <1>2, <2>1, <2>2, ActiveOfSingleton
  <2>4. Catalog(rows') = Catalog(rows)
    BY <1>1, <2>1, CatalogOfRestored
  <2>5. Registry!Settle(h, t)
    BY <1>1, <1>3, <1>4, <2>1 DEF Registry!Settle
  <2>6. Registry!Rollback(h)
    BY <1>2, <1>5, <1>7, <2>1, <2>3, <2>4, <2>5
       DEF Registry!Rollback, Catalog, ActiveVersion, Active
  <2> QED  BY <2>6
<1> QED  BY <1>1, <1>6, <1>7 DEF RequestInv

\* An error is a refusal, or, once the publish is committed, a forgotten
\* success.
LEMMA ErrorStep ==
  ASSUME IInv, NEW h \in Handlers, Busy(h) \/ StatementError(h)
  PROVE  Registry!Reject(h) \/ Registry!Forget(h)
<1> DEFINE a == ErrorAnswer(h)
<1>1. /\ Finish(h, a) /\ UNCHANGED <<rows, request, version>>
      /\ a \in {Failed, Missing} /\ pc[h] \notin {"idle", "reply"}
  BY DEF Busy, StatementError, ErrorAnswer, Waits
<1>2. CASE pc[h] # "readback"
  <2>1. Registry!Settle(h, a) /\ UNCHANGED <<Catalog(rows), ActiveVersion(rows)>>
    BY <1>1, <1>2, SettleStep
  <2>2. a = Missing => request[h].op = "rollback"
    BY DEF ErrorAnswer, IInv, RequestInv, Missing, Failed
  <2> QED  BY <1>1, <2>1, <2>2 DEF Registry!Reject, Registry!Failed, Registry!Missing,
                                   Failed, Missing
<1>3. CASE pc[h] = "readback"
  <2>1. pc \in [Handlers -> Labels] /\ answer \in [Handlers -> Nat \cup {Failed, Missing}]
    BY DEF IInv, TypeOK
  <2>2. a = Failed
    BY <1>3 DEF ErrorAnswer
  <2>3. Phase[h] = "settled" /\ Phase' = Phase
    BY <1>1, <1>3, <2>1 DEF Finish, Goto, Phase
  <2>4. Promised' = [Promised EXCEPT ![h] = Failed]
    BY <1>1, <1>3, <2>1, <2>2 DEF Finish, Goto, Promised
  <2>5. UNCHANGED <<Catalog(rows), ActiveVersion(rows)>>
    BY <1>1 DEF Catalog, ActiveVersion, Active
  <2> QED  BY <1>1, <2>3, <2>4, <2>5 DEF Registry!Forget, Registry!Failed, Failed
<1> QED  BY <1>2, <1>3

\* The answer is handed over, or everybody is cut off.
LEMMA ReplyStep ==
  ASSUME IInv, NEW h \in Handlers, Reply(h)
  PROVE  Registry!Return(h)
<1>1. pc \in [Handlers -> Labels] /\ answer \in [Handlers -> Nat \cup {Failed, Missing}]
      /\ version \in [Handlers -> Nat]
  BY DEF IInv, TypeOK
<1>2. Phase[h] = "settled" /\ Phase' = [Phase EXCEPT ![h] = "idle"]
  BY <1>1 DEF Reply, Goto, Phase
<1>3. Promised' = [Promised EXCEPT ![h] = Failed]
  BY <1>1 DEF Reply, Goto, Promised
<1>4. UNCHANGED <<Catalog(rows), ActiveVersion(rows)>>
  BY DEF Reply, Catalog, ActiveVersion, Active
<1> QED  BY <1>2, <1>3, <1>4 DEF Reply, Registry!Return, Registry!Failed, Failed

\* A restart of the gateway cuts every client off.
LEMMA RestartStep == Restart => Registry!Restart
<1> SUFFICES ASSUME Restart PROVE Registry!Restart
  OBVIOUS
<1>1. Phase' = [h \in Handlers |-> "idle"] /\ Promised' = [h \in Handlers |-> Failed]
  BY DEF Restart, Phase, Promised
<1>2. UNCHANGED <<Catalog(rows), ActiveVersion(rows)>>
  BY DEF Restart, Catalog, ActiveVersion, Active
<1> QED  BY <1>1, <1>2 DEF Restart, Registry!Restart, Registry!Failed, Failed

\* The statements between the first and the commit are invisible.
LEMMA HiddenStep ==
  ASSUME IInv, NEW h \in Handlers,
         \/ Deactivate(h) \/ Insert(h) \/ Demote(h) \/ Promote(h)
         \/ StartCommit(h) \/ ReadBack(h)
         \/ Check(h) /\ request[h].target \in DOMAIN rows
  PROVE  UNCHANGED <<Catalog(rows), ActiveVersion(rows), request, Phase, Promised>>
<1>1. pc \in [Handlers -> Labels] /\ answer \in [Handlers -> Nat \cup {Failed, Missing}]
      /\ version \in [Handlers -> Nat]
  BY DEF IInv, TypeOK
<1>2. UNCHANGED <<rows, request>>
  BY DEF Deactivate, Insert, Demote, Promote, StartCommit, ReadBack, Check
<1>3. Phase' = Phase
  BY <1>1 DEF Deactivate, Insert, Demote, Promote, StartCommit, ReadBack, Check,
              Finish, Goto, Phase
<1>4. Promised' = Promised
  BY <1>1 DEF Deactivate, Insert, Demote, Promote, StartCommit, ReadBack, Check,
              Finish, Goto, Promised
<1>5. UNCHANGED <<Catalog(rows), ActiveVersion(rows)>>
  BY <1>2 DEF Catalog, ActiveVersion, Active
<1> QED  BY <1>2, <1>3, <1>4, <1>5

\* Every step of the store is a step of the registry, or none.
LEMMA RegistryNext == IInv /\ [Next]_vars => [Registry!Next]_(Registry!vars)
<1> SUFFICES ASSUME IInv, [Next]_vars
             PROVE  Registry!Next \/ UNCHANGED Registry!vars
  OBVIOUS
<1>1. CASE UNCHANGED vars
  BY <1>1 DEF vars, Registry!vars, Catalog, ActiveVersion, Active, Phase, Promised
<1>2. CASE Restart
  BY <1>2, RestartStep DEF Registry!Next
<1>3. ASSUME NEW h \in Handlers, NEW r \in Requests, Call(h, r)
      PROVE  Registry!Next
  BY <1>3, CallStep DEF Registry!Next
<1>4. ASSUME NEW h \in Handlers, Step(h) \/ StatementError(h)
      PROVE  Registry!Next \/ UNCHANGED Registry!vars
  <2>1. CASE Refuse(h)
    BY <2>1, SettleStep DEF Refuse, Registry!Next, Registry!Reject, Registry!Failed, Failed
  <2>2. CASE Check(h) /\ request[h].target \notin DOMAIN rows
    <3>1. request[h].op = "rollback"
      BY <2>2 DEF Check, IInv, RequestInv
    <3>2. Registry!Settle(h, Missing) /\ UNCHANGED <<Catalog(rows), ActiveVersion(rows)>>
      BY <2>2, SettleStep DEF Check
    <3> QED  BY <3>1, <3>2 DEF Registry!Next, Registry!Reject, Registry!Missing, Missing
  <2>3. CASE \/ Deactivate(h) \/ Insert(h) \/ Demote(h) \/ Promote(h)
             \/ StartCommit(h) \/ ReadBack(h)
             \/ Check(h) /\ request[h].target \in DOMAIN rows
    BY <2>3, HiddenStep DEF Registry!vars
  <2>4. CASE Commit(h)
    BY <2>4, CommitStep DEF Registry!Next
  <2>5. CASE Select(h)
    BY <2>5, SelectStep DEF Registry!Next
  <2>6. CASE Reply(h)
    BY <2>6, ReplyStep DEF Registry!Next
  <2>7. CASE Busy(h) \/ StatementError(h)
    BY <2>7, ErrorStep DEF Registry!Next
  <2> QED  BY <1>4, <2>1, <2>2, <2>3, <2>4, <2>5, <2>6, <2>7 DEF Step
<1> QED  BY <1>1, <1>2, <1>3, <1>4 DEF Next

\* The configuration store implements the registry: seen from the clients,
\* publish, rollback and GET /config are atomic, for any number of concurrent
\* requests, SQL errors, lock timeouts and restarts.
THEOREM StoreImplementsRegistry == Spec => ImplementsRegistry
BY RegistryInit, RegistryNext, SpecInv, PTL DEF Spec, ImplementsRegistry, Registry!Spec
=============================================================================
