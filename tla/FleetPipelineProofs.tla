------------------------ MODULE FleetPipelineProofs ------------------------
(***************************************************************************)
(* The path of a fleet event for any number of events, handlers and        *)
(* workers and any batches: the channel and the deduplicator keep to their *)
(* sizes, every event that was declared new is somewhere or was counted as *)
(* shed, and while its id is remembered it is in one place and processed   *)
(* at most once.                                                           *)
(***************************************************************************)
EXTENDS FleetPipeline, FiniteSetTheorems, TLAPS

IInv == TypeOK /\ NothingUncounted /\ OncePerMemory

-----------------------------------------------------------------------------
\* Marking an id remembers at most MaxSize ids, and notes those that it forgets.
LEMMA MarkStep ==
  ASSUME TypeOK, NEW e \in Events, Mark(e)
  PROVE  /\ Remembered' \subseteq Remembered \cup {e}
         /\ seen' \in [Remembered' -> Nat]
         /\ Cardinality(Remembered') <= MaxSize
         /\ forgotten' = forgotten \cup ((Remembered \cup {e}) \ Remembered')
<1> DEFINE D == Remembered \cup {e}
           marked == [f \in D |-> IF f = e THEN clock ELSE seen[f]]
<1>1. D \subseteq Events /\ IsFiniteSet(D) /\ Cardinality(D) \in Nat /\ MaxSize \in Nat
  BY SetsAssumption, SizesAssumption, FS_Subset, FS_CardinalityType DEF TypeOK
<1>2. marked \in [D -> Nat] /\ DOMAIN marked = D
  BY DEF TypeOK
<1> HIDE DEF marked
<1>3. PICK K \in IF Cardinality(D) > MaxSize THEN Survivors(marked) ELSE {D} :
        /\ seen' = [f \in K |-> marked[f]]
        /\ forgotten' = forgotten \cup (D \ K)
  BY <1>2 DEF Mark, marked
<1>4. K \subseteq D /\ Cardinality(K) <= MaxSize
  <2>1. CASE Cardinality(D) > MaxSize
    <3>1. K \subseteq Unexpired(marked) /\ Unexpired(marked) \subseteq D
      BY <1>2, <1>3, <2>1 DEF Survivors, Unexpired
    <3>2. Cardinality(Unexpired(marked)) \in Nat
      BY <1>1, <3>1, FS_Subset, FS_CardinalityType
    <3>3. Cardinality(K) = IF Cardinality(Unexpired(marked)) > MaxSize
                           THEN MaxSize ELSE Cardinality(Unexpired(marked))
      BY <1>3, <2>1 DEF Survivors
    <3> QED  BY <1>1, <3>1, <3>2, <3>3
  <2>2. CASE ~(Cardinality(D) > MaxSize)
    BY <1>1, <1>3, <2>2
  <2> QED  BY <2>1, <2>2
<1>5. Remembered' = K
  BY <1>3 DEF Remembered
<1>6. seen' \in [K -> Nat]
  BY <1>2, <1>3, <1>4
<1> QED  BY <1>3, <1>4, <1>5, <1>6

\* What a handler that goes on leaves behind.
LEMMA ContinueStep ==
  ASSUME TypeOK, NEW h \in Handlers, NEW rest \in Seq(Events), Continue(h, rest)
  PROVE  /\ batch' \in [Handlers -> Seq(Events)]
         /\ pc' \in [Handlers -> {"idle", "check", "ingest"}]
         /\ \A g \in Handlers : pc'[g] # "idle" => batch'[g] # <<>>
         /\ pc'[h] # "ingest"
         /\ \A g \in Handlers \ {h} : pc'[g] = pc[g] /\ batch'[g] = batch[g]
BY DEF Continue, TypeOK

\* A handler that is not idle has an event in hand.
LEMMA InHand ==
  ASSUME TypeOK, NEW h \in Handlers, pc[h] # "idle"
  PROVE  Head(batch[h]) \in Events /\ Tail(batch[h]) \in Seq(Events)
<1>1. batch[h] \in Seq(Events) /\ batch[h] # <<>>
  BY DEF TypeOK
<1> QED  BY <1>1

-----------------------------------------------------------------------------
\* The sizes and types hold at the start.
LEMMA InitTypes == Init => TypeOK
<1> SUFFICES ASSUME Init PROVE TypeOK
  OBVIOUS
<1>1. Remembered = {} /\ seen \in [Remembered -> Nat]
  BY DEF Init, Remembered
<1>2. Cardinality(Remembered) = 0 /\ Len(queue) = 0
  BY <1>1, FS_EmptySet DEF Init
<1>3. Cardinality(Remembered) <= MaxSize /\ Len(queue) <= Capacity
  BY <1>2, SizesAssumption
<1>4. /\ batch \in [Handlers -> Seq(Events)] /\ queue \in Seq(Events)
      /\ worker \in [Workers -> Events \cup {Free, Gone}]
      /\ pc \in [Handlers -> {"idle", "check", "ingest"}]
      /\ \A h \in Handlers : pc[h] = "idle"
  BY DEF Init
<1>5. processed \in [Events -> Nat] /\ Remembered \subseteq Events
  BY <1>1 DEF Init
<1> QED  BY <1>1, <1>3, <1>4, <1>5 DEF Init, TypeOK

\* They survive every step.
LEMMA TypeStep == TypeOK /\ [Next]_vars => TypeOK'
<1> SUFFICES ASSUME TypeOK, [Next]_vars PROVE TypeOK'
  OBVIOUS
<1>1. CASE Tick
  BY <1>1 DEF Tick, TypeOK, handlerVars, dedupVars, workerVars, Remembered
<1>2. CASE Stop
  BY <1>2 DEF Stop, TypeOK, handlerVars, dedupVars, Remembered
<1>3. ASSUME NEW h \in Handlers, Receive(h) PROVE TypeOK'
  <2>1. PICK b \in Batches : Continue(h, b)
    BY <1>3 DEF Receive
  <2>2. b \in Seq(Events)
    BY BatchesAssumption
  <2>3. /\ batch' \in [Handlers -> Seq(Events)]
        /\ pc' \in [Handlers -> {"idle", "check", "ingest"}]
        /\ \A g \in Handlers : pc'[g] # "idle" => batch'[g] # <<>>
    BY <2>1, <2>2, ContinueStep
  <2> QED  BY <1>3, <2>3 DEF Receive, TypeOK, dedupVars, workerVars, Remembered
<1>4. ASSUME NEW h \in Handlers, CheckDuplicate(h) PROVE TypeOK'
  <2>1. Head(batch[h]) \in Events /\ Tail(batch[h]) \in Seq(Events)
    BY <1>4, InHand DEF CheckDuplicate
  <2>2. CASE Head(batch[h]) \in Remembered
    <3>1. /\ batch' \in [Handlers -> Seq(Events)]
          /\ pc' \in [Handlers -> {"idle", "check", "ingest"}]
          /\ \A g \in Handlers : pc'[g] # "idle" => batch'[g] # <<>>
      BY <1>4, <2>1, <2>2, ContinueStep DEF CheckDuplicate
    <3> QED  BY <1>4, <2>2, <3>1
             DEF CheckDuplicate, TypeOK, dedupVars, workerVars, Remembered
  <2>3. CASE Head(batch[h]) \notin Remembered
    <3>1. /\ Remembered' \subseteq Remembered \cup {Head(batch[h])}
          /\ seen' \in [Remembered' -> Nat]
          /\ Cardinality(Remembered') <= MaxSize
          /\ forgotten' = forgotten
               \cup ((Remembered \cup {Head(batch[h])}) \ Remembered')
      BY <1>4, <2>1, <2>3, MarkStep DEF CheckDuplicate
    <3>2. Remembered' \subseteq Events /\ forgotten' \subseteq Events
      BY <2>1, <3>1 DEF TypeOK
    <3>3. /\ pc' = [pc EXCEPT ![h] = "ingest"] /\ pc[h] = "check"
          /\ UNCHANGED <<batch, clock, requests, workerVars, queue, shedCount>>
          /\ fresh' = fresh + 1
      BY <1>4, <2>3 DEF CheckDuplicate
    <3>4. /\ pc' \in [Handlers -> {"idle", "check", "ingest"}]
          /\ \A g \in Handlers : pc'[g] # "idle" => batch'[g] # <<>>
      BY <3>3 DEF TypeOK
    <3> QED  BY <3>1, <3>2, <3>3, <3>4 DEF TypeOK, workerVars
  <2> QED  BY <2>2, <2>3
<1>5. ASSUME NEW h \in Handlers, Ingest(h) PROVE TypeOK'
  <2>1. Head(batch[h]) \in Events /\ Tail(batch[h]) \in Seq(Events)
    BY <1>5, InHand DEF Ingest
  <2>2. /\ batch' \in [Handlers -> Seq(Events)]
        /\ pc' \in [Handlers -> {"idle", "check", "ingest"}]
        /\ \A g \in Handlers : pc'[g] # "idle" => batch'[g] # <<>>
    BY <1>5, <2>1, ContinueStep DEF Ingest
  <2>3. queue' \in Seq(Events) /\ Len(queue') <= Capacity /\ shedCount' \in Nat
    <3>1. CASE Len(queue) < Capacity
      <4>1. queue' = Append(queue, Head(batch[h])) /\ shedCount' = shedCount
        BY <1>5, <3>1 DEF Ingest
      <4>2. queue \in Seq(Events) /\ Len(queue) \in Nat /\ Capacity \in Nat /\ shedCount \in Nat
        BY SizesAssumption DEF TypeOK
      <4> QED  BY <2>1, <3>1, <4>1, <4>2
    <3>2. CASE ~(Len(queue) < Capacity)
      BY <1>5, <3>2 DEF Ingest, TypeOK
    <3> QED  BY <3>1, <3>2
  <2> QED  BY <1>5, <2>2, <2>3 DEF Ingest, TypeOK, dedupVars, workerVars, Remembered
<1>6. ASSUME NEW w \in Workers, Take(w) PROVE TypeOK'
  <2>1. Head(queue) \in Events /\ queue' \in Seq(Events) /\ Len(queue') <= Capacity
    BY <1>6, SizesAssumption DEF Take, TypeOK
  <2> QED  BY <1>6, <2>1 DEF Take, TypeOK, handlerVars, dedupVars, Remembered
<1>7. ASSUME NEW w \in Workers, Process(w) PROVE TypeOK'
  BY <1>7 DEF Process, TypeOK, handlerVars, dedupVars, Remembered
<1>8. ASSUME NEW w \in Workers, Return(w) PROVE TypeOK'
  BY <1>8 DEF Return, TypeOK, handlerVars, dedupVars, Remembered
<1>9. CASE UNCHANGED vars
  BY <1>9 DEF vars, TypeOK, Remembered
<1> QED  BY <1>1, <1>2, <1>3, <1>4, <1>5, <1>6, <1>7, <1>8, <1>9 DEF Next, Handle, Work

-----------------------------------------------------------------------------
\* The sets that are counted are finite.
LEMMA CountsAreNumbers ==
  ASSUME TypeOK
  PROVE  /\ IsFiniteSet(Ingesting) /\ Cardinality(Ingesting) \in Nat
         /\ IsFiniteSet(Busy) /\ Cardinality(Busy) \in Nat
         /\ Len(queue) \in Nat /\ shedCount \in Nat /\ fresh \in Nat /\ completed \in Nat
<1>1. Ingesting \subseteq Handlers /\ Busy \subseteq Workers
  BY DEF Ingesting, Busy
<1> QED  BY <1>1, SetsAssumption, FS_Subset, FS_CardinalityType DEF TypeOK

\* What happens to an event is counted: a step moves it from one of the counts to another.
LEMMA AccountStep ==
  ASSUME TypeOK, NothingUncounted, [Next]_vars
  PROVE  NothingUncounted'
<1> USE CountsAreNumbers
<1>1. ASSUME NEW h \in Handlers, Receive(h) PROVE NothingUncounted'
  <2>1. PICK b \in Batches : Continue(h, b)
    BY <1>1 DEF Receive
  <2>2. Ingesting' = Ingesting /\ Busy' = Busy
    BY <1>1, <2>1, ContinueStep, BatchesAssumption DEF Receive, Ingesting, Busy, workerVars
  <2> QED  BY <1>1, <2>2 DEF Receive, NothingUncounted, dedupVars, workerVars
<1>2. ASSUME NEW h \in Handlers, CheckDuplicate(h) PROVE NothingUncounted'
  <2>1. Busy' = Busy
    BY <1>2 DEF CheckDuplicate, Busy, workerVars
  <2>2. CASE Head(batch[h]) \in Remembered
    <3>1. Ingesting' = Ingesting
      BY <1>2, <2>2, ContinueStep, InHand DEF CheckDuplicate, Ingesting
    <3> QED  BY <1>2, <2>1, <2>2, <3>1 DEF CheckDuplicate, NothingUncounted, dedupVars, workerVars
  <2>3. CASE Head(batch[h]) \notin Remembered
    <3>1. Ingesting' = Ingesting \cup {h} /\ h \notin Ingesting
      BY <1>2, <2>3 DEF CheckDuplicate, Ingesting, TypeOK
    <3>2. Cardinality(Ingesting') = Cardinality(Ingesting) + 1
      BY <3>1, FS_AddElement
    <3> QED  BY <1>2, <2>1, <2>3, <3>2 DEF CheckDuplicate, NothingUncounted, workerVars
  <2> QED  BY <2>2, <2>3
<1>3. ASSUME NEW h \in Handlers, Ingest(h) PROVE NothingUncounted'
  <2>1. Busy' = Busy
    BY <1>3 DEF Ingest, Busy, workerVars
  <2>2. Ingesting' = Ingesting \ {h} /\ h \in Ingesting
    BY <1>3, ContinueStep, InHand DEF Ingest, Ingesting
  <2>3. Cardinality(Ingesting') = Cardinality(Ingesting) - 1
    BY <2>2, FS_RemoveElement
  <2>4. \/ Len(queue') = Len(queue) + 1 /\ shedCount' = shedCount
        \/ queue' = queue /\ shedCount' = shedCount + 1
    BY <1>3, InHand DEF Ingest, TypeOK
  <2>5. fresh' = fresh /\ completed' = completed /\ (queue' = queue => Len(queue') = Len(queue))
    BY <1>3 DEF Ingest, dedupVars, workerVars
  <2> QED  BY <2>1, <2>3, <2>4, <2>5 DEF NothingUncounted
<1>4. ASSUME NEW w \in Workers, Take(w) PROVE NothingUncounted'
  <2>1. Ingesting' = Ingesting
    BY <1>4 DEF Take, Ingesting, handlerVars
  <2>2. Head(queue) \in Events /\ Len(queue') = Len(queue) - 1
    BY <1>4 DEF Take, TypeOK
  <2>3. Busy' = Busy \cup {w} /\ w \notin Busy
    BY <1>4, <2>2, NamesAssumption DEF Take, Busy, TypeOK
  <2>4. Cardinality(Busy') = Cardinality(Busy) + 1
    BY <2>3, FS_AddElement
  <2> QED  BY <1>4, <2>1, <2>2, <2>4 DEF Take, NothingUncounted, dedupVars
<1>5. ASSUME NEW w \in Workers, Process(w) PROVE NothingUncounted'
  <2>1. Ingesting' = Ingesting
    BY <1>5 DEF Process, Ingesting, handlerVars
  <2>2. Busy' = Busy \ {w} /\ w \in Busy
    BY <1>5, NamesAssumption DEF Process, Busy, TypeOK
  <2>3. Cardinality(Busy') = Cardinality(Busy) - 1
    BY <2>2, FS_RemoveElement
  <2> QED  BY <1>5, <2>1, <2>3 DEF Process, NothingUncounted, dedupVars
<1>6. ASSUME NEW w \in Workers, Return(w) PROVE NothingUncounted'
  <2>1. Ingesting' = Ingesting
    BY <1>6 DEF Return, Ingesting, handlerVars
  <2>2. Busy' = Busy
    BY <1>6, NamesAssumption DEF Return, Busy, TypeOK
  <2> QED  BY <1>6, <2>1, <2>2 DEF Return, NothingUncounted, dedupVars
<1>7. CASE Tick \/ Stop \/ UNCHANGED vars
  <2>1. UNCHANGED <<batch, pc, queue, worker, shedCount, fresh, completed>>
    BY <1>7 DEF Tick, Stop, vars, handlerVars, dedupVars, workerVars
  <2> QED  BY <2>1 DEF NothingUncounted, Ingesting, Busy
<1> QED  BY <1>1, <1>2, <1>3, <1>4, <1>5, <1>6, <1>7 DEF Next, Handle, Work

-----------------------------------------------------------------------------
\* The places of e, one kind at a time.
AtHandler(e, h) == h \in Handlers /\ pc[h] = "ingest" /\ Head(batch[h]) = e
InQueue(e, i) == i \in 1 .. Len(queue) /\ queue[i] = e
AtWorker(e, w) == w \in Workers /\ worker[w] = e
Done(e, n) == n \in 1 .. processed[e]

\* An event is in at most one place, kind by kind.
OnePlace(e) ==
  /\ \A g, h \in Handlers : AtHandler(e, g) /\ AtHandler(e, h) => g = h
  /\ \A i, j \in 1 .. Len(queue) : InQueue(e, i) /\ InQueue(e, j) => i = j
  /\ \A v, w \in Workers : AtWorker(e, v) /\ AtWorker(e, w) => v = w
  /\ processed[e] <= 1
  /\ \A h \in Handlers : AtHandler(e, h) =>
       /\ \A i \in 1 .. Len(queue) : ~InQueue(e, i)
       /\ \A w \in Workers : ~AtWorker(e, w)
       /\ processed[e] = 0
  /\ \A i \in 1 .. Len(queue) : InQueue(e, i) =>
       (\A w \in Workers : ~AtWorker(e, w)) /\ processed[e] = 0
  /\ \A w \in Workers : AtWorker(e, w) => processed[e] = 0

\* An event is in some place.
Somewhere(e) ==
  \/ \E h \in Handlers : AtHandler(e, h)
  \/ \E i \in 1 .. Len(queue) : InQueue(e, i)
  \/ \E w \in Workers : AtWorker(e, w)
  \/ processed[e] # 0

\* That is what OncePerMemory says of the set of its places.
LEMMA PlacesByKind ==
  TypeOK => \A e \in Events : /\ Places(e) # {} <=> Somewhere(e)
                              /\ (\A p, q \in Places(e) : p = q) <=> OnePlace(e)
<1> SUFFICES ASSUME TypeOK, NEW e \in Events
             PROVE  /\ Places(e) # {} <=> Somewhere(e)
                    /\ (\A p, q \in Places(e) : p = q) <=> OnePlace(e)
  OBVIOUS
<1>1. DOMAIN queue = 1 .. Len(queue) /\ processed[e] \in Nat
  BY DEF TypeOK
<1>2. ASSUME NEW p
      PROVE  p \in Places(e) <=>
               \/ \E h \in Handlers : AtHandler(e, h) /\ p = <<"handler", h>>
               \/ \E i \in 1 .. Len(queue) : InQueue(e, i) /\ p = <<"queue", i>>
               \/ \E w \in Workers : AtWorker(e, w) /\ p = <<"worker", w>>
               \/ \E n \in 1 .. processed[e] : p = <<"processed", n>>
  BY <1>1 DEF Places, Ingesting, AtHandler, InQueue, AtWorker
<1>3. Places(e) # {} <=> Somewhere(e)
  <2>1. processed[e] # 0 => 1 \in 1 .. processed[e]
    BY <1>1
  <2>2. (\E n \in 1 .. processed[e] : TRUE) => processed[e] # 0
    BY <1>1
  <2> QED  BY <1>2, <2>1, <2>2 DEF Somewhere
<1>4. ASSUME \A p, q \in Places(e) : p = q PROVE OnePlace(e)
  <2>0. \A x, y : /\ <<"handler", x>> = <<"handler", y>> => x = y
                  /\ <<"queue", x>> = <<"queue", y>> => x = y
                  /\ <<"worker", x>> = <<"worker", y>> => x = y
    OBVIOUS
  <2>1. \A h \in Handlers : AtHandler(e, h) => <<"handler", h>> \in Places(e)
    BY <1>2
  <2>2. \A i \in 1 .. Len(queue) : InQueue(e, i) => <<"queue", i>> \in Places(e)
    BY <1>2
  <2>3. \A w \in Workers : AtWorker(e, w) => <<"worker", w>> \in Places(e)
    BY <1>2
  <2>4. \A g, h \in Handlers : AtHandler(e, g) /\ AtHandler(e, h) => g = h
    BY <1>4, <2>1, <2>0, Zenon
  <2>5. \A i, j \in 1 .. Len(queue) : InQueue(e, i) /\ InQueue(e, j) => i = j
    BY <1>4, <2>2, <2>0, Zenon
  <2>6. \A v, w \in Workers : AtWorker(e, v) /\ AtWorker(e, w) => v = w
    BY <1>4, <2>3, <2>0, Zenon
  <2>7. processed[e] <= 1
    <3>1. ASSUME processed[e] > 1 PROVE FALSE
      <4>1. 1 \in 1 .. processed[e] /\ 2 \in 1 .. processed[e]
        BY <1>1, <3>1
      <4>2. <<"processed", 1>> \in Places(e) /\ <<"processed", 2>> \in Places(e)
        BY <1>2, <4>1
      <4> QED  BY <1>4, <4>2
    <3> QED  BY <1>1, <3>1
  <2>8. processed[e] # 0 => <<"processed", 1>> \in Places(e)
    <3>1. processed[e] # 0 => 1 \in 1 .. processed[e]
      BY <1>1
    <3> QED  BY <1>2, <3>1
  <2>9. \A x, y : /\ <<"handler", x>> # <<"queue", y>> /\ <<"handler", x>> # <<"worker", y>>
                  /\ <<"handler", x>> # <<"processed", y>> /\ <<"queue", x>> # <<"worker", y>>
                  /\ <<"queue", x>> # <<"processed", y>> /\ <<"worker", x>> # <<"processed", y>>
    OBVIOUS
  <2> QED  BY <1>4, <2>1, <2>2, <2>3, <2>4, <2>5, <2>6, <2>7, <2>8, <2>9, Zenon DEF OnePlace
<1>5. ASSUME OnePlace(e), NEW p \in Places(e), NEW q \in Places(e) PROVE p = q
  <2>1. \A m, n \in 1 .. processed[e] : m = n
    BY <1>1, <1>5 DEF OnePlace
  <2>2. (\E n \in 1 .. processed[e] : TRUE) => processed[e] # 0
    BY <1>1
  <2> QED  BY <1>2, <1>5, <2>1, <2>2 DEF OnePlace
<1> QED  BY <1>3, <1>4, <1>5

\* An event whose id was never evicted is in one place, and remembered if it is anywhere.
KindInv ==
  \A e \in Events \ forgotten : OnePlace(e) /\ (Somewhere(e) => e \in Remembered)

\* That is what the run checks.
LEMMA OnceByKind == TypeOK => (OncePerMemory <=> KindInv)
BY PlacesByKind DEF OncePerMemory, KindInv

\* A step that puts no event in a new place leaves the invariant alone.
LEMMA SamePlaces ==
  ASSUME KindInv, queue' = queue, processed' = processed,
         forgotten \subseteq forgotten', Remembered' = Remembered,
         \A e \in Events, h \in Handlers : AtHandler(e, h)' => AtHandler(e, h),
         \A e \in Events, w \in Workers : AtWorker(e, w)' => AtWorker(e, w)
  PROVE  KindInv'
<1>1. \A e \in Events : \A i \in 1 .. Len(queue) : InQueue(e, i)' <=> InQueue(e, i)
  BY DEF InQueue
<1> QED  BY <1>1 DEF KindInv, OnePlace, Somewhere

\* An id that is declared new is nowhere, and then with the handler only.
LEMMA CheckPlaces ==
  ASSUME TypeOK, KindInv, NEW h \in Handlers, CheckDuplicate(h)
  PROVE  KindInv'
<1> DEFINE e == Head(batch[h])
<1>1. e \in Events /\ Tail(batch[h]) \in Seq(Events)
  BY InHand DEF CheckDuplicate
<1>2. CASE e \in Remembered
  <2>1. \A f \in Events, g \in Handlers : AtHandler(f, g)' => AtHandler(f, g)
    BY <1>1, <1>2, ContinueStep DEF CheckDuplicate, AtHandler
  <2> QED  BY <1>2, <2>1, SamePlaces
           DEF CheckDuplicate, dedupVars, workerVars, Remembered, AtWorker
<1>3. CASE e \notin Remembered
  <2>1. /\ Remembered' \subseteq Remembered \cup {e}
        /\ forgotten' = forgotten \cup ((Remembered \cup {e}) \ Remembered')
    BY <1>1, <1>3, MarkStep DEF CheckDuplicate
  <2>2. /\ pc' = [pc EXCEPT ![h] = "ingest"] /\ pc[h] = "check"
        /\ UNCHANGED <<batch, queue, worker, processed>>
    BY <1>3 DEF CheckDuplicate, workerVars
  <2>3. \A f \in Events, g \in Handlers : AtHandler(f, g)' <=> AtHandler(f, g) \/ (g = h /\ f = e)
    BY <2>2 DEF AtHandler, TypeOK
  <2>4. \A f \in Events : /\ \A i \in 1 .. Len(queue) : InQueue(f, i)' <=> InQueue(f, i)
                          /\ \A w \in Workers : AtWorker(f, w)' <=> AtWorker(f, w)
    BY <2>2 DEF InQueue, AtWorker
  <2>5. ASSUME NEW f \in Events \ forgotten'
        PROVE  OnePlace(f)' /\ (Somewhere(f)' => f \in Remembered')
    <3>1. OnePlace(f) /\ (Somewhere(f) => f \in Remembered)
      BY <2>1 DEF KindInv
    <3>2. CASE f = e
      <4>1. ~Somewhere(f)
        BY <1>3, <3>1, <3>2
      <4>2. f \in Remembered'
        BY <2>1, <3>2
      <4> QED  BY <2>2, <2>3, <2>4, <3>1, <4>1, <4>2 DEF OnePlace, Somewhere
    <3>3. CASE f # e
      <4>1. f \in Remembered => f \in Remembered'
        BY <2>1
      <4> QED  BY <2>2, <2>3, <2>4, <3>1, <3>3, <4>1 DEF OnePlace, Somewhere
    <3> QED  BY <3>2, <3>3
  <2> QED  BY <2>5 DEF KindInv
<1> QED  BY <1>2, <1>3

\* Ingest moves an event from the handler to the end of the channel, or drops it.
LEMMA IngestPlaces ==
  ASSUME TypeOK, KindInv, NEW h \in Handlers, Ingest(h)
  PROVE  KindInv'
<1> DEFINE e == Head(batch[h])
           n == Len(queue)
<1>1. e \in Events /\ Tail(batch[h]) \in Seq(Events)
  BY InHand DEF Ingest
<1>2. UNCHANGED <<worker, processed, forgotten, Remembered>> /\ pc[h] = "ingest"
  BY DEF Ingest, dedupVars, workerVars, Remembered
<1>3. \A f \in Events, g \in Handlers : AtHandler(f, g)' <=> AtHandler(f, g) /\ g # h
  BY <1>1, ContinueStep DEF Ingest, AtHandler
<1>4. CASE queue' = queue
  BY <1>2, <1>3, <1>4, SamePlaces DEF AtWorker
<1>5. CASE queue' = Append(queue, e)
  <2>1. n \in Nat /\ Len(queue') = n + 1 /\ queue'[n + 1] = e
        /\ \A i \in 1 .. n : queue'[i] = queue[i]
    BY <1>1, <1>5 DEF TypeOK
  <2>2. \A f \in Events, i \in 1 .. n + 1 :
          InQueue(f, i)' <=> (i \in 1 .. n /\ InQueue(f, i)) \/ (i = n + 1 /\ f = e)
    BY <2>1 DEF InQueue
  <2>3. \A f \in Events, w \in Workers : AtWorker(f, w)' <=> AtWorker(f, w)
    BY <1>2 DEF AtWorker
  <2>4. ASSUME NEW f \in Events \ forgotten'
        PROVE  OnePlace(f)' /\ (Somewhere(f)' => f \in Remembered')
    <3>1. OnePlace(f) /\ (Somewhere(f) => f \in Remembered)
      BY <1>2 DEF KindInv
    <3>2. CASE f = e
      <4>1. AtHandler(f, h)
        BY <1>2, <3>2 DEF AtHandler
      <4>2. /\ \A g \in Handlers : ~AtHandler(f, g)'
            /\ \A w \in Workers : ~AtWorker(f, w)'
            /\ \A i \in 1 .. n + 1 : InQueue(f, i)' => i = n + 1
            /\ processed'[f] = 0
        BY <1>2, <1>3, <2>2, <2>3, <3>1, <4>1 DEF OnePlace
      <4>3. f \in Remembered'
        BY <1>2, <3>1, <4>1 DEF Somewhere
      <4> QED  BY <2>1, <4>2, <4>3 DEF OnePlace
    <3>3. CASE f # e
      <4>1. \A i \in 1 .. n + 1 : InQueue(f, i)' => i \in 1 .. n /\ InQueue(f, i)
        BY <2>2, <3>3
      <4> QED  BY <1>2, <1>3, <2>1, <2>3, <3>1, <4>1 DEF OnePlace, Somewhere
    <3> QED  BY <3>2, <3>3
  <2> QED  BY <2>4 DEF KindInv
<1> QED  BY <1>4, <1>5 DEF Ingest

\* Take moves the first event of the channel to a worker, and the others up.
LEMMA TakePlaces ==
  ASSUME TypeOK, KindInv, NEW w \in Workers, Take(w)
  PROVE  KindInv'
<1> DEFINE e == Head(queue)
           n == Len(queue)
<1>1. UNCHANGED <<processed, forgotten, Remembered, batch, pc>>
  BY DEF Take, dedupVars, handlerVars, Remembered
<1>2. /\ e \in Events /\ n \in Nat \ {0} /\ e = queue[1] /\ Len(queue') = n - 1
      /\ \A i \in 1 .. n - 1 : queue'[i] = queue[i + 1]
  BY DEF Take, TypeOK
<1>3. \A f \in Events, h \in Handlers : AtHandler(f, h)' <=> AtHandler(f, h)
  BY <1>1 DEF AtHandler
<1>4. \A f \in Events, i \in 1 .. n - 1 :
        /\ i + 1 \in 1 .. n
        /\ InQueue(f, i)' => InQueue(f, i + 1)
  BY <1>2 DEF InQueue
<1>5. \A f \in Events, v \in Workers : AtWorker(f, v)' <=> AtWorker(f, v) \/ (v = w /\ f = e)
  BY NamesAssumption DEF Take, AtWorker, TypeOK
<1>6. ASSUME NEW f \in Events \ forgotten'
      PROVE  OnePlace(f)' /\ (Somewhere(f)' => f \in Remembered')
  <2>1. OnePlace(f) /\ (Somewhere(f) => f \in Remembered)
    BY <1>1 DEF KindInv
  <2>2. CASE f = e
    <3>1. InQueue(f, 1) /\ 1 \in 1 .. n
      BY <1>2, <2>2 DEF InQueue
    <3>2. /\ \A h \in Handlers : ~AtHandler(f, h)'
          /\ \A v \in Workers : AtWorker(f, v)' => v = w
          /\ processed'[f] = 0
      BY <1>1, <1>3, <1>5, <2>1, <3>1 DEF OnePlace
    <3>3. \A i \in 1 .. n - 1 : ~InQueue(f, i)'
      <4>1. \A i \in 1 .. n - 1 : i + 1 # 1
        BY <1>2
      <4> QED  BY <1>4, <2>1, <3>1, <4>1 DEF OnePlace
    <3>4. f \in Remembered'
      BY <1>1, <2>1, <3>1 DEF Somewhere
    <3> QED  BY <1>2, <3>2, <3>3, <3>4 DEF OnePlace
  <2>3. CASE f # e
    <3>1. \A v \in Workers : AtWorker(f, v)' <=> AtWorker(f, v)
      BY <1>5, <2>3
    <3>2. \A i, j \in 1 .. n - 1 : InQueue(f, i)' /\ InQueue(f, j)' => i = j
      <4> TAKE i, j \in 1 .. n - 1
      <4>1. InQueue(f, i)' /\ InQueue(f, j)' => i + 1 = j + 1
        BY <1>4, <2>1 DEF OnePlace
      <4> QED  BY <1>2, <4>1
    <3>3. ASSUME NEW i \in 1 .. n - 1, InQueue(f, i)'
          PROVE  /\ \A h \in Handlers : ~AtHandler(f, h)
                 /\ \A v \in Workers : ~AtWorker(f, v)
                 /\ processed[f] = 0
                 /\ Somewhere(f)
      BY <1>4, <2>1, <3>3 DEF OnePlace, Somewhere
    <3>4. OnePlace(f)'
      BY <1>1, <1>2, <1>3, <2>1, <3>1, <3>2, <3>3 DEF OnePlace
    <3>5. Somewhere(f)' => f \in Remembered'
      BY <1>1, <1>2, <1>3, <2>1, <3>1, <3>3 DEF Somewhere
    <3> QED  BY <3>4, <3>5
  <2> QED  BY <2>2, <2>3
<1> QED  BY <1>6 DEF KindInv

\* When the handler callback returns, the event has been processed and is nowhere else.
LEMMA ProcessPlaces ==
  ASSUME TypeOK, KindInv, NEW w \in Workers, Process(w)
  PROVE  KindInv'
<1> DEFINE e == worker[w]
<1>1. UNCHANGED <<queue, forgotten, Remembered, batch, pc>> /\ e \in Events
  BY DEF Process, dedupVars, handlerVars, Remembered
<1>2. \A f \in Events : /\ \A h \in Handlers : AtHandler(f, h)' <=> AtHandler(f, h)
                        /\ \A i \in 1 .. Len(queue) : InQueue(f, i)' <=> InQueue(f, i)
  BY <1>1 DEF AtHandler, InQueue
<1>3. \A f \in Events, v \in Workers : AtWorker(f, v)' <=> AtWorker(f, v) /\ v # w
  BY NamesAssumption DEF Process, AtWorker, TypeOK
<1>4. \A f \in Events : processed'[f] = IF f = e THEN processed[f] + 1 ELSE processed[f]
  BY DEF Process, TypeOK
<1>5. ASSUME NEW f \in Events \ forgotten'
      PROVE  OnePlace(f)' /\ (Somewhere(f)' => f \in Remembered')
  <2>1. OnePlace(f) /\ (Somewhere(f) => f \in Remembered)
    BY <1>1 DEF KindInv
  <2>2. CASE f = e
    <3>1. AtWorker(f, w)
      BY <2>2 DEF AtWorker
    <3>2. /\ \A h \in Handlers : ~AtHandler(f, h)'
          /\ \A i \in 1 .. Len(queue) : ~InQueue(f, i)'
          /\ \A v \in Workers : ~AtWorker(f, v)'
          /\ processed'[f] = 1
      BY <1>2, <1>3, <1>4, <2>1, <2>2, <3>1 DEF OnePlace
    <3>3. f \in Remembered'
      BY <1>1, <2>1, <3>1 DEF Somewhere
    <3> QED  BY <1>1, <3>2, <3>3 DEF OnePlace
  <2>3. CASE f # e
    <3>1. processed'[f] = processed[f]
      BY <1>4, <2>3
    <3> QED  BY <1>1, <1>2, <1>3, <2>1, <3>1 DEF OnePlace, Somewhere
  <2> QED  BY <2>2, <2>3
<1> QED  BY <1>5 DEF KindInv

\* Every step leaves an event that is remembered in one place.
LEMMA PlacesStep ==
  ASSUME TypeOK, KindInv, [Next]_vars
  PROVE  KindInv'
<1>1. ASSUME NEW h \in Handlers, Receive(h) PROVE KindInv'
  <2>1. PICK b \in Batches : Continue(h, b)
    BY <1>1 DEF Receive
  <2>2. \A f \in Events, g \in Handlers : AtHandler(f, g)' => AtHandler(f, g)
    BY <2>1, ContinueStep, BatchesAssumption DEF AtHandler
  <2> QED  BY <1>1, <2>2, SamePlaces DEF Receive, dedupVars, workerVars, Remembered, AtWorker
<1>2. ASSUME NEW w \in Workers, Return(w) PROVE KindInv'
  <2>1. \A f \in Events, v \in Workers : AtWorker(f, v)' => AtWorker(f, v)
    BY <1>2, NamesAssumption DEF Return, AtWorker, TypeOK
  <2> QED  BY <1>2, <2>1, SamePlaces DEF Return, dedupVars, handlerVars, Remembered, AtHandler
<1>3. CASE Tick \/ Stop \/ UNCHANGED vars
  <2>1. UNCHANGED <<batch, pc, queue, worker, processed, forgotten, Remembered>>
    BY <1>3 DEF Tick, Stop, vars, handlerVars, dedupVars, workerVars, Remembered
  <2> QED  BY <2>1, SamePlaces DEF AtHandler, AtWorker
<1> QED  BY <1>1, <1>2, <1>3, CheckPlaces, IngestPlaces, TakePlaces, ProcessPlaces
         DEF Next, Handle, Work

-----------------------------------------------------------------------------
\* The invariant holds at the start,
LEMMA InitInv == Init => IInv
<1> SUFFICES ASSUME Init PROVE IInv
  OBVIOUS
<1>1. Ingesting = {} /\ Busy = {} /\ Len(queue) = 0
  BY NamesAssumption DEF Init, Ingesting, Busy
<1>2. NothingUncounted
  BY <1>1, FS_EmptySet DEF Init, NothingUncounted
<1>3. KindInv
  <2>1. ASSUME NEW e \in Events PROVE OnePlace(e) /\ ~Somewhere(e)
    <3>1. /\ \A h \in Handlers : ~AtHandler(e, h)
          /\ \A w \in Workers : ~AtWorker(e, w)
          /\ \A i \in 1 .. Len(queue) : FALSE
          /\ processed[e] = 0
      BY <1>1, NamesAssumption DEF Init, AtHandler, AtWorker
    <3> QED  BY <3>1 DEF OnePlace, Somewhere
  <2> QED  BY <2>1 DEF KindInv
<1> QED  BY InitTypes, <1>2, <1>3, OnceByKind DEF IInv

\* and every step keeps it.
LEMMA NextInv == IInv /\ [Next]_vars => IInv'
<1>1. IInv /\ [Next]_vars => TypeOK' /\ NothingUncounted' /\ KindInv'
  BY TypeStep, AccountStep, PlacesStep, OnceByKind DEF IInv
<1>2. TypeOK' => (OncePerMemory' <=> KindInv')
  BY OnceByKind, PTL
<1> QED  BY <1>1, <1>2 DEF IInv

\* The invariant of the pipeline.
THEOREM Invariant == Spec => []IInv
BY InitInv, NextInv, PTL DEF Spec

\* The channel and the deduplicator keep to their sizes, however many batches are served at
\* once (Ingest sends only if there is room; IsDuplicate evicts within its lock).
THEOREM SizesKept == Spec => []TypeOK
<1>1. IInv => TypeOK
  BY DEF IInv
<1> QED  BY <1>1, Invariant, PTL

\* Every event that was declared new is about to be submitted, waits, is processed, has been
\* processed, or was refused and counted in shedCount.
THEOREM EventsAccounted == Spec => []NothingUncounted
<1>1. IInv => NothingUncounted
  BY DEF IInv
<1> QED  BY <1>1, Invariant, PTL

\* While the deduplicator has not evicted its id, an event is in one place and is
\* processed once, however often and in however many batches at once it is sent.
THEOREM ProcessedOnce == Spec => []OncePerMemory
<1>1. IInv => OncePerMemory
  BY DEF IInv
<1> QED  BY <1>1, Invariant, PTL
=============================================================================
