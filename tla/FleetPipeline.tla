---------------------------- MODULE FleetPipeline ----------------------------
(***************************************************************************)
(* The path of a fleet event through the gateway: POST /v1/fleet/events    *)
(* hands the events of a batch one by one to the deduplicator and then to  *)
(* a bounded channel, from which a pool of workers takes them.             *)
(*                                                                         *)
(* The deduplicator works under its mutex, so one call is one step; the    *)
(* handler submits the event to the channel in a later step, and batches   *)
(* are served concurrently.  What a worker does with an event is the       *)
(* subject of FleetRules.                                                  *)
(***************************************************************************)
EXTENDS Integers, Sequences, FiniteSets

CONSTANTS
  Events,      \* event ids
  Handlers,    \* request goroutines
  Workers,     \* worker goroutines
  Batches,     \* the batches the Collector may send: a set of sequences of ids
  Capacity,    \* bufferSize of NewFleetEventPipeline
  MaxSize,     \* maxSize of NewEventDeduplicator
  MaxAge,      \* maxAge of NewEventDeduplicator
  MaxRequests, \* no batch is sent after this many (bound)
  MaxClock     \* the clock stops here (bound)

ASSUME SizesAssumption == Capacity \in Nat \ {0} /\ MaxSize \in Nat \ {0} /\ MaxAge \in Nat
ASSUME BatchesAssumption == Batches \subseteq Seq(Events)
ASSUME SetsAssumption == IsFiniteSet(Events) /\ IsFiniteSet(Workers) /\ IsFiniteSet(Handlers)

VARIABLES
  clock,     \* time.Now()
  requests,  \* batches sent so far
  batch,     \* batch[h] : the events the handler h has still to go through
  pc,        \* pc[h] : "idle", "check" or "ingest"
  seen,      \* seen : when each remembered id was seen
  queue,     \* ingestCh
  worker,    \* worker[w] : the event w processes, or Free or Gone
  stopped,   \* stopCh is closed
  shedCount, \* events refused because the channel was full
  fresh,     \* history: calls of IsDuplicate that returned false
  processed, \* history: how often each event has been processed
  completed, \* history: how often any event has been processed
  forgotten  \* history: the ids that have ever been evicted

vars == <<clock, requests, batch, pc, seen, queue, worker, stopped,
          shedCount, fresh, processed, completed, forgotten>>

handlerVars == <<requests, batch, pc>>
dedupVars == <<seen, fresh, forgotten>>
workerVars == <<worker, processed, completed, stopped>>

\* A worker is about to wait, or waits, in its select; or it has returned.
Free == "free"
Gone == "gone"

ASSUME NamesAssumption == Free \notin Events /\ Gone \notin Events

Remembered == DOMAIN seen
Busy == {w \in Workers : worker[w] \in Events}

Init ==
  /\ clock = 0
  /\ requests = 0
  /\ batch = [h \in Handlers |-> <<>>]
  /\ pc = [h \in Handlers |-> "idle"]
  /\ seen = <<>>
  /\ queue = <<>>
  /\ worker = [w \in Workers |-> Free]
  /\ stopped = FALSE
  /\ shedCount = 0
  /\ fresh = 0
  /\ processed = [e \in Events |-> 0]
  /\ completed = 0
  /\ forgotten = {}

Tick ==
  /\ clock < MaxClock
  /\ clock' = clock + 1
  /\ UNCHANGED <<handlerVars, dedupVars, workerVars, queue, shedCount>>

-----------------------------------------------------------------------------
\* The handler h goes on with what is left of its batch, or answers.
Continue(h, rest) ==
  /\ batch' = [batch EXCEPT ![h] = rest]
  /\ pc' = [pc EXCEPT ![h] = IF rest = <<>> THEN "idle" ELSE "check"]

\* A batch that decodes reaches an idle goroutine.
Receive(h) ==
  /\ pc[h] = "idle"
  /\ requests < MaxRequests
  /\ \E b \in Batches : Continue(h, b)
  /\ requests' = requests + 1
  /\ UNCHANGED <<clock, dedupVars, workerVars, queue, shedCount>>

\* The entries of s that evict keeps.  Expired ones go; while there are more
\* than MaxSize a least recent one goes, whichever the map yields first.
Unexpired(s) == {e \in DOMAIN s : s[e] >= clock - MaxAge}

\* Mutation: expired entries are all that goes.
KeepsUnexpired(s) == {Unexpired(s)}

Survivors(s) ==
  {K \in SUBSET Unexpired(s) :
     /\ Cardinality(K) = IF Cardinality(Unexpired(s)) > MaxSize
                         THEN MaxSize ELSE Cardinality(Unexpired(s))
     /\ \A kept \in K, gone \in Unexpired(s) \ K : s[gone] <= s[kept]}

\* IsDuplicate returns false: it has marked e, and evicts when the map has
\* outgrown its size.
Mark(e) ==
  LET marked == [f \in Remembered \cup {e} |-> IF f = e THEN clock ELSE seen[f]]
      kept == IF Cardinality(DOMAIN marked) > MaxSize THEN Survivors(marked)
                                                       ELSE {DOMAIN marked}
  IN  \E K \in kept :
        /\ seen' = [f \in K |-> marked[f]]
        /\ forgotten' = forgotten \cup (DOMAIN marked \ K)

CheckDuplicate(h) ==
  /\ pc[h] = "check"
  /\ IF Head(batch[h]) \in Remembered
     THEN Continue(h, Tail(batch[h])) /\ UNCHANGED dedupVars
     ELSE /\ Mark(Head(batch[h]))
          /\ fresh' = fresh + 1
          /\ pc' = [pc EXCEPT ![h] = "ingest"]
          /\ UNCHANGED batch
  /\ UNCHANGED <<clock, requests, workerVars, queue, shedCount>>

\* Mutation: a full channel drops its oldest event to make room.
IngestDropsOldest(h) ==
  /\ pc[h] = "ingest"
  /\ queue' = Append(IF Len(queue) < Capacity THEN queue ELSE Tail(queue), Head(batch[h]))
  /\ Continue(h, Tail(batch[h]))
  /\ UNCHANGED <<clock, requests, dedupVars, workerVars, shedCount>>

\* Ingest: a non-blocking send.
Ingest(h) ==
  /\ pc[h] = "ingest"
  /\ IF Len(queue) < Capacity
     THEN queue' = Append(queue, Head(batch[h])) /\ UNCHANGED shedCount
     ELSE shedCount' = shedCount + 1 /\ UNCHANGED queue
  /\ Continue(h, Tail(batch[h]))
  /\ UNCHANGED <<clock, requests, dedupVars, workerVars>>

-----------------------------------------------------------------------------
\* Mutation: the event stays in the channel while it is processed.
TakePeeks(w) ==
  /\ worker[w] = Free
  /\ queue # <<>>
  /\ worker' = [worker EXCEPT ![w] = Head(queue)]
  /\ UNCHANGED <<clock, handlerVars, dedupVars, queue, processed, completed, stopped, shedCount>>

\* The select of an idle worker receives an event ...
Take(w) ==
  /\ worker[w] = Free
  /\ queue # <<>>
  /\ worker' = [worker EXCEPT ![w] = Head(queue)]
  /\ queue' = Tail(queue)
  /\ UNCHANGED <<clock, handlerVars, dedupVars, processed, completed, stopped, shedCount>>

\* Mutation: Stop sends one value on stopCh instead of closing it.
ReturnOnToken(w) ==
  /\ worker[w] = Free
  /\ stopped
  /\ \A v \in Workers : worker[v] # Gone
  /\ worker' = [worker EXCEPT ![w] = Gone]
  /\ UNCHANGED <<clock, handlerVars, dedupVars, queue, processed, completed, stopped, shedCount>>

\* ... or, when stopCh is closed, possibly returns instead.
Return(w) ==
  /\ worker[w] = Free
  /\ stopped
  /\ worker' = [worker EXCEPT ![w] = Gone]
  /\ UNCHANGED <<clock, handlerVars, dedupVars, queue, processed, completed, stopped, shedCount>>

\* Mutation: the worker returns after one event.
ProcessOnce(w) ==
  /\ worker[w] \in Events
  /\ processed' = [processed EXCEPT ![worker[w]] = @ + 1]
  /\ completed' = completed + 1
  /\ worker' = [worker EXCEPT ![w] = Gone]
  /\ UNCHANGED <<clock, handlerVars, dedupVars, queue, stopped, shedCount>>

\* The handler callback has returned.
Process(w) ==
  /\ worker[w] \in Events
  /\ processed' = [processed EXCEPT ![worker[w]] = @ + 1]
  /\ completed' = completed + 1
  /\ worker' = [worker EXCEPT ![w] = Free]
  /\ UNCHANGED <<clock, handlerVars, dedupVars, queue, stopped, shedCount>>

\* Stop, deferred in main: it runs while requests may still be served.
Stop ==
  /\ ~stopped
  /\ stopped' = TRUE
  /\ UNCHANGED <<clock, handlerVars, dedupVars, worker, processed, completed, queue, shedCount>>

Handle(h) == Receive(h) \/ CheckDuplicate(h) \/ Ingest(h)
Work(w) == Take(w) \/ Process(w) \/ Return(w)

Next ==
  \/ Tick
  \/ Stop
  \/ \E h \in Handlers : Handle(h)
  \/ \E w \in Workers : Work(w)

Spec == Init /\ [][Next]_vars

\* Goroutines that can run are run.  Nothing makes the Collector send a batch
\* or the operator stop the gateway.
Fairness ==
  /\ \A h \in Handlers : WF_vars(CheckDuplicate(h) \/ Ingest(h))
  /\ \A w \in Workers : WF_vars(Work(w))

FairSpec == Spec /\ Fairness
-----------------------------------------------------------------------------
\* The channel never holds more than its capacity and the deduplicator never
\* remembers more ids than its size between two calls, however batches
\* interleave; a handler that goes on has an event left.
TypeOK ==
  /\ clock \in Nat /\ requests \in Nat /\ shedCount \in Nat /\ fresh \in Nat
  /\ completed \in Nat
  /\ batch \in [Handlers -> Seq(Events)]
  /\ pc \in [Handlers -> {"idle", "check", "ingest"}]
  /\ \A h \in Handlers : pc[h] # "idle" => batch[h] # <<>>
  /\ Remembered \subseteq Events /\ seen \in [Remembered -> Nat]
  /\ Cardinality(Remembered) <= MaxSize
  /\ queue \in Seq(Events) /\ Len(queue) <= Capacity
  /\ worker \in [Workers -> Events \cup {Free, Gone}]
  /\ stopped \in BOOLEAN
  /\ processed \in [Events -> Nat]
  /\ forgotten \subseteq Events

Ingesting == {h \in Handlers : pc[h] = "ingest"}

\* No event disappears unaccounted for: an id that was declared new is about
\* to be submitted, shed and counted, waiting, being processed or processed.
NothingUncounted ==
  fresh = Cardinality(Ingesting) + shedCount + Len(queue) + Cardinality(Busy)
          + completed

\* The places that hold e: handlers about to submit it, slots of the channel,
\* workers, and the times it was processed.
Places(e) ==
  {<<"handler", h>> : h \in {g \in Ingesting : Head(batch[g]) = e}}
    \cup {<<"queue", i>> : i \in {j \in DOMAIN queue : queue[j] = e}}
    \cup {<<"worker", w>> : w \in {v \in Workers : worker[v] = e}}
    \cup {<<"processed", n>> : n \in 1 .. processed[e]}

\* However often the Collector sends an event, in one batch or in concurrent
\* ones, it is in one place at a time and processed once, unless its id has
\* been evicted; and an event that is somewhere is remembered.
OncePerMemory ==
  \A e \in Events \ forgotten :
    /\ \A p, q \in Places(e) : p = q
    /\ Places(e) # {} => e \in Remembered

\* An event that reached the channel is processed, unless the gateway stops.
Drained ==
  \A e \in Events :
    (\E i \in DOMAIN queue : queue[i] = e) ~> (processed[e] > 0 \/ stopped)

\* After Stop every worker returns: none is left blocked in its select.
WorkersReturn == stopped ~> \A w \in Workers : worker[w] = Gone
=============================================================================
