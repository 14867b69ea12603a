--------------------------- MODULE JourneyParser ---------------------------
(***************************************************************************)
(* parseEvents and groupByTrace of the journey replay: the records of a    *)
(* pasted or fetched document, whatever its form, as events of one shape.  *)
(*                                                                         *)
(* A document is [form, records], its form blank, envelope, array or lines *)
(* (one JSON value per line, or what is no JSON at all).  The records of   *)
(* an envelope come in scopes.  A record's shape is log, flat, null or     *)
(* malformed (no JSON); its fields may be Missing, and of its attributes   *)
(* only the one with the picture of a screenshot is kept.  Dates are       *)
(* numbers of milliseconds: a string that is no date is left out.          *)
(***************************************************************************)
EXTENDS Arrays, SequencesExt

CONSTANTS
  Nanos, \* nanoseconds in a millisecond
  NoTrace \* the trace_id of events without one

ASSUME NanosAssumption == Nanos \in Nat \ {0}

Missing == 0 - 1

\* a ?? b
Or(a, b) == IF a = Missing THEN b ELSE a

\* normalizeLogRecord.
NormalizeLog(r) ==
  [ms |-> Or(r.time, Or(r.observed, 0)) \div Nanos,
   trace |-> r.trace, body |-> r.body, picture |-> r.picture]

\* normalizeFlat.
NormalizeFlat(r) ==
  [ms |-> Or(r.time, Or(r.observed, 0)),
   trace |-> r.trace, body |-> r.body, picture |-> r.picture]

\* normalizeAny: a body that is an object with a stringValue makes a log record.
NormalizeAny(r) == IF r.shape = "log" THEN NormalizeLog(r) ELSE NormalizeFlat(r)

\* Whether a record makes its normalisation throw: null has no fields, and in a
\* log record an attribute may lack its value.
Throws(r) == r.shape = "null" \/ (r.shape = "log" /\ r.broken)

ParseThrows(document) ==
  CASE document.form = "envelope" ->
         \E r \in ToSet(FlattenSeq(document.records)) : r.shape = "null" \/ r.broken
    [] document.form = "array" -> \E r \in ToSet(document.records) : Throws(r)
    [] OTHER -> FALSE

Readable(records) == {r \in ToSet(records) : r.shape # "malformed" /\ ~Throws(r)}

\* Mutation: the first line that cannot be read ends the document.
ParseUntilMalformed(document) ==
  CASE document.form = "blank" -> <<>>
    [] document.form = "envelope" -> Map(NormalizeLog, FlattenSeq(document.records))
    [] document.form = "array" -> Map(NormalizeAny, document.records)
    [] document.form = "lines" ->
         LET before == {i \in 1 .. Len(document.records) :
                          \A j \in 1 .. i : document.records[j] \in Readable(document.records)}
         IN  Map(NormalizeAny, SubSeq(document.records, 1, Cardinality(before)))

\* parseEvents of a document that does not make it throw: lines are skipped one by one.
ParseEvents(document) ==
  CASE document.form = "blank" -> <<>>
    [] document.form = "envelope" -> Map(NormalizeLog, FlattenSeq(document.records))
    [] document.form = "array" -> Map(NormalizeAny, document.records)
    [] document.form = "lines" ->
         Map(NormalizeAny, Filter(document.records, Readable(document.records)))

\* The places of the events that are the first of their trace.
Firsts(events) ==
  Filter([i \in DOMAIN events |-> i],
         {i \in DOMAIN events : \A j \in 1 .. i - 1 : events[j].trace # events[i].trace})

\* In each trace the events keep their order.
Group(events, trace) ==
  [trace |-> trace, events |-> Filter(events, {e \in ToSet(events) : e.trace = trace})]

\* groupByTrace: the traces are entered as they are met, and then sorted by the times of
\* their first events.
GroupByTrace(events) ==
  LET entries == Map(LAMBDA i : Group(events, events[i].trace), Firsts(events))
  IN  SortStable(entries, [k \in DOMAIN entries |-> entries[k].events[1].ms])

ByTime(events) == SortStable(events, [i \in DOMAIN events |-> events[i].ms])

Timeline(document) == GroupByTrace(ByTime(ParseEvents(document)))
=============================================================================
