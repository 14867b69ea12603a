----------------------------- MODULE ReplayView -----------------------------
(***************************************************************************)
(* JourneyReplay: a document that was typed in or fetched by trace id, the *)
(* timeline made of it, and what went wrong.  The timeline is computed     *)
(* when the document changes, and only then is its error shown.  A picture *)
(* that was opened covers the page until it is closed, also when another   *)
(* document replaces the one it came from.                                 *)
(***************************************************************************)
EXTENDS JourneyParser

CONSTANTS
  Documents, \* what may be pasted or fetched, the blank one included
  NoPicture  \* the attribute of events without a picture

RecordsOf(document) ==
  IF document.form = "envelope" THEN UNION {ToSet(scope) : scope \in ToSet(document.records)}
  ELSE ToSet(document.records)

\* What a document may hold: the records of an envelope are taken for log records, and
\* only a line may be no JSON.
ProperDocument(document) ==
  /\ document.form \in {"blank", "envelope", "array", "lines"}
  /\ document.records \in IF document.form = "envelope" THEN Seq(Seq(RecordsOf(document)))
                          ELSE Seq(RecordsOf(document))
  /\ \A r \in RecordsOf(document) : r.time \in Int /\ r.observed \in Int
  /\ \A r \in RecordsOf(document) :
       r.shape \in CASE document.form = "blank" -> {}
                     [] document.form = "envelope" -> {"log", "null"}
                     [] document.form = "array" -> {"log", "flat", "null"}
                     [] OTHER -> {"log", "flat", "null", "malformed"}

ASSUME DocumentsAssumption == \A document \in Documents : ProperDocument(document)

VARIABLE replay

ReplayMounted ==
  [raw |-> [form |-> "blank", records |-> <<>>], error |-> "none", traced |-> FALSE,
   fetching |-> FALSE, same |-> FALSE, lightbox |-> NoPicture]

-----------------------------------------------------------------------------
\* The timeline of a document: per trace a row for each event and, above the rows,
\* a strip of the pictures.
Pictured(event) == event.body = "ui.screenshot" /\ event.picture # NoPicture

\* ScreenshotStrip.
Strip(events) == Map(LAMBDA e : e.picture, Filter(events, {e \in ToSet(events) : Pictured(e)}))

\* JourneyTimeline: the row of an event.  A row without its picture stays.
Row(event) ==
  CASE event.body = "ui.screenshot" -> [kind |-> "screenshot", picture |-> event.picture]
    [] event.body = "ui.wireframe" -> [kind |-> "wireframe", picture |-> NoPicture]
    [] OTHER -> [kind |-> "generic", picture |-> NoPicture]

Rows(events) == Map(Row, events)

\* The pictures that can be opened.
PicturesIn(timeline) == UNION {ToSet(Strip(group.events)) : group \in ToSet(timeline)}

\* The timeline the page shows of a document, none of one that makes the parser throw.
Shown(document) == IF ParseThrows(document) THEN <<>> ELSE Timeline(document)
-----------------------------------------------------------------------------
\* ScreenshotLightbox covers the page: what is below it can be reached with the
\* keyboard, but no picture can be clicked.
Uncovered == replay.lightbox = NoPicture

OpenPicture ==
  /\ Uncovered
  /\ \E picture \in PicturesIn(Shown(replay.raw)) : replay' = [replay EXCEPT !.lightbox = picture]

ClosePicture == ~Uncovered /\ replay' = [replay EXCEPT !.lightbox = NoPicture]

\* setRaw: the memo runs when the document is another one.
SetRaw(view, document) ==
  IF document = view.raw THEN [view EXCEPT !.same = TRUE]
  ELSE [view EXCEPT !.raw = document, !.same = FALSE,
                    !.error = IF ParseThrows(document) THEN "parse" ELSE "none"]

\* The trace id is typed in or cleared.
TypeTrace == replay' = [replay EXCEPT !.traced = ~@]

Paste(document) == document # replay.raw /\ replay' = SetRaw(replay, document)

\* handleFetch: the button needs a trace id and no fetch under way.
FetchTrace ==
  /\ replay.traced /\ ~replay.fetching
  /\ replay' = [replay EXCEPT !.error = "none", !.fetching = TRUE]

\* The answer to the fetch under way, or its failure.
FetchAnswer ==
  \E view \in {SetRaw(replay, document) : document \in Documents}
               \cup {[replay EXCEPT !.error = "fetch"]} :
    replay.fetching /\ replay' = [view EXCEPT !.fetching = FALSE]

ReplayNext ==
  \/ TypeTrace \/ FetchTrace \/ FetchAnswer \/ OpenPicture \/ ClosePicture
  \/ \E document \in Documents : Paste(document)
=============================================================================
