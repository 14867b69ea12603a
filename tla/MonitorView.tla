---------------------------- MODULE MonitorView ----------------------------
(***************************************************************************)
(* DeviceMonitor: the heartbeats and, for each of their devices, whether   *)
(* it has the configuration its group expects.  A poll asks for the        *)
(* heartbeats and then, for all devices at once, for the device and, when  *)
(* that is answered, for the active configuration of its group.  Each of   *)
(* these may fail by itself; the poll ends with the last answer.           *)
(* Polls overlap when answers take longer than the interval.               *)
(***************************************************************************)
EXTENDS Naturals, Sequences, SequencesExt

CONSTANTS
  Heartbeats,  \* heartbeats the gateway may have, each of some device
  Reported,   \* versions they may report, and versions that may be active
  MaxPolls    \* polls under way (bound)

VARIABLE monitor

NoAnswer == 0 - 1

\* fetchHeartbeats.
StartPoll(view) ==
  [view EXCEPT !.error = FALSE,
               !.polls = Append(@, [asked |-> TRUE, beats |-> <<>>, placed |-> {}, found |-> <<>>])]

MonitorMounted ==
  StartPoll([auto |-> TRUE, loading |-> TRUE, error |-> FALSE, shown |-> <<>>, polls |-> <<>>])

PollRoom == Len(monitor.polls) < MaxPolls

MonitorPoll == monitor.auto /\ PollRoom /\ monitor' = StartPoll(monitor)

\* While the page is loading it shows nothing but that: neither box nor button.
MonitorToggle ==
  ~monitor.loading /\ PollRoom /\ monitor' = StartPoll([monitor EXCEPT !.auto = ~@])
MonitorRefresh == ~monitor.loading /\ PollRoom /\ monitor' = StartPoll(monitor)

Ends(i) == [monitor EXCEPT !.loading = FALSE, !.polls = RemoveAt(@, i)]

\* The heartbeats are answered: none, or some with the versions they report.
HeartbeatsAnswer(i) ==
  /\ monitor.polls[i].asked
  /\ \/ \E some \in SUBSET Heartbeats \ {{}} : \E beats \in [some -> Reported] :
          monitor' = [monitor EXCEPT !.polls[i].asked = FALSE, !.polls[i].beats = beats]
     \/ monitor' = [Ends(i) EXCEPT !.shown = <<>>]
     \/ monitor' = [Ends(i) EXCEPT !.error = TRUE]

\* config_compliant, for a device that could be read: also without a configuration.
Compliance(reported, expected) ==
  IF expected \in {NoAnswer, reported} THEN "compliant" ELSE "behind"

\* What a poll has found out once it knows about h.
WithVerdict(poll, h, verdict) ==
  [k \in DOMAIN poll.found \cup {h} |-> IF k = h THEN verdict ELSE poll.found[k]]

\* The poll knows about h.  Promise.all waits for all of its heartbeats, and the poll
\* then shows what it found out about them.
Concludes(i, h, verdict) ==
  LET found == WithVerdict(monitor.polls[i], h, verdict) IN
  monitor' = IF DOMAIN found = DOMAIN monitor.polls[i].beats THEN [Ends(i) EXCEPT !.shown = found]
             ELSE [monitor EXCEPT !.polls[i].found = found]

FindsDevice(i, h) == monitor' = [monitor EXCEPT !.polls[i].placed = @ \cup {h}]

\* Mutation: a device that cannot be read ends the poll.
DeviceUncaught(i, h) == FindsDevice(i, h) \/ monitor' = [Ends(i) EXCEPT !.error = TRUE]

\* getDevice is answered with the device and its group, or fails: config_compliant
\* stays undefined.
DeviceAnswer(i, h) == FindsDevice(i, h) \/ Concludes(i, h, "unknown")

\* getActiveOTELConfig is answered with a version, or there is none or it fails.
ExpectedAnswer(i, h) ==
  \E expected \in Reported \cup {NoAnswer} :
    Concludes(i, h, Compliance(monitor.polls[i].beats[h], expected))

MonitorNext ==
  \/ MonitorToggle \/ MonitorPoll \/ MonitorRefresh
  \/ \E i \in DOMAIN monitor.polls :
       LET poll == monitor.polls[i] IN
       \/ HeartbeatsAnswer(i)
       \/ \E h \in DOMAIN poll.beats \ (DOMAIN poll.found \cup poll.placed) : DeviceAnswer(i, h)
       \/ \E h \in poll.placed \ DOMAIN poll.found : ExpectedAnswer(i, h)
=============================================================================
