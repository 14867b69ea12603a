----------------------------- MODULE Dashboard -----------------------------
(***************************************************************************)
(* The pages of the control plane UI other than the workflow builder.  App *)
(* mounts one of them at a time: leaving a page drops its state and the    *)
(* answers it still awaits, but not what it asked the gateway to change.   *)
(* The pages share nothing, so that a behaviour stays with one of them,    *)
(* which is left and opened again.                                         *)
(***************************************************************************)
EXTENDS FleetView, MonitorView, ConfigView, ReplayView, CollectorView

VARIABLES
  page, \* the tab, with its subtab
  open  \* it is mounted

pageVars == <<fleet, monitor, config, replay, collector>>
vars == <<page, open, pageVars, serverVars, storage>>

Pages == {"fleet", "monitor", "config", "replay", "collector"}
Closed == [closed |-> TRUE]

\* The state of the pages when only p is mounted.
Mount(p) ==
  /\ fleet' = IF p = "fleet" THEN FleetMounted ELSE Closed
  /\ monitor' = IF p = "monitor" THEN MonitorMounted ELSE Closed
  /\ config' = IF p = "config" THEN ConfigMounted ELSE Closed
  /\ replay' = IF p = "replay" THEN ReplayMounted ELSE Closed
  /\ collector' = IF p = "collector" THEN CollectorMounted ELSE Closed

Init ==
  /\ page \in Pages /\ open = FALSE
  /\ fleet = Closed /\ monitor = Closed /\ config = Closed /\ replay = Closed /\ collector = Closed
  /\ made = [g \in DeviceGroups |-> {}]
  /\ deployed = [g \in DeviceGroups |-> {}]
  /\ late = {}
  /\ storage = NothingSaved

Open ==
  /\ ~open /\ open' = TRUE
  /\ Mount(page)
  /\ UNCHANGED <<page, serverVars, storage>>

Unserved ==
  IF page # "config" THEN {}
  ELSE {config.calls[i] : i \in {j \in DOMAIN config.calls :
                                   config.calls[j].what \notin Reads /\ ~config.calls[j].served}}

Leave ==
  /\ open /\ open' = FALSE
  /\ late' = late \cup Unserved
  /\ Mount("none")
  /\ UNCHANGED <<page, deployed, made, storage>>

Within(p) ==
  /\ page = p /\ open
  /\ UNCHANGED <<page, open>>
  /\ p # "fleet" => UNCHANGED fleet
  /\ p # "monitor" => UNCHANGED monitor
  /\ p # "config" => UNCHANGED <<config, serverVars>>
  /\ p # "replay" => UNCHANGED replay
  /\ p # "collector" => UNCHANGED <<collector, storage>>

Next ==
  \/ Open \/ Leave
  \/ Within("fleet") /\ FleetNext
  \/ Within("monitor") /\ MonitorNext
  \/ Within("config") /\ ConfigNext
  \/ Within("replay") /\ ReplayNext
  \/ Within("collector") /\ CollectorNext

Spec == Init /\ [][Next]_vars
-----------------------------------------------------------------------------
On(p) == open /\ page = p

\* What a page disables or hides while it waits comes back: whenever it is loading
\* or deploying, a call that ends this is under way, and a deployment is followed
\* to its end before the next one can be started.
ControlsFollowCalls ==
  /\ On("fleet") /\ fleet.loading => fleet.calls # <<>>
  /\ On("monitor") /\ monitor.loading => monitor.polls # <<>>
  /\ On("config") =>
       LET deploying == {i \in DOMAIN config.calls : config.calls[i].chain = "deploy"}
       IN  Cardinality(deploying) = IF config.loading THEN 1 ELSE 0

\* A page that waits for nothing shows what it says it shows: the devices of the
\* selected group, the active configuration of the selected group and what else
\* can be activated there.  Excepted are a last answer that was a failure or was
\* overtaken by a later one, which the page takes for the newest, and the fetches
\* of a deployment or activation that went on after another group was selected.
SettledOnSelection ==
  /\ On("fleet") /\ fleet.calls = <<>> /\ fleet.fresh => fleet.shown = fleet.group
  /\ On("config") /\ config.calls = <<>> =>
       LET g == config.group IN
       /\ "active" \in config.fresh =>
            config.active = IF deployed[g] = {} THEN NoConfig ELSE Listed(g, deployed[g])
       /\ "saved" \in config.fresh => config.saved = Listed(g, made[g] \ deployed[g])

\* A step of the monitor: nothing new is shown, or the poll i ends.
RowsFromPolls ==
  \/ Len(monitor'.polls) >= Len(monitor.polls) /\ monitor'.shown = monitor.shown
  \/ \E i \in DOMAIN monitor.polls :
       LET poll == monitor.polls[i] IN
       /\ monitor'.polls = RemoveAt(monitor.polls, i)
       /\ IF poll.asked
          THEN monitor'.shown = <<>> \/ (monitor'.error /\ monitor'.shown = monitor.shown)
          ELSE /\ DOMAIN monitor'.shown = DOMAIN poll.beats
               /\ \A h \in DOMAIN poll.found : monitor'.shown[h] = poll.found[h]
               /\ monitor'.error = monitor.error

\* Only the end of a poll changes what the monitor shows.  A poll that has its
\* heartbeats ends with a row for each of them, with what it had found out about the
\* others when the last was answered, and without an error of its own, whichever of
\* the questions about single devices failed; one that has none ends with an empty
\* page or with an error and the rows there were ("Device not registered - that's ok,
\* just show heartbeat").
PollShowsAll == [][On("monitor") /\ On("monitor")' => RowsFromPolls]_monitor

\* The records of a document in their order.
Records(document) ==
  IF document.form = "envelope" THEN FlattenSeq(document.records) ELSE document.records

\* A record there is nothing to show of: a line that is no JSON, null, or a log record
\* with an attribute that has no value.
Unreadable(r) == r.shape \in {"malformed", "null"} \/ (r.shape = "log" /\ r.broken)

\* e shows the record r, in milliseconds at its time, or else when it was observed.
Shows(e, r) ==
  LET date == IF r.time # Missing THEN r.time ELSE IF r.observed # Missing THEN r.observed ELSE 0
  IN  /\ e.trace = r.trace /\ e.body = r.body /\ e.picture = r.picture
      /\ e.ms = IF r.shape = "log" THEN date \div Nanos ELSE date

\* A timeline has each of some records as often as they are there and nothing else, by
\* trace and in the order of time, a row for each of them and each picture of them in
\* a strip.
Accounts(timeline, records) ==
  LET all  == FlattenSeq(Map(LAMBDA group : group.events, timeline))
      rows == FlattenSeq(Map(LAMBDA group : Rows(group.events), timeline))
      readable == {i \in DOMAIN records : ~Unreadable(records[i])}
  IN  /\ Len(all) = Cardinality(readable)
      /\ \A e \in ToSet(all) : Cardinality({i \in DOMAIN all : all[i] = e})
                              = Cardinality({i \in readable : Shows(e, records[i])})
      /\ Len(rows) = Len(all)
      /\ PicturesIn(timeline) = {row.picture : row \in ToSet(rows)} \ {NoPicture}
      /\ \A n \in DOMAIN timeline :
           LET group == timeline[n] IN
           /\ \A i \in DOMAIN group.events : group.events[i].trace = group.trace
           /\ \A i, j \in DOMAIN group.events :
                i < j => group.events[i].ms <= group.events[j].ms
           /\ n < Len(timeline) =>
                /\ group.trace # timeline[n + 1].trace
                /\ group.events[1].ms <= timeline[n + 1].events[1].ms

\* What the page shows of its document has each of the records of the document once, by
\* trace and in the order of time, with a row for each and every picture of them in a
\* strip.  Of a document of lines the unreadable ones are left out, and no others ("skips
\* malformed lines without crashing"; the code skips null and broken records there as
\* well).  An unreadable record of another form hides the document: then an error says
\* why nothing is shown, unless a fetch is under way or the same document was fetched
\* once more (then the error is gone and the page stays empty).
DocumentAccounted ==
  On("replay") =>
    LET document == replay.raw IN
    IF document.form # "lines" /\ \E r \in ToSet(Records(document)) : Unreadable(r)
    THEN replay.error # "none" \/ replay.fetching \/ replay.same
    ELSE Accounts(Shown(document), Records(document))

\* Credentials that were saved are those of every Dash0 endpoint saved with them,
\* also when the endpoints carried earlier ones ("Dash0 endpoints automatically
\* use your auth token and dataset configured above").
CredentialsReach ==
  storage.token # NoToken =>
    \A e \in ToSet(storage.endpoints) : e.dash0 => e.headers = storage.token
=============================================================================
