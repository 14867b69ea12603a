----------------------------- MODULE FleetView -----------------------------
(***************************************************************************)
(* DeviceFleet: the list of the devices of a group, asked for when the     *)
(* page is opened, when another group is chosen, every 30 seconds and by a *)
(* button.  Of the devices only the group they were asked for is kept, and *)
(* the search term, which only filters what is shown, is left out.         *)
(***************************************************************************)
EXTENDS PageCalls

CONSTANTS
  Groups,  \* what can be selected
  All,     \* the selection the page starts with
  MaxCalls \* calls a page has under way (bound)

ASSUME AllAssumption == All \in Groups

VARIABLE fleet

\* fetchDevices of a rendering in which g is selected.
FetchDevices(view, g) ==
  [view EXCEPT !.loading = TRUE, !.error = FALSE, !.fresh = FALSE,
               !.calls = Append(@, Call("devices", g))]

\* The effect of selectedGroup and autoRefresh: fetchDevices now and, if it is to
\* be repeated, the same one from an interval.
FleetEffect(view) ==
  [FetchDevices(view, view.group) EXCEPT !.poll = IF view.auto THEN view.group ELSE None]

FleetMounted ==
  FleetEffect([group |-> All, auto |-> TRUE, poll |-> None, loading |-> TRUE,
               error |-> FALSE, shown |-> None, calls |-> <<>>, fresh |-> FALSE])

FleetRoom == Len(fleet.calls) < MaxCalls

FleetSelect(g) ==
  /\ g # fleet.group /\ FleetRoom
  /\ fleet' = FleetEffect([fleet EXCEPT !.group = g])

FleetToggle == FleetRoom /\ fleet' = FleetEffect([fleet EXCEPT !.auto = ~@])

FleetPoll ==
  /\ fleet.poll # None /\ FleetRoom
  /\ fleet' = FetchDevices(fleet, fleet.poll)

\* The button is disabled while the page is loading.
FleetRefresh ==
  /\ ~fleet.loading /\ FleetRoom
  /\ fleet' = FetchDevices(fleet, fleet.group)

\* Mutation: a failed call leaves the page loading.
FleetFailsLoading(i) ==
  fleet' = [fleet EXCEPT !.error = TRUE, !.calls = Answered(@, i)]

FleetFails(i) ==
  fleet' = [fleet EXCEPT !.error = TRUE, !.loading = FALSE, !.calls = Answered(@, i)]

\* The answer to the ith call.  It does not clear the error of another one.
FleetAnswer(i) ==
  \/ fleet' = [fleet EXCEPT !.shown = fleet.calls[i].group, !.loading = FALSE,
                            !.fresh = InTurn(fleet.calls, i), !.calls = Answered(@, i)]
  \/ FleetFails(i)

FleetNext ==
  \/ \E g \in Groups : FleetSelect(g)
  \/ FleetToggle \/ FleetPoll \/ FleetRefresh
  \/ \E i \in DOMAIN fleet.calls : FleetAnswer(i)
=============================================================================
