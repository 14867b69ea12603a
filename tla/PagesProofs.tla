---------------------------- MODULE PagesProofs ----------------------------
(***************************************************************************)
(* What the pages of the dashboard show, and whether they come back from   *)
(* waiting, for any number of calls under way and answers in any order;    *)
(* and that the workflow builder loses nothing that is drawn.              *)
(*                                                                         *)
(* There is one inductive invariant per page, of the page while it is      *)
(* mounted: what the calls under way have been answered, and which of them *)
(* is the last, says what the page will show once nothing is under way.    *)
(* The builder has a specification, and an invariant, of its own, and so   *)
(* have the graphs that are drawn in it: the search for cycles is exact,   *)
(* and what passes validation compiles.                                    *)
(***************************************************************************)
EXTENDS Dashboard, WorkflowEditor, PolicyGraphs,
        SequenceTheorems, FiniteSetTheorems, WellFoundedInduction, TLAPS

-----------------------------------------------------------------------------
\* Sequences of calls.

\* What is left of a sequence without its ith element.
LEMMA RemoveAtFacts ==
  ASSUME NEW S, NEW s \in Seq(S), NEW i \in 1 .. Len(s)
  PROVE  /\ RemoveAt(s, i) \in Seq(S)
         /\ Len(RemoveAt(s, i)) = Len(s) - 1
         /\ \A k \in 1 .. Len(s) - 1 :
              RemoveAt(s, i)[k] = IF k < i THEN s[k] ELSE s[k + 1]
<1> DEFINE n == Len(s)
           a == SubSeq(s, 1, i - 1)
           b == SubSeq(s, i + 1, n)
<1>1. n \in Nat /\ i \in 1 .. n /\ \A k \in 1 .. n : s[k] \in S
  BY LenProperties, ElementOfSeq
<1>2. a \in Seq(S) /\ Len(a) = i - 1 /\ \A k \in 1 .. i - 1 : a[k] = s[k]
  <2>1. \A k \in 1 .. i - 1 : s[k] \in S
    BY <1>1
  <2>2. /\ a \in Seq(S) /\ Len(a) = IF 1 <= i - 1 THEN i - 1 - 1 + 1 ELSE 0
        /\ \A k \in 1 .. i - 1 - 1 + 1 : a[k] = s[1 + k - 1]
    BY <1>1, <2>1, SubSeqProperties
  <2> QED  BY <1>1, <2>2
<1>3. b \in Seq(S) /\ Len(b) = n - i /\ \A k \in 1 .. n - i : b[k] = s[i + k]
  <2>1. \A k \in i + 1 .. n : s[k] \in S
    BY <1>1
  <2>2. /\ b \in Seq(S) /\ Len(b) = IF i + 1 <= n THEN n - (i + 1) + 1 ELSE 0
        /\ \A k \in 1 .. n - (i + 1) + 1 : b[k] = s[(i + 1) + k - 1]
    BY <1>1, <2>1, SubSeqProperties
  <2>3. \A k \in 1 .. n - i : k \in 1 .. n - (i + 1) + 1 /\ (i + 1) + k - 1 = i + k
    BY <1>1
  <2> QED  BY <1>1, <2>2, <2>3
<1> HIDE DEF a, b
<1>4. /\ a \o b \in Seq(S) /\ Len(a \o b) = Len(a) + Len(b)
      /\ \A k \in 1 .. Len(a) + Len(b) :
           (a \o b)[k] = IF k <= Len(a) THEN a[k] ELSE b[k - Len(a)]
  BY <1>2, <1>3, ConcatProperties
<1>5. ASSUME NEW k \in 1 .. n - 1 PROVE (a \o b)[k] = IF k < i THEN s[k] ELSE s[k + 1]
  <2>1. k \in 1 .. Len(a) + Len(b)
    BY <1>1, <1>2, <1>3
  <2>2. CASE k < i
    BY <1>1, <1>2, <1>4, <2>1, <2>2
  <2>3. CASE ~(k < i)
    <3>1. k - (i - 1) \in 1 .. n - i /\ i + (k - (i - 1)) = k + 1 /\ ~(k <= i - 1)
      BY <1>1, <2>3
    <3> QED  BY <1>2, <1>3, <1>4, <2>1, <2>3, <3>1
  <2> QED  BY <2>2, <2>3
<1>6. Len(a \o b) = n - 1
  BY <1>1, <1>2, <1>3, <1>4
<1> QED  BY <1>4, <1>5, <1>6 DEF RemoveAt, a, b

\* A call once it has been overtaken.
Overtaken(call) == [call EXCEPT !.overtaken = TRUE]

\* The calls that are left when one is answered: those of the same thing sent
\* before it are overtaken, the others as they were.
LEMMA AnsweredFacts ==
  ASSUME NEW S, NEW calls \in Seq(S), NEW i \in 1 .. Len(calls),
         \A c \in S : Overtaken(c) \in S
  PROVE  /\ Answered(calls, i) \in Seq(S)
         /\ Len(Answered(calls, i)) = Len(calls) - 1
         /\ \A k \in 1 .. Len(calls) - 1 :
              Answered(calls, i)[k] =
                IF k < i THEN (IF calls[k].what = calls[i].what THEN Overtaken(calls[k])
                               ELSE calls[k])
                ELSE calls[k + 1]
<1> DEFINE m == [j \in DOMAIN calls |->
                   IF j < i /\ calls[j].what = calls[i].what
                   THEN [calls[j] EXCEPT !.overtaken = TRUE] ELSE calls[j]]
           n == Len(calls)
<1>1. n \in Nat /\ DOMAIN calls = 1 .. n /\ \A k \in 1 .. n : calls[k] \in S
  BY LenProperties, ElementOfSeq
<1>2. m \in Seq(S) /\ Len(m) = n
  <2>1. \A k \in 1 .. n : m[k] \in S
    BY <1>1 DEF Overtaken
  <2>2. m \in [1 .. n -> S]
    BY <1>1, <2>1
  <2> QED  BY <1>1, <2>2
<1>3. /\ RemoveAt(m, i) \in Seq(S) /\ Len(RemoveAt(m, i)) = n - 1
      /\ \A k \in 1 .. n - 1 : RemoveAt(m, i)[k] = IF k < i THEN m[k] ELSE m[k + 1]
  <2> HIDE DEF m
  <2> QED  BY <1>2, RemoveAtFacts
<1>4. ASSUME NEW k \in 1 .. n - 1
      PROVE  RemoveAt(m, i)[k] =
               IF k < i THEN (IF calls[k].what = calls[i].what THEN Overtaken(calls[k])
                              ELSE calls[k])
               ELSE calls[k + 1]
  <2> k \in 1 .. n /\ k + 1 \in 1 .. n
    BY <1>1
  <2>1. m[k] = IF k < i /\ calls[k].what = calls[i].what THEN Overtaken(calls[k]) ELSE calls[k]
    BY <1>1 DEF Overtaken
  <2>4. ~(k + 1 < i) => m[k + 1] = calls[k + 1]
    BY <1>1
  <2>2. RemoveAt(m, i)[k] = IF k < i THEN m[k] ELSE m[k + 1]
    BY <1>3
  <2> HIDE DEF m
  <2>3. k < i \/ ~(k + 1 < i)
    BY <1>1
  <2> QED  BY <2>1, <2>2, <2>3, <2>4
<1>5. Answered(calls, i) = RemoveAt(m, i)
  BY DEF Answered
<1> HIDE DEF m
<1> QED  BY <1>3, <1>4, <1>5

-----------------------------------------------------------------------------
\* The fleet of devices.

FleetCalls == [what : {"devices"}, group : Groups, overtaken : BOOLEAN]

FleetPages ==
  [group : Groups, auto : BOOLEAN, poll : Groups \cup {None}, loading : BOOLEAN,
   error : BOOLEAN, shown : Groups \cup {None}, calls : Seq(FleetCalls), fresh : BOOLEAN]

\* The last of the calls is for the group g, unless a later one was answered.
LastFor(calls, g) ==
  calls # <<>> => LET last == calls[Len(calls)] IN last.overtaken \/ last.group = g

\* The interval asks for the selected group, and so does the last of the calls.
FleetInv(view) ==
  /\ view \in FleetPages
  /\ view.poll # None => view.poll = view.group
  /\ view.loading => view.calls # <<>>
  /\ LastFor(view.calls, view.group)
  /\ view.fresh => view.shown = view.group

\* A further call for the selected group.
LEMMA FetchDevicesFacts ==
  ASSUME NEW view \in FleetPages, view.poll # None => view.poll = view.group
  PROVE  /\ FleetInv(FetchDevices(view, view.group))
         /\ FetchDevices(view, view.group).group = view.group
<1> DEFINE call == Call("devices", view.group)
           calls == Append(view.calls, call)
           after == FetchDevices(view, view.group)
<1>1. call \in FleetCalls /\ call.group = view.group /\ view.calls \in Seq(FleetCalls)
  BY DEF FleetPages, FleetCalls, Call
<1>2. /\ calls \in Seq(FleetCalls) /\ Len(calls) = Len(view.calls) + 1
      /\ calls[Len(calls)] = call /\ calls # <<>>
  BY <1>1, AppendProperties
<1>3. /\ after = [view EXCEPT !.loading = TRUE, !.error = FALSE, !.fresh = FALSE, !.calls = calls]
      /\ LastFor(calls, view.group)
  BY <1>1, <1>2 DEF FetchDevices, LastFor
<1> HIDE DEF calls, after
<1>4. /\ after \in FleetPages /\ after.group = view.group /\ after.poll = view.poll
      /\ after.loading = TRUE /\ after.fresh = FALSE /\ after.calls = calls
  BY <1>2, <1>3 DEF FleetPages
<1>5. FleetInv(after)
  BY <1>2, <1>3, <1>4 DEF FleetInv
<1> QED  BY <1>4, <1>5 DEF after

\* The effect that follows a selection or a click on the box.
LEMMA FleetEffectInv ==
  ASSUME NEW view \in FleetPages
  PROVE  FleetInv(FleetEffect(view))
<1> DEFINE v == [view EXCEPT !.poll = IF view.auto THEN view.group ELSE None]
<1>1. FleetEffect(view) = FetchDevices(v, v.group)
  BY DEF FleetEffect, FetchDevices, FleetPages, Call
<1>2. v \in FleetPages /\ (v.poll # None => v.poll = v.group)
  BY DEF FleetPages
<1> QED  BY <1>1, <1>2, FetchDevicesFacts

\* The page is opened.
LEMMA FleetMountedInv == FleetInv(FleetMounted)
<1> DEFINE v == [group |-> All, auto |-> TRUE, poll |-> None, loading |-> TRUE,
                 error |-> FALSE, shown |-> None, calls |-> <<>>, fresh |-> FALSE]
<1>1. <<>> \in Seq(FleetCalls)
  BY EmptySeq
<1>2. v \in FleetPages
  BY <1>1, AllAssumption DEF AllAssumption, FleetPages
<1> QED  BY <1>2, FleetEffectInv DEF FleetMounted

\* What a page has left to wait for after an answer.
LEMMA FleetAnswered ==
  ASSUME NEW view, FleetInv(view), NEW i \in 1 .. Len(view.calls)
  PROVE  /\ Answered(view.calls, i) \in Seq(FleetCalls)
         /\ LastFor(Answered(view.calls, i), view.group)
         /\ InTurn(view.calls, i) => view.calls[i].group = view.group
<1> DEFINE calls == view.calls
           n == Len(calls)
           left == Answered(calls, i)
<1>1. calls \in Seq(FleetCalls) /\ n \in Nat /\ i \in 1 .. n /\ LastFor(calls, view.group)
  BY LenProperties DEF FleetInv, FleetPages
<1>2. \A c \in FleetCalls : Overtaken(c) \in FleetCalls /\ Overtaken(c).overtaken = TRUE
  BY DEF FleetCalls, Overtaken
<1>3. \A k \in 1 .. n : calls[k] \in FleetCalls /\ calls[k].what = "devices"
  <2>1. \A k \in 1 .. n : calls[k] \in FleetCalls
    BY <1>1, ElementOfSeq
  <2> QED  BY <2>1 DEF FleetCalls
<1>4. calls # <<>> /\ n \in 1 .. n
  BY <1>1, EmptySeq
<1>5. calls[n].overtaken \/ calls[n].group = view.group
  BY <1>1, <1>4 DEF LastFor
<1> HIDE DEF calls, n
<1>6. /\ left \in Seq(FleetCalls) /\ Len(left) = n - 1
      /\ \A k \in 1 .. n - 1 :
           left[k] = IF k < i THEN (IF calls[k].what = calls[i].what THEN Overtaken(calls[k])
                                    ELSE calls[k])
                     ELSE calls[k + 1]
  BY <1>1, <1>2, AnsweredFacts DEF n
<1> HIDE DEF left
<1>7. LastFor(left, view.group)
  <2> SUFFICES ASSUME left # <<>>
               PROVE  left[n - 1].overtaken \/ left[n - 1].group = view.group
    BY <1>6 DEF LastFor
  <2>1. n - 1 \in 1 .. n - 1
    BY <1>1, <1>6, EmptySeq
  <2>2. CASE n - 1 < i
    <3>1. i = n
      BY <1>1, <2>2
    <3>2. n - 1 \in 1 .. n
      BY <1>1, <2>1
    <3>3. left[n - 1] = Overtaken(calls[n - 1])
      BY <1>3, <1>4, <1>6, <2>1, <2>2, <3>1, <3>2
    <3> QED  BY <1>2, <1>3, <3>2, <3>3
  <2>3. CASE ~(n - 1 < i)
    <3>1. left[n - 1] = calls[n]
      BY <1>1, <1>6, <2>1, <2>3
    <3> QED  BY <1>5, <3>1
  <2> QED  BY <2>2, <2>3
<1>8. ASSUME InTurn(calls, i) PROVE calls[i].group = view.group
  <2>1. i = n
    <3> SUFFICES ASSUME i # n PROVE FALSE
      OBVIOUS
    <3>1. n \in i + 1 .. n
      BY <1>1
    <3>2. calls[n].what # calls[i].what
      BY <1>8, <3>1 DEF InTurn, n
    <3> QED  BY <1>1, <1>3, <1>4, <3>2
  <2> QED  BY <1>5, <1>8, <2>1 DEF InTurn
<1> QED  BY <1>6, <1>7, <1>8 DEF left, calls

\* No step of the page leaves the invariant.
LEMMA FleetStep == FleetInv(fleet) /\ FleetNext => FleetInv(fleet')
<1> SUFFICES ASSUME FleetInv(fleet), FleetNext PROVE FleetInv(fleet')
  OBVIOUS
<1>1. fleet \in FleetPages /\ (fleet.poll # None => fleet.poll = fleet.group)
  BY DEF FleetInv
<1>2. ASSUME NEW g \in Groups, FleetSelect(g) PROVE FleetInv(fleet')
  <2>1. [fleet EXCEPT !.group = g] \in FleetPages
    BY <1>1 DEF FleetPages
  <2> QED  BY <1>2, <2>1, FleetEffectInv DEF FleetSelect
<1>3. CASE FleetToggle
  <2>1. [fleet EXCEPT !.auto = ~@] \in FleetPages
    BY <1>1 DEF FleetPages
  <2> QED  BY <1>3, <2>1, FleetEffectInv DEF FleetToggle
<1>4. CASE FleetPoll
  BY <1>1, <1>4, FetchDevicesFacts DEF FleetPoll
<1>5. CASE FleetRefresh
  BY <1>1, <1>5, FetchDevicesFacts DEF FleetRefresh
<1>6. ASSUME NEW i \in DOMAIN fleet.calls, FleetAnswer(i) PROVE FleetInv(fleet')
  <2> DEFINE left == Answered(fleet.calls, i)
             turn == InTurn(fleet.calls, i)
             call == fleet.calls[i]
  <2>1. i \in 1 .. Len(fleet.calls) /\ call \in FleetCalls
    BY <1>1, LenProperties, ElementOfSeq DEF FleetPages
  <2>2. left \in Seq(FleetCalls) /\ LastFor(left, fleet.group) /\ (turn => call.group = fleet.group)
    BY <2>1, FleetAnswered
  <2>3. turn \in BOOLEAN /\ call.group \in Groups
    BY <2>1 DEF FleetCalls, InTurn
  <2>4. \/ fleet' = [fleet EXCEPT !.shown = call.group, !.loading = FALSE,
                                  !.fresh = turn, !.calls = left]
        \/ fleet' = [fleet EXCEPT !.error = TRUE, !.loading = FALSE, !.calls = left]
    BY <1>6 DEF FleetAnswer, FleetFails
  <2> HIDE DEF left, turn, call
  <2>5. /\ fleet' \in FleetPages /\ fleet'.group = fleet.group /\ fleet'.poll = fleet.poll
        /\ fleet'.loading = FALSE /\ fleet'.calls = left
    BY <1>1, <2>2, <2>3, <2>4 DEF FleetPages
  <2>6. fleet'.fresh => fleet'.shown = fleet.group
    <3>1. CASE fleet' = [fleet EXCEPT !.shown = call.group, !.loading = FALSE,
                                      !.fresh = turn, !.calls = left]
      BY <1>1, <2>2, <3>1 DEF FleetPages
    <3>2. CASE fleet' = [fleet EXCEPT !.error = TRUE, !.loading = FALSE, !.calls = left]
      BY <1>1, <3>2 DEF FleetPages, FleetInv
    <3> QED  BY <2>4, <3>1, <3>2
  <2> QED  BY <1>1, <2>2, <2>5, <2>6 DEF FleetInv
<1> QED  BY <1>2, <1>3, <1>4, <1>5, <1>6 DEF FleetNext

-----------------------------------------------------------------------------
\* The monitor.

Verdicts == {"unknown", "compliant", "behind"}

\* What is known of some of the heartbeats.
Known(T) == {<<>>} \cup UNION {[some -> T] : some \in SUBSET Heartbeats}

\* A poll that is asked for the heartbeats knows of no device.
Polls ==
  {poll \in [asked : BOOLEAN, beats : Known(Reported), placed : SUBSET Heartbeats,
             found : Known(Verdicts)] :
     poll.asked => poll.beats = <<>> /\ poll.placed = {}}

MonitorPages ==
  [auto : BOOLEAN, loading : BOOLEAN, error : BOOLEAN, shown : Known(Verdicts),
   polls : Seq(Polls)]

MonitorInv(view) ==
  /\ view \in MonitorPages
  /\ view.loading => view.polls # <<>>

\* The heartbeats of which something is known are the gateway's.
LEMMA KnownDomain == ASSUME NEW T, NEW f \in Known(T) PROVE DOMAIN f \subseteq Heartbeats
<1>1. CASE f = <<>>
  BY <1>1
<1>2. ASSUME NEW some \in SUBSET Heartbeats, f \in [some -> T] PROVE DOMAIN f \subseteq Heartbeats
  BY <1>2
<1> QED  BY <1>1, <1>2 DEF Known

\* One more verdict.
LEMMA KnownMore ==
  ASSUME NEW poll \in Polls, NEW h \in Heartbeats, NEW v \in Verdicts
  PROVE  WithVerdict(poll, h, v) \in Known(Verdicts)
<1> DEFINE f == poll.found
           g == WithVerdict(poll, h, v)
           some == (DOMAIN f) \cup {h}
<1>1. f \in Known(Verdicts) /\ some \in SUBSET Heartbeats
  BY KnownDomain DEF Polls
<1>2. \A k \in DOMAIN f : f[k] \in Verdicts
  BY <1>1 DEF Known
<1>3. g = [k \in some |-> IF k = h THEN v ELSE f[k]]
  BY DEF WithVerdict
<1>4. g \in [some -> Verdicts]
  BY <1>2, <1>3
<1> HIDE DEF g, some
<1>5. g \in Known(Verdicts)
  BY <1>1, <1>4 DEF Known
<1> QED  BY <1>5 DEF g

\* A poll begins.
LEMMA StartPollInv ==
  ASSUME NEW view \in MonitorPages
  PROVE  /\ MonitorInv(StartPoll(view)) /\ StartPoll(view).shown = view.shown
         /\ Len(StartPoll(view).polls) >= Len(view.polls)
<1> DEFINE poll == [asked |-> TRUE, beats |-> <<>>, placed |-> {}, found |-> <<>>]
           polls == Append(view.polls, poll)
<1>1. poll \in Polls /\ view.polls \in Seq(Polls)
  BY DEF Polls, Known, MonitorPages
<1>2. polls \in Seq(Polls) /\ polls # <<>> /\ Len(polls) >= Len(view.polls)
  <2> HIDE DEF poll
  <2> QED  BY <1>1, AppendProperties, LenProperties
<1>3. StartPoll(view) = [view EXCEPT !.error = FALSE, !.polls = polls]
  BY DEF StartPoll, MonitorPages
<1> HIDE DEF polls
<1>4. /\ StartPoll(view) \in MonitorPages /\ StartPoll(view).polls = polls
      /\ StartPoll(view).shown = view.shown
  BY <1>2, <1>3 DEF MonitorPages
<1> QED  BY <1>2, <1>4 DEF MonitorInv

\* The page is opened.
LEMMA MonitorMountedInv == MonitorInv(MonitorMounted)
<1> DEFINE v == [auto |-> TRUE, loading |-> TRUE, error |-> FALSE, shown |-> <<>>,
                 polls |-> <<>>]
<1>1. <<>> \in Seq(Polls) /\ <<>> \in Known(Verdicts)
  BY EmptySeq DEF Known
<1>2. v \in MonitorPages
  BY <1>1 DEF MonitorPages
<1> HIDE DEF v
<1>3. MonitorInv(StartPoll(v))
  BY <1>2, StartPollInv
<1> QED  BY <1>3 DEF MonitorMounted, v

\* A poll ends.
LEMMA EndsInv ==
  ASSUME NEW i \in 1 .. Len(monitor.polls), MonitorInv(monitor)
  PROVE  /\ Ends(i) \in MonitorPages /\ Ends(i).loading = FALSE
         /\ Ends(i).shown = monitor.shown /\ Ends(i).error = monitor.error
         /\ Ends(i).polls = RemoveAt(monitor.polls, i)
<1>1. monitor \in MonitorPages /\ monitor.polls \in Seq(Polls)
  BY DEF MonitorInv, MonitorPages
<1>2. RemoveAt(monitor.polls, i) \in Seq(Polls)
  BY <1>1, RemoveAtFacts
<1>3. Ends(i) = [monitor EXCEPT !.loading = FALSE, !.polls = RemoveAt(monitor.polls, i)]
  BY <1>1 DEF Ends, MonitorPages
<1> QED  BY <1>1, <1>2, <1>3 DEF MonitorPages

\* A poll goes on.
LEMMA PollGoesOn ==
  ASSUME NEW i \in 1 .. Len(monitor.polls), MonitorInv(monitor), NEW poll \in Polls,
         monitor' = [monitor EXCEPT !.polls[i] = poll]
  PROVE  MonitorInv(monitor') /\ RowsFromPolls
<1> DEFINE polls == [monitor.polls EXCEPT ![i] = poll]
<1>1. monitor \in MonitorPages /\ monitor.polls \in Seq(Polls)
  BY DEF MonitorInv, MonitorPages
<1>2. polls \in Seq(Polls) /\ Len(polls) = Len(monitor.polls)
  BY <1>1, ExceptSeq
<1>3. monitor' = [monitor EXCEPT !.polls = polls]
  BY <1>1 DEF MonitorPages
<1>4. polls # <<>> /\ Len(monitor.polls) \in Nat
  BY <1>1, <1>2, EmptySeq, LenProperties
<1> HIDE DEF polls
<1>5. /\ monitor' \in MonitorPages /\ monitor'.polls = polls
      /\ monitor'.shown = monitor.shown
  BY <1>1, <1>2, <1>3 DEF MonitorPages
<1> QED  BY <1>2, <1>4, <1>5 DEF MonitorInv, RowsFromPolls

\* The poll i and what it knows.
LEMMA PollFacts ==
  ASSUME MonitorInv(monitor), NEW i \in DOMAIN monitor.polls
  PROVE  /\ i \in 1 .. Len(monitor.polls) /\ monitor.polls[i] \in Polls
         /\ monitor.polls[i].beats \in Known(Reported)
         /\ monitor.polls[i].found \in Known(Verdicts)
         /\ monitor.polls[i].placed \in SUBSET Heartbeats
         /\ monitor.polls[i].asked =>
              DOMAIN monitor.polls[i].beats = {} /\ monitor.polls[i].placed = {}
<1>1. monitor.polls \in Seq(Polls)
  BY DEF MonitorInv, MonitorPages
<1>2. i \in 1 .. Len(monitor.polls) /\ monitor.polls[i] \in Polls
  BY <1>1, LenProperties, ElementOfSeq
<1> QED  BY <1>2 DEF Polls

\* A poll that has its heartbeats learns about one more of them: it goes on, or ends
\* with what it has found out about all of them.
LEMMA ConcludesInv ==
  ASSUME MonitorInv(monitor), NEW i \in DOMAIN monitor.polls, ~monitor.polls[i].asked,
         NEW h \in Heartbeats \ DOMAIN monitor.polls[i].found, NEW verdict \in Verdicts,
         Concludes(i, h, verdict)
  PROVE  MonitorInv(monitor') /\ RowsFromPolls
<1> DEFINE found == WithVerdict(monitor.polls[i], h, verdict)
           beats == monitor.polls[i].beats
<1>1. monitor \in MonitorPages
  BY DEF MonitorInv
<1>2. i \in 1 .. Len(monitor.polls) /\ monitor.polls[i] \in Polls
  BY PollFacts
<1>3. found \in Known(Verdicts)
  BY <1>2, KnownMore
<1>4. \A k \in DOMAIN monitor.polls[i].found : found[k] = monitor.polls[i].found[k]
  BY DEF WithVerdict
<1>5. monitor' = IF DOMAIN found = DOMAIN beats THEN [Ends(i) EXCEPT !.shown = found]
                 ELSE [monitor EXCEPT !.polls[i].found = found]
  BY DEF Concludes
<1> HIDE DEF found
<1>6. CASE DOMAIN found = DOMAIN beats
  <2>1. /\ Ends(i) \in MonitorPages /\ Ends(i).loading = FALSE
        /\ Ends(i).error = monitor.error /\ Ends(i).polls = RemoveAt(monitor.polls, i)
    BY <1>2, EndsInv
  <2>2. monitor' = [Ends(i) EXCEPT !.shown = found]
    BY <1>5, <1>6
  <2>3. /\ monitor' \in MonitorPages /\ monitor'.loading = FALSE
        /\ monitor'.shown = found
        /\ monitor'.error = monitor.error /\ monitor'.polls = RemoveAt(monitor.polls, i)
    BY <1>3, <2>1, <2>2 DEF MonitorPages
  <2> QED  BY <1>4, <1>6, <2>3 DEF MonitorInv, RowsFromPolls
<1>7. CASE DOMAIN found # DOMAIN beats
  <2> DEFINE poll == [monitor.polls[i] EXCEPT !.found = found]
  <2>1. poll \in Polls
    BY <1>2, <1>3 DEF Polls
  <2>2. monitor' = [monitor EXCEPT !.polls[i].found = found]
    BY <1>5, <1>7
  <2>3. monitor' = [monitor EXCEPT !.polls[i] = poll]
    BY <1>1, <1>2, <2>2 DEF MonitorPages
  <2> HIDE DEF poll
  <2> QED  BY <1>2, <2>1, <2>3, PollGoesOn
<1> QED  BY <1>6, <1>7

\* The heartbeats are answered.
LEMMA HeartbeatsInv ==
  ASSUME MonitorInv(monitor), NEW i \in DOMAIN monitor.polls, HeartbeatsAnswer(i)
  PROVE  MonitorInv(monitor') /\ RowsFromPolls
<1>1. monitor \in MonitorPages
  BY DEF MonitorInv
<1>2. i \in 1 .. Len(monitor.polls) /\ monitor.polls[i] \in Polls /\ monitor.polls[i].asked
  BY PollFacts DEF HeartbeatsAnswer
<1>3. ASSUME NEW some \in SUBSET Heartbeats \ {{}}, NEW beats \in [some -> Reported],
             monitor' = [monitor EXCEPT !.polls[i].asked = FALSE, !.polls[i].beats = beats]
      PROVE  MonitorInv(monitor') /\ RowsFromPolls
  <2> DEFINE poll == [monitor.polls[i] EXCEPT !.asked = FALSE, !.beats = beats]
  <2>1. beats \in Known(Reported)
    BY DEF Known
  <2>2. poll \in Polls
    BY <1>2, <2>1 DEF Polls
  <2>3. monitor' = [monitor EXCEPT !.polls[i] = poll]
    BY <1>1, <1>2, <1>3 DEF MonitorPages
  <2> HIDE DEF poll
  <2> QED  BY <1>2, <2>2, <2>3, PollGoesOn
<1>4. /\ Ends(i) \in MonitorPages /\ Ends(i).loading = FALSE
      /\ Ends(i).shown = monitor.shown /\ Ends(i).polls = RemoveAt(monitor.polls, i)
  BY <1>2, EndsInv
<1>5. CASE monitor' = [Ends(i) EXCEPT !.shown = <<>>]
  <2>1. <<>> \in Known(Verdicts)
    BY DEF Known
  <2>2. /\ monitor' \in MonitorPages /\ monitor'.loading = FALSE /\ monitor'.shown = <<>>
        /\ monitor'.polls = RemoveAt(monitor.polls, i)
    BY <1>4, <1>5, <2>1 DEF MonitorPages
  <2> QED  BY <1>2, <2>2 DEF MonitorInv, RowsFromPolls
<1>6. CASE monitor' = [Ends(i) EXCEPT !.error = TRUE]
  <2>1. /\ monitor' \in MonitorPages /\ monitor'.loading = FALSE /\ monitor'.error = TRUE
        /\ monitor'.shown = monitor.shown /\ monitor'.polls = RemoveAt(monitor.polls, i)
    BY <1>4, <1>6 DEF MonitorPages
  <2> QED  BY <1>2, <2>1 DEF MonitorInv, RowsFromPolls
<1> QED  BY <1>3, <1>5, <1>6 DEF HeartbeatsAnswer

\* No step of the page leaves the invariant, nor changes what is shown but by the end
\* of a poll.
LEMMA MonitorStep ==
  MonitorInv(monitor) /\ MonitorNext => MonitorInv(monitor') /\ RowsFromPolls
<1> SUFFICES ASSUME MonitorInv(monitor), MonitorNext PROVE MonitorInv(monitor') /\ RowsFromPolls
  OBVIOUS
<1>1. monitor \in MonitorPages
  BY DEF MonitorInv
<1>2. CASE MonitorPoll \/ MonitorRefresh
  <2>1. monitor' = StartPoll(monitor)
    BY <1>2 DEF MonitorPoll, MonitorRefresh
  <2> QED  BY <1>1, <2>1, StartPollInv DEF RowsFromPolls
<1>3. CASE MonitorToggle
  <2> DEFINE v == [monitor EXCEPT !.auto = ~@]
  <2>1. v \in MonitorPages /\ v.shown = monitor.shown /\ v.polls = monitor.polls
    BY <1>1 DEF MonitorPages
  <2>2. monitor' = StartPoll(v)
    BY <1>3 DEF MonitorToggle
  <2> HIDE DEF v
  <2> QED  BY <2>1, <2>2, StartPollInv DEF RowsFromPolls
<1>4. ASSUME NEW i \in DOMAIN monitor.polls, HeartbeatsAnswer(i)
      PROVE  MonitorInv(monitor') /\ RowsFromPolls
  BY <1>4, HeartbeatsInv
<1>5. ASSUME NEW i \in DOMAIN monitor.polls,
             NEW h \in DOMAIN monitor.polls[i].beats
                        \ (DOMAIN monitor.polls[i].found \cup monitor.polls[i].placed),
             DeviceAnswer(i, h)
      PROVE  MonitorInv(monitor') /\ RowsFromPolls
  <2>1. /\ i \in 1 .. Len(monitor.polls) /\ monitor.polls[i] \in Polls
        /\ monitor.polls[i].placed \in SUBSET Heartbeats /\ ~monitor.polls[i].asked
    BY <1>5, PollFacts
  <2>2. h \in Heartbeats
    BY PollFacts, KnownDomain
  <2>3. CASE FindsDevice(i, h)
    <3> DEFINE poll == [monitor.polls[i] EXCEPT !.placed = @ \cup {h}]
    <3>1. poll \in Polls
      BY <2>1, <2>2 DEF Polls
    <3>2. monitor' = [monitor EXCEPT !.polls[i] = poll]
      BY <1>1, <2>1, <2>3 DEF FindsDevice, MonitorPages
    <3> HIDE DEF poll
    <3> QED  BY <2>1, <3>1, <3>2, PollGoesOn
  <2>4. CASE Concludes(i, h, "unknown")
    BY <1>5, <2>1, <2>2, <2>4, ConcludesInv DEF Verdicts
  <2> QED  BY <1>5, <2>3, <2>4 DEF DeviceAnswer
<1>6. ASSUME NEW i \in DOMAIN monitor.polls,
             NEW h \in monitor.polls[i].placed \ DOMAIN monitor.polls[i].found,
             ExpectedAnswer(i, h)
      PROVE  MonitorInv(monitor') /\ RowsFromPolls
  <2>1. PICK expected \in Reported \cup {NoAnswer} :
          Concludes(i, h, Compliance(monitor.polls[i].beats[h], expected))
    BY <1>6 DEF ExpectedAnswer
  <2>2. Compliance(monitor.polls[i].beats[h], expected) \in Verdicts
    BY DEF Compliance, Verdicts
  <2>3. h \in Heartbeats \ DOMAIN monitor.polls[i].found /\ ~monitor.polls[i].asked
    BY <1>6, PollFacts
  <2> QED  BY <2>1, <2>2, <2>3, ConcludesInv
<1> QED  BY <1>2, <1>3, <1>4, <1>5, <1>6 DEF MonitorNext

-----------------------------------------------------------------------------
\* The replay of a journey.

\* A document that cannot be parsed is reported when it is set.
ReplayInv(view) ==
  /\ DOMAIN view = DOMAIN ReplayMounted
  /\ view.fetching \in BOOLEAN
  /\ view.raw \in Documents \cup {ReplayMounted.raw}
  /\ ParseThrows(view.raw) => view.error # "none" \/ view.fetching \/ view.same

\* Another document leaves the fetch alone.
LEMMA SetRawFacts ==
  ASSUME NEW view, ReplayInv(view), NEW document
  PROVE  /\ DOMAIN SetRaw(view, document) = DOMAIN view
         /\ SetRaw(view, document).fetching = view.fetching
         /\ SetRaw(view, document).raw = document
         /\ ParseThrows(document)
              => SetRaw(view, document).error # "none" \/ SetRaw(view, document).same
BY DEF SetRaw, ReplayInv, ReplayMounted

\* The page is opened.
LEMMA ReplayMountedInv == ReplayInv(ReplayMounted)
<1>1. ~ParseThrows(ReplayMounted.raw)
  BY DEF ReplayMounted, ParseThrows
<1> QED  BY <1>1 DEF ReplayInv, ReplayMounted

\* No step of the page leaves the invariant.
LEMMA ReplayStep == ReplayInv(replay) /\ ReplayNext => ReplayInv(replay')
<1> SUFFICES ASSUME ReplayInv(replay), ReplayNext PROVE ReplayInv(replay')
  OBVIOUS
<1>1. CASE TypeTrace \/ OpenPicture \/ ClosePicture
  <2>1. PICK field \in {"traced", "lightbox"} :
          \E value : replay' = [replay EXCEPT ![field] = value]
    BY <1>1 DEF TypeTrace, OpenPicture, ClosePicture
  <2>2. PICK value : replay' = [replay EXCEPT ![field] = value]
    BY <2>1
  <2> QED  BY <2>1, <2>2 DEF ReplayInv, ReplayMounted
<1>2. CASE FetchTrace
  BY <1>2 DEF FetchTrace, ReplayInv, ReplayMounted
<1>3. CASE FetchAnswer
  <2>1. PICK view \in {SetRaw(replay, document) : document \in Documents}
                        \cup {[replay EXCEPT !.error = "fetch"]} :
          replay' = [view EXCEPT !.fetching = FALSE]
    BY <1>3 DEF FetchAnswer
  <2>2. /\ DOMAIN view = DOMAIN ReplayMounted
        /\ view.raw \in Documents \cup {ReplayMounted.raw}
        /\ ParseThrows(view.raw) => view.error # "none" \/ view.same
    <3>1. ASSUME NEW document \in Documents, view = SetRaw(replay, document)
          PROVE  /\ DOMAIN view = DOMAIN ReplayMounted
                 /\ view.raw \in Documents
                 /\ ParseThrows(view.raw) => view.error # "none" \/ view.same
      BY <3>1, SetRawFacts DEF ReplayInv
    <3>2. CASE view = [replay EXCEPT !.error = "fetch"]
      BY <3>2 DEF ReplayInv, ReplayMounted
    <3> QED  BY <2>1, <3>1, <3>2
  <2> QED  BY <2>1, <2>2 DEF ReplayInv, ReplayMounted
<1>4. ASSUME NEW document \in Documents, Paste(document) PROVE ReplayInv(replay')
  BY <1>4, SetRawFacts DEF Paste, ReplayInv
<1> QED  BY <1>1, <1>2, <1>3, <1>4 DEF ReplayNext

-----------------------------------------------------------------------------
\* The collector form.

Endpoints == [dash0 : BOOLEAN, enabled : BOOLEAN, headers : Tokens \cup {NoToken}]

Forms == [endpoints : Seq(Endpoints), token : Tokens \cup {NoToken}]

StorageInv == storage \in Forms /\ CredentialsReach

\* The form is opened with the defaults or with what was saved.
LEMMA CollectorMountedType == StorageInv => CollectorMounted \in Forms
<1> SUFFICES ASSUME StorageInv PROVE CollectorMounted \in Forms
  OBVIOUS
<1>1. \A d, e \in BOOLEAN : Endpoint(d, e) \in Endpoints
  BY DEF Endpoint, Endpoints
<1>2. DefaultEndpoints \in Seq(Endpoints)
  <2>1. \A S : \A a, b, c, d \in S : <<a, b, c, d>> \in Seq(S)
    OBVIOUS
  <2>2. /\ Endpoint(TRUE, TRUE) \in Endpoints /\ Endpoint(TRUE, FALSE) \in Endpoints
        /\ Endpoint(FALSE, FALSE) \in Endpoints
    BY <1>1
  <2> QED  BY <2>1, <2>2 DEF DefaultEndpoints
<1> QED  BY <1>2 DEF CollectorMounted, StorageInv, Forms

\* Headers are put into an endpoint.
LEMMA HeadersFacts ==
  ASSUME collector \in Forms, NEW e \in Endpoints
  PROVE  /\ WithHeaders(e) \in Endpoints
         /\ collector.token # NoToken /\ WithHeaders(e).dash0
              => WithHeaders(e).headers = collector.token
BY DEF WithHeaders, Endpoints, Forms

\* Only saving changes the storage; every other step edits the form.
LEMMA CollectorStep ==
  collector \in Forms /\ StorageInv /\ CollectorNext => collector' \in Forms /\ StorageInv'
<1> SUFFICES ASSUME collector \in Forms, StorageInv, CollectorNext
             PROVE  collector' \in Forms /\ StorageInv'
  OBVIOUS
<1> DEFINE endpoints == collector.endpoints
<1>1. /\ endpoints \in Seq(Endpoints) /\ DOMAIN endpoints = 1 .. Len(endpoints)
      /\ Len(endpoints) \in Nat
      /\ \A i \in 1 .. Len(endpoints) : endpoints[i] \in Endpoints
  <2>1. endpoints \in Seq(Endpoints)
    BY DEF Forms
  <2> HIDE DEF endpoints
  <2> QED  BY <2>1, LenProperties, ElementOfSeq
<1>2. ASSUME NEW edited \in Seq(Endpoints), collector' = [collector EXCEPT !.endpoints = edited],
             UNCHANGED storage
      PROVE  collector' \in Forms /\ StorageInv'
  BY <1>2 DEF Forms, StorageInv, CredentialsReach
<1>3. ASSUME NEW token \in Tokens \cup {NoToken}, TypeToken(token)
      PROVE  collector' \in Forms /\ StorageInv'
  BY <1>3 DEF TypeToken, Forms, StorageInv, CredentialsReach
<1>4. ASSUME NEW i \in DOMAIN endpoints, Choose(i) PROVE collector' \in Forms /\ StorageInv'
  <2> DEFINE edited == [j \in DOMAIN endpoints |-> [endpoints[j] EXCEPT !.enabled = (i = j)]]
  <2>1. \A j \in 1 .. Len(endpoints) : [endpoints[j] EXCEPT !.enabled = (i = j)] \in Endpoints
    BY <1>1 DEF Endpoints
  <2>2. edited \in [1 .. Len(endpoints) -> Endpoints]
    BY <1>1, <2>1
  <2>3. edited \in Seq(Endpoints)
    BY <1>1, <2>2
  <2>4. collector' = [collector EXCEPT !.endpoints = edited] /\ UNCHANGED storage
    BY <1>4 DEF Choose, Forms
  <2> QED  BY <1>2, <2>3, <2>4
<1>5. ASSUME NEW i \in DOMAIN endpoints, Rename(i) PROVE collector' \in Forms /\ StorageInv'
  <2> DEFINE e == [endpoints[i] EXCEPT !.dash0 = ~@]
             edited == [endpoints EXCEPT ![i] = e]
  <2>1. i \in 1 .. Len(endpoints) /\ e \in Endpoints
    BY <1>1 DEF Endpoints
  <2> HIDE DEF e
  <2>2. edited \in Seq(Endpoints)
    BY <1>1, <2>1, ExceptSeq
  <2>3. collector' = [collector EXCEPT !.endpoints = edited] /\ UNCHANGED storage
    BY <1>5 DEF Rename, Forms, e
  <2> QED  BY <1>2, <2>2, <2>3
<1>6. CASE AddEndpoint
  <2>1. Append(endpoints, Endpoint(FALSE, FALSE)) \in Seq(Endpoints)
    BY <1>1, AppendProperties DEF Endpoint, Endpoints
  <2>2. /\ collector' = [collector EXCEPT !.endpoints = Append(endpoints, Endpoint(FALSE, FALSE))]
        /\ UNCHANGED storage
    BY <1>6 DEF AddEndpoint, Forms
  <2> QED  BY <1>2, <2>1, <2>2
<1>7. ASSUME NEW i \in DOMAIN endpoints, RemoveEndpoint(i)
      PROVE  collector' \in Forms /\ StorageInv'
  <2>1. RemoveAt(endpoints, i) \in Seq(Endpoints)
    BY <1>1, RemoveAtFacts
  <2>2. /\ collector' = [collector EXCEPT !.endpoints = RemoveAt(endpoints, i)]
        /\ UNCHANGED storage
    BY <1>7 DEF RemoveEndpoint, Forms
  <2> QED  BY <1>2, <2>1, <2>2
<1>8. CASE Save
  <2> DEFINE saved == [i \in DOMAIN endpoints |-> WithHeaders(endpoints[i])]
  <2>1. /\ storage' = [endpoints |-> saved, token |-> collector.token]
        /\ collector' = collector
    BY <1>8 DEF Save
  <2>2. \A i \in 1 .. Len(endpoints) :
          /\ saved[i] \in Endpoints
          /\ collector.token # NoToken /\ saved[i].dash0 => saved[i].headers = collector.token
    BY <1>1, HeadersFacts
  <2>3. saved \in [1 .. Len(endpoints) -> Endpoints]
    BY <1>1, <2>2
  <2>4. saved \in Seq(Endpoints) /\ DOMAIN saved = 1 .. Len(endpoints)
    BY <1>1, <2>3
  <2> HIDE DEF saved
  <2>5. storage' \in Forms
    BY <2>1, <2>4 DEF Forms
  <2>6. CredentialsReach'
    BY <2>1, <2>2, <2>4 DEF CredentialsReach, ToSet
  <2> QED  BY <2>1, <2>5, <2>6 DEF StorageInv
<1> QED  BY <1>3, <1>4, <1>5, <1>6, <1>7, <1>8 DEF CollectorNext

-----------------------------------------------------------------------------
\* The configurations.

Chains == {None, "deploy", "activate"}

ConfigCalls ==
  {call \in [what : {"active", "saved", "deploy", "activate"}, group : DeviceGroups,
             overtaken : BOOLEAN, chain : Chains, from : DeviceGroups,
             content : Contents \cup {None}, served : BOOLEAN, answer : SUBSET Contents] :
     call.what \notin Reads => call.content \in Contents}

Writes == {call \in ConfigCalls : call.what \notin Reads}

Listings == [group : DeviceGroups, contents : SUBSET Contents] \cup {NoConfig}

ConfigPages ==
  [group : DeviceGroups, active : Listings, saved : Listings,
   loading : BOOLEAN, calls : Seq(ConfigCalls), fresh : SUBSET Reads]

ServerInv ==
  /\ deployed \in [DeviceGroups -> SUBSET Contents]
  /\ made \in [DeviceGroups -> SUBSET Contents]
  /\ late \subseteq Writes

\* What the gateway answers now.
Current(what, g) == IF what = "active" THEN deployed[g] ELSE made[g] \ deployed[g]

\* An answer that is under way and was not overtaken is still true.
AnswersCurrent(calls) ==
  \A j \in DOMAIN calls :
    calls[j].what \in Reads /\ calls[j].served /\ ~calls[j].overtaken =>
      calls[j].answer = Current(calls[j].what, calls[j].group)

NoneDeploys(calls) == \A j \in DOMAIN calls : calls[j].chain # "deploy"

OneDeploys(calls) ==
  \E i \in DOMAIN calls :
    calls[i].chain = "deploy" /\ \A j \in DOMAIN calls : calls[j].chain = "deploy" => j = i

\* The page is loading as long as a deployment is followed, and no longer.
DeploymentFollowed(view) ==
  IF view.loading THEN OneDeploys(view.calls) ELSE NoneDeploys(view.calls)

\* What is marked as fresh is what the gateway has now for the selected group.
FreshIsCurrent(view) ==
  /\ "active" \in view.fresh =>
       view.active = IF deployed[view.group] = {} THEN NoConfig
                     ELSE Listed(view.group, deployed[view.group])
  /\ "saved" \in view.fresh =>
       view.saved = Listed(view.group, made[view.group] \ deployed[view.group])

ConfigInv(view) ==
  /\ view \in ConfigPages
  /\ AnswersCurrent(view.calls)
  /\ DeploymentFollowed(view)
  /\ FreshIsCurrent(view)

\* One call more, which is yet to be served.
LEMMA AppendFacts ==
  ASSUME NEW calls \in Seq(ConfigCalls), NEW call \in ConfigCalls, call.served = FALSE
  PROVE  /\ Append(calls, call) \in Seq(ConfigCalls)
         /\ AnswersCurrent(calls) => AnswersCurrent(Append(calls, call))
         /\ call.chain # "deploy" /\ NoneDeploys(calls) => NoneDeploys(Append(calls, call))
         /\ call.chain # "deploy" /\ OneDeploys(calls) => OneDeploys(Append(calls, call))
         /\ call.chain = "deploy" /\ NoneDeploys(calls) => OneDeploys(Append(calls, call))
<1> DEFINE n == Len(calls)
           more == Append(calls, call)
<1>1. n \in Nat /\ DOMAIN calls = 1 .. n
  BY LenProperties
<1>2. /\ more \in Seq(ConfigCalls) /\ Len(more) = n + 1 /\ DOMAIN more = 1 .. n + 1
      /\ more[n + 1] = call /\ \A j \in 1 .. n : more[j] = calls[j]
  <2>1. /\ more \in Seq(ConfigCalls) /\ Len(more) = n + 1
        /\ more[n + 1] = call /\ \A j \in 1 .. n : more[j] = calls[j]
    BY AppendProperties
  <2> QED  BY <2>1, LenProperties
<1>3. \A j \in 1 .. n + 1 : j \in 1 .. n \/ j = n + 1
  BY <1>1
<1>4. n + 1 \in 1 .. n + 1 /\ n + 1 \notin 1 .. n /\ \A j \in 1 .. n : j \in 1 .. n + 1
  BY <1>1
<1> HIDE DEF n, more
<1>5. AnswersCurrent(calls) => AnswersCurrent(more)
  BY <1>1, <1>2, <1>3 DEF AnswersCurrent
<1>6. call.chain # "deploy" /\ NoneDeploys(calls) => NoneDeploys(more)
  BY <1>1, <1>2, <1>3 DEF NoneDeploys
<1>7. ASSUME call.chain # "deploy", OneDeploys(calls) PROVE OneDeploys(more)
  <2>1. PICK i \in 1 .. n :
          calls[i].chain = "deploy" /\ \A j \in 1 .. n : calls[j].chain = "deploy" => j = i
    BY <1>1, <1>7 DEF OneDeploys
  <2>2. more[i].chain = "deploy" /\ \A j \in 1 .. n + 1 : more[j].chain = "deploy" => j = i
    BY <1>2, <1>3, <1>4, <1>7, <2>1
  <2> QED  BY <1>2, <1>4, <2>2 DEF OneDeploys
<1>8. ASSUME call.chain = "deploy", NoneDeploys(calls) PROVE OneDeploys(more)
  <2>1. \A j \in 1 .. n + 1 : more[j].chain = "deploy" => j = n + 1
    BY <1>1, <1>2, <1>3, <1>4, <1>8 DEF NoneDeploys
  <2> QED  BY <1>2, <1>4, <1>8, <2>1 DEF OneDeploys
<1> QED  BY <1>2, <1>5, <1>6, <1>7, <1>8 DEF more

\* One call less, which was answered.  A deployment is followed by one of the
\* others, or by none if it was followed by this one.
LEMMA LessFacts ==
  ASSUME NEW calls \in Seq(ConfigCalls), NEW i \in 1 .. Len(calls)
  PROVE  /\ Answered(calls, i) \in Seq(ConfigCalls)
         /\ AnswersCurrent(calls) => AnswersCurrent(Answered(calls, i))
         /\ NoneDeploys(calls) => NoneDeploys(Answered(calls, i))
         /\ calls[i].chain # "deploy" /\ OneDeploys(calls) => OneDeploys(Answered(calls, i))
         /\ calls[i].chain = "deploy" /\ OneDeploys(calls) => NoneDeploys(Answered(calls, i))
<1> DEFINE n == Len(calls)
           left == Answered(calls, i)
<1>1. n \in Nat /\ DOMAIN calls = 1 .. n /\ i \in 1 .. n
  BY LenProperties
<1>2. \A c \in ConfigCalls :
        /\ Overtaken(c) \in ConfigCalls /\ Overtaken(c).overtaken = TRUE
        /\ Overtaken(c).chain = c.chain
  BY DEF ConfigCalls, Overtaken
<1>3. /\ left \in Seq(ConfigCalls) /\ Len(left) = n - 1
      /\ \A k \in 1 .. n - 1 :
           left[k] = IF k < i THEN (IF calls[k].what = calls[i].what THEN Overtaken(calls[k])
                                    ELSE calls[k])
                     ELSE calls[k + 1]
  BY <1>2, AnsweredFacts
<1>4. DOMAIN left = 1 .. n - 1
  BY <1>3, LenProperties
<1> DEFINE was(k) == IF k < i THEN k ELSE k + 1
<1>5. \A k \in 1 .. n - 1 : was(k) \in 1 .. n /\ was(k) # i
  BY <1>1
<1>6. ASSUME NEW j \in 1 .. n, j # i PROVE \E k \in 1 .. n - 1 : was(k) = j
  <2>1. CASE j < i
    <3>1. j \in 1 .. n - 1 /\ was(j) = j
      BY <1>1, <2>1
    <3> QED  BY <3>1
  <2>2. CASE ~(j < i)
    <3>1. j - 1 \in 1 .. n - 1 /\ was(j - 1) = j
      BY <1>1, <1>6, <2>2
    <3> QED  BY <3>1
  <2> QED  BY <2>1, <2>2
<1>7. \A k, m \in 1 .. n - 1 : was(k) = was(m) => k = m
  BY <1>1
<1>8. \A k \in 1 .. n : calls[k] \in ConfigCalls
  BY <1>1, ElementOfSeq
<1>9. \A k \in 1 .. n - 1 :
        /\ left[k] = calls[was(k)] \/ left[k] = Overtaken(calls[was(k)])
        /\ left[k].chain = calls[was(k)].chain
  BY <1>2, <1>3, <1>5, <1>8
<1> HIDE DEF n, left, was
<1>10. AnswersCurrent(calls) => AnswersCurrent(left)
  BY <1>1, <1>2, <1>4, <1>5, <1>8, <1>9 DEF AnswersCurrent
<1>11. NoneDeploys(calls) => NoneDeploys(left)
  BY <1>1, <1>4, <1>5, <1>9 DEF NoneDeploys
<1>12. ASSUME calls[i].chain # "deploy", OneDeploys(calls) PROVE OneDeploys(left)
  <2>1. PICK j \in 1 .. n :
          calls[j].chain = "deploy" /\ \A k \in 1 .. n : calls[k].chain = "deploy" => k = j
    BY <1>1, <1>12 DEF OneDeploys
  <2>2. PICK m \in 1 .. n - 1 : was(m) = j
    BY <1>1, <1>6, <1>12, <2>1
  <2>3. left[m].chain = "deploy" /\ \A k \in 1 .. n - 1 : left[k].chain = "deploy" => k = m
    BY <1>5, <1>7, <1>9, <2>1, <2>2
  <2> QED  BY <1>4, <2>3 DEF OneDeploys
<1>13. ASSUME calls[i].chain = "deploy", OneDeploys(calls) PROVE NoneDeploys(left)
  <2>1. PICK j \in 1 .. n :
          calls[j].chain = "deploy" /\ \A k \in 1 .. n : calls[k].chain = "deploy" => k = j
    BY <1>1, <1>13 DEF OneDeploys
  <2>2. \A k \in 1 .. n - 1 : left[k].chain # "deploy"
    BY <1>1, <1>5, <1>9, <1>13, <2>1
  <2> QED  BY <1>4, <2>2 DEF NoneDeploys
<1> QED  BY <1>3, <1>10, <1>11, <1>12, <1>13 DEF left

\* A fetch is sent.
LEMMA FetchFacts ==
  ASSUME NEW view \in ConfigPages, NEW what \in Reads, NEW g \in DeviceGroups,
         NEW chain \in Chains
  PROVE  LET after == Fetch(view, what, g, chain) IN
         /\ after \in ConfigPages /\ after.group = view.group /\ after.loading = view.loading
         /\ after.fresh = view.fresh \ {what}
         /\ AnswersCurrent(view.calls) => AnswersCurrent(after.calls)
         /\ FreshIsCurrent(view) => FreshIsCurrent(after)
         /\ chain # "deploy" /\ DeploymentFollowed(view) => DeploymentFollowed(after)
         /\ chain = "deploy" /\ view.loading /\ NoneDeploys(view.calls) => DeploymentFollowed(after)
<1> DEFINE call == ConfigCall(what, g, chain, None)
           calls == Append(view.calls, call)
           after == Fetch(view, what, g, chain)
<1>1. call \in ConfigCalls /\ call.chain = chain /\ call.served = FALSE
  BY DEF ConfigCall, ConfigCalls, Reads
<1>2. view.calls \in Seq(ConfigCalls)
  BY DEF ConfigPages
<1>3. after = [view EXCEPT !.calls = calls, !.fresh = @ \ {what}]
  BY DEF Fetch
<1> HIDE DEF call
<1>4. /\ calls \in Seq(ConfigCalls)
      /\ AnswersCurrent(view.calls) => AnswersCurrent(calls)
      /\ chain # "deploy" /\ NoneDeploys(view.calls) => NoneDeploys(calls)
      /\ chain # "deploy" /\ OneDeploys(view.calls) => OneDeploys(calls)
      /\ chain = "deploy" /\ NoneDeploys(view.calls) => OneDeploys(calls)
  BY <1>1, <1>2, AppendFacts
<1> HIDE DEF calls, after
<1>5. /\ after \in ConfigPages /\ after.group = view.group /\ after.loading = view.loading
      /\ after.fresh = view.fresh \ {what} /\ after.calls = calls
      /\ after.active = view.active /\ after.saved = view.saved
  BY <1>3, <1>4 DEF ConfigPages
<1>6. FreshIsCurrent(view) => FreshIsCurrent(after)
  BY <1>5 DEF FreshIsCurrent
<1> QED  BY <1>4, <1>5, <1>6 DEF DeploymentFollowed, after

\* Another group is selected, or the first one.
LEMMA GroupEffectInv ==
  ASSUME NEW view \in ConfigPages, AnswersCurrent(view.calls), DeploymentFollowed(view)
  PROVE  ConfigInv(GroupEffect(view))
<1> DEFINE first == Fetch(view, "active", view.group, None)
           both == Fetch(first, "saved", view.group, None)
<1>1. view.group \in DeviceGroups /\ None \in Chains /\ None # "deploy"
      /\ "active" \in Reads /\ "saved" \in Reads /\ view.fresh \subseteq Reads
  BY DEF ConfigPages, Chains, None, Reads
<1>2. /\ first \in ConfigPages /\ first.fresh = view.fresh \ {"active"}
      /\ AnswersCurrent(first.calls) /\ DeploymentFollowed(first)
  BY <1>1, FetchFacts
<1> HIDE DEF first
<1>3. /\ both \in ConfigPages /\ both.fresh = first.fresh \ {"saved"}
      /\ AnswersCurrent(both.calls) /\ DeploymentFollowed(both)
  BY <1>1, <1>2, FetchFacts
<1> HIDE DEF both
<1>4. both.fresh = {}
  BY <1>1, <1>2, <1>3 DEF Reads
<1>5. FreshIsCurrent(both)
  BY <1>4 DEF FreshIsCurrent
<1> QED  BY <1>3, <1>5 DEF ConfigInv, GroupEffect, first, both

\* The page is opened.
LEMMA ConfigMountedInv == ConfigInv(ConfigMounted)
<1> DEFINE v == [group |-> DefaultGroup, active |-> NoConfig, saved |-> NoConfig,
                 loading |-> FALSE, calls |-> <<>>, fresh |-> {}]
<1>1. <<>> \in Seq(ConfigCalls) /\ DOMAIN <<>> = {} /\ NoConfig \in Listings
  BY EmptySeq DEF Listings
<1>2. v \in ConfigPages /\ v.calls = <<>> /\ v.loading = FALSE
  BY <1>1, DefaultAssumption DEF DefaultAssumption, ConfigPages
<1> HIDE DEF v
<1>3. AnswersCurrent(v.calls) /\ DeploymentFollowed(v)
  BY <1>1, <1>2 DEF AnswersCurrent, DeploymentFollowed, NoneDeploys
<1>4. ConfigMounted = GroupEffect(v)
  BY DEF ConfigMounted, v
<1> QED  BY <1>2, <1>3, <1>4, GroupEffectInv

\* The ith call of the page and what is left without it.
LEMMA AnsweredOne ==
  ASSUME ConfigInv(config), NEW i \in DOMAIN config.calls
  PROVE  LET call == config.calls[i]
             left == Answered(config.calls, i)
         IN  /\ call \in ConfigCalls /\ i \in 1 .. Len(config.calls)
             /\ left \in Seq(ConfigCalls) /\ AnswersCurrent(left)
             /\ IF call.chain = "deploy" THEN config.loading /\ NoneDeploys(left)
                ELSE IF config.loading THEN OneDeploys(left) ELSE NoneDeploys(left)
<1> DEFINE calls == config.calls
           left == Answered(calls, i)
<1>1. config \in ConfigPages /\ AnswersCurrent(calls) /\ DeploymentFollowed(config)
  BY DEF ConfigInv
<1>2. calls \in Seq(ConfigCalls)
  BY <1>1 DEF ConfigPages
<1>3. i \in 1 .. Len(calls) /\ calls[i] \in ConfigCalls
  <2> HIDE DEF calls
  <2>1. i \in 1 .. Len(calls)
    BY <1>2, LenProperties DEF calls
  <2> QED  BY <1>2, <2>1, ElementOfSeq
<1>4. /\ left \in Seq(ConfigCalls)
      /\ AnswersCurrent(calls) => AnswersCurrent(left)
      /\ NoneDeploys(calls) => NoneDeploys(left)
      /\ calls[i].chain # "deploy" /\ OneDeploys(calls) => OneDeploys(left)
      /\ calls[i].chain = "deploy" /\ OneDeploys(calls) => NoneDeploys(left)
  BY <1>2, <1>3, LessFacts
<1>5. calls[i].chain = "deploy" => config.loading
  BY <1>1 DEF DeploymentFollowed, NoneDeploys
<1> HIDE DEF left
<1> QED  BY <1>1, <1>3, <1>4, <1>5 DEF DeploymentFollowed, left

\* A page that has taken the answer to its ith call and goes on with another
\* fetch of the same handler.
LEMMA FollowInv ==
  ASSUME ConfigInv(config), NEW i \in DOMAIN config.calls, NEW view \in ConfigPages,
         view.loading = config.loading, view.calls = Answered(config.calls, i),
         FreshIsCurrent(view), NEW what \in Reads, NEW g \in DeviceGroups
  PROVE  ConfigInv(Fetch(view, what, g, config.calls[i].chain))
<1> DEFINE call == config.calls[i]
           after == Fetch(view, what, g, call.chain)
<1>1. /\ call \in ConfigCalls /\ AnswersCurrent(view.calls)
      /\ IF call.chain = "deploy" THEN config.loading /\ NoneDeploys(view.calls)
         ELSE IF config.loading THEN OneDeploys(view.calls) ELSE NoneDeploys(view.calls)
  BY AnsweredOne
<1>2. call.chain \in Chains
  BY <1>1 DEF ConfigCalls
<1> HIDE DEF call
<1>3. /\ after \in ConfigPages
      /\ AnswersCurrent(view.calls) => AnswersCurrent(after.calls)
      /\ FreshIsCurrent(view) => FreshIsCurrent(after)
      /\ call.chain # "deploy" /\ DeploymentFollowed(view) => DeploymentFollowed(after)
      /\ call.chain = "deploy" /\ view.loading /\ NoneDeploys(view.calls) => DeploymentFollowed(after)
  BY <1>2, FetchFacts
<1>4. call.chain # "deploy" => DeploymentFollowed(view)
  BY <1>1 DEF DeploymentFollowed
<1> HIDE DEF after
<1> QED  BY <1>1, <1>3, <1>4 DEF ConfigInv, after, call

\* The same, when the handler may end with the fetch of the active configuration.
LEMMA GoOnInv ==
  ASSUME ConfigInv(config), NEW i \in DOMAIN config.calls, NEW view \in ConfigPages,
         view.loading = config.loading, view.calls = Answered(config.calls, i),
         FreshIsCurrent(view)
  PROVE  ConfigInv(GoOn(view, i))
<1>1. CASE config.calls[i].chain = None
  <2>1. None # "deploy"
    BY DEF None
  <2>2. AnswersCurrent(view.calls) /\ DeploymentFollowed(view)
    BY <1>1, <2>1, AnsweredOne DEF DeploymentFollowed
  <2> QED  BY <1>1, <2>2 DEF GoOn, ConfigInv
<1>2. CASE config.calls[i].chain # None
  <2>1. "saved" \in Reads /\ config.calls[i].group \in DeviceGroups
    BY AnsweredOne DEF Reads, ConfigCalls
  <2> QED  BY <1>2, <2>1, FollowInv DEF GoOn
<1> QED  BY <1>1, <1>2

\* The same, when the handler has nothing left to fetch.
LEMMA DoneInv ==
  ASSUME ConfigInv(config), NEW i \in DOMAIN config.calls, NEW view \in ConfigPages,
         view.loading = config.loading, view.calls = Answered(config.calls, i),
         FreshIsCurrent(view)
  PROVE  ConfigInv(Done(view, config.calls[i]))
<1> DEFINE call == config.calls[i]
<1>1. /\ AnswersCurrent(view.calls)
      /\ IF call.chain = "deploy" THEN config.loading /\ NoneDeploys(view.calls)
         ELSE IF config.loading THEN OneDeploys(view.calls) ELSE NoneDeploys(view.calls)
  BY AnsweredOne
<1>2. CASE call.chain = "deploy"
  <2> DEFINE after == [view EXCEPT !.loading = FALSE]
  <2>1. /\ after \in ConfigPages /\ after.loading = FALSE /\ after.calls = view.calls
        /\ after.group = view.group /\ after.active = view.active /\ after.saved = view.saved
        /\ after.fresh = view.fresh
    BY DEF ConfigPages
  <2> HIDE DEF after
  <2>2. ConfigInv(after)
    BY <1>1, <1>2, <2>1 DEF ConfigInv, DeploymentFollowed, FreshIsCurrent
  <2> QED  BY <1>2, <2>2 DEF Done, after
<1>3. CASE call.chain # "deploy"
  BY <1>1, <1>3 DEF Done, ConfigInv, DeploymentFollowed
<1> QED  BY <1>2, <1>3

\* The answered configuration is shown, if it is the newest it is the selected
\* group's.
LEMMA ShowActiveInv ==
  ASSUME ServerInv, ConfigInv(config), NEW i \in DOMAIN config.calls,
         config.calls[i].served, config.calls[i].what = "active", ShowActive(i)
  PROVE  ConfigInv(config')
<1> DEFINE call == config.calls[i]
           left == Answered(config.calls, i)
           fresh == Freshened(i)
           view == [config EXCEPT !.calls = left, !.fresh = fresh]
           active == IF call.answer = {} THEN NoConfig ELSE Listed(call.group, call.answer)
           told == [view EXCEPT !.active = active]
<1>1. config \in ConfigPages /\ AnswersCurrent(config.calls) /\ FreshIsCurrent(config)
  BY DEF ConfigInv
<1>2. call \in ConfigCalls /\ left \in Seq(ConfigCalls)
  BY AnsweredOne
<1>3. fresh \in SUBSET Reads /\ "active" \in Reads
  BY <1>1 DEF Freshened, ConfigPages, Reads
<1>4. /\ "active" \in fresh => ~call.overtaken /\ call.group = config.group
      /\ "saved" \in fresh => "saved" \in config.fresh
  BY DEF Freshened, Newest, InTurn
<1>5. "active" \in fresh => call.answer = deployed[config.group]
  BY <1>1, <1>3, <1>4 DEF AnswersCurrent, Current
<1>6. config' = GoOn(told, i)
  BY DEF ShowActive
<1>7. active \in Listings
  BY <1>2 DEF ConfigCalls, Listings, Listed
<1>11. active = IF call.answer = {} THEN NoConfig ELSE Listed(call.group, call.answer)
  OBVIOUS
<1> HIDE DEF call, left, fresh, active
<1>8. /\ view \in ConfigPages /\ view.group = config.group /\ view.loading = config.loading
      /\ view.calls = left /\ view.fresh = fresh /\ view.saved = config.saved
  BY <1>1, <1>2, <1>3 DEF ConfigPages
<1> HIDE DEF view
<1>9. /\ told \in ConfigPages /\ told.group = config.group /\ told.loading = config.loading
      /\ told.calls = left /\ told.fresh = fresh /\ told.saved = config.saved
      /\ told.active = active
  BY <1>7, <1>8 DEF ConfigPages
<1> HIDE DEF told
<1>10. FreshIsCurrent(told)
  BY <1>1, <1>4, <1>5, <1>9, <1>11 DEF FreshIsCurrent
<1> QED  BY <1>6, <1>9, <1>10, GoOnInv DEF left

\* The answered list is shown.
LEMMA ShowSavedInv ==
  ASSUME ServerInv, ConfigInv(config), NEW i \in DOMAIN config.calls,
         config.calls[i].served, config.calls[i].what = "saved", ShowSaved(i)
  PROVE  ConfigInv(config')
<1> DEFINE call == config.calls[i]
           left == Answered(config.calls, i)
           fresh == Freshened(i)
           view == [config EXCEPT !.calls = left, !.fresh = fresh,
                                  !.saved = Listed(call.group, call.answer)]
<1>1. config \in ConfigPages /\ AnswersCurrent(config.calls) /\ FreshIsCurrent(config)
  BY DEF ConfigInv
<1>2. call \in ConfigCalls /\ left \in Seq(ConfigCalls)
  BY AnsweredOne
<1>3. fresh \in SUBSET Reads /\ "saved" \in Reads
  BY <1>1 DEF Freshened, ConfigPages, Reads
<1>4. /\ "saved" \in fresh => ~call.overtaken /\ call.group = config.group
      /\ "active" \in fresh => "active" \in config.fresh
  BY DEF Freshened, Newest, InTurn
<1>5. "saved" \in fresh => call.answer = made[config.group] \ deployed[config.group]
  BY <1>1, <1>3, <1>4 DEF AnswersCurrent, Current
<1>6. config' = Done(view, call)
  BY DEF ShowSaved
<1>7. Listed(call.group, call.answer) \in Listings
  BY <1>2 DEF ConfigCalls, Listings, Listed
<1> HIDE DEF call, left, fresh
<1>8. /\ view \in ConfigPages /\ view.group = config.group /\ view.loading = config.loading
      /\ view.calls = left /\ view.fresh = fresh /\ view.active = config.active
      /\ view.saved = Listed(call.group, call.answer)
  BY <1>1, <1>2, <1>3, <1>7 DEF ConfigPages
<1> HIDE DEF view
<1>9. FreshIsCurrent(view)
  BY <1>1, <1>4, <1>5, <1>8 DEF FreshIsCurrent
<1> QED  BY <1>6, <1>8, <1>9, DoneInv DEF left, call

\* A deployment or activation has succeeded.
LEMMA RefreshInv ==
  ASSUME ConfigInv(config), NEW i \in DOMAIN config.calls, Refresh(i)
  PROVE  ConfigInv(config')
<1> DEFINE call == config.calls[i]
           left == Answered(config.calls, i)
           view == [config EXCEPT !.calls = left]
<1>1. config \in ConfigPages /\ FreshIsCurrent(config)
  BY DEF ConfigInv
<1>2. call \in ConfigCalls /\ left \in Seq(ConfigCalls)
  BY AnsweredOne
<1>3. call.from \in DeviceGroups /\ "active" \in Reads
  BY <1>2 DEF ConfigCalls, Reads
<1>4. config' = Fetch(view, "active", call.from, call.chain)
  BY DEF Refresh
<1> HIDE DEF left
<1>5. /\ view \in ConfigPages /\ view.group = config.group /\ view.loading = config.loading
      /\ view.calls = left /\ view.fresh = config.fresh /\ view.active = config.active
      /\ view.saved = config.saved
  BY <1>1, <1>2 DEF ConfigPages
<1> HIDE DEF view
<1>6. FreshIsCurrent(view)
  BY <1>1, <1>5 DEF FreshIsCurrent
<1> QED  BY <1>3, <1>4, <1>5, <1>6, FollowInv DEF left

\* A call has failed.
LEMMA CallFailsInv ==
  ASSUME ConfigInv(config), NEW i \in DOMAIN config.calls, CallFails(i)
  PROVE  ConfigInv(config')
<1> DEFINE call == config.calls[i]
           left == Answered(config.calls, i)
           view == [config EXCEPT !.calls = left, !.fresh = @ \ {call.what}]
<1>1. config \in ConfigPages /\ FreshIsCurrent(config)
  BY DEF ConfigInv
<1>2. left \in Seq(ConfigCalls)
  BY AnsweredOne
<1>3. config' = IF call.what = "active" THEN GoOn([view EXCEPT !.active = NoConfig], i)
                ELSE Done(view, call)
  BY DEF CallFails
<1> HIDE DEF left, call
<1>4. /\ view \in ConfigPages /\ view.group = config.group /\ view.loading = config.loading
      /\ view.calls = left /\ view.fresh = config.fresh \ {call.what}
      /\ view.active = config.active /\ view.saved = config.saved
  BY <1>1, <1>2 DEF ConfigPages
<1> HIDE DEF view
<1>5. FreshIsCurrent(view)
  BY <1>1, <1>4 DEF FreshIsCurrent
<1>6. CASE call.what = "active"
  <2> DEFINE none == [view EXCEPT !.active = NoConfig]
  <2>1. /\ none \in ConfigPages /\ none.group = view.group /\ none.loading = view.loading
        /\ none.calls = view.calls /\ none.fresh = view.fresh /\ none.saved = view.saved
    BY <1>4 DEF ConfigPages, Listings
  <2>2. config' = GoOn(none, i)
    BY <1>3, <1>6
  <2> HIDE DEF none
  <2>3. FreshIsCurrent(none)
    BY <1>4, <1>5, <1>6, <2>1 DEF FreshIsCurrent
  <2> QED  BY <1>4, <2>1, <2>2, <2>3, GoOnInv DEF left
<1>7. CASE call.what # "active"
  BY <1>3, <1>4, <1>5, <1>7, DoneInv DEF left, call
<1> QED  BY <1>6, <1>7

\* The page alone makes a step.
LEMMA PageAlone ==
  ASSUME ServerInv, UNCHANGED serverVars, ConfigInv(config')
  PROVE  ServerInv' /\ ConfigInv(config)'
<1>1. deployed' = deployed /\ made' = made /\ late' = late
  BY DEF serverVars
<1>2. ServerInv'
  BY <1>1 DEF ServerInv
<1>3. AnswersCurrent(config.calls)'
  BY <1>1 DEF ConfigInv, AnswersCurrent, Current
<1>4. FreshIsCurrent(config)'
  BY <1>1 DEF ConfigInv, FreshIsCurrent
<1> QED  BY <1>2, <1>3, <1>4 DEF ConfigInv, DeploymentFollowed

\* Of answers under way none is relied on.
NoAnswers(calls) ==
  \A j \in DOMAIN calls : ~(calls[j].what \in Reads /\ calls[j].served /\ ~calls[j].overtaken)

\* The calls of a page after a deployment or activation took effect.
LEMMA OutdatedFacts ==
  ASSUME NEW calls \in Seq(ConfigCalls)
  PROVE  /\ Outdated(calls) \in Seq(ConfigCalls) /\ DOMAIN Outdated(calls) = DOMAIN calls
         /\ NoAnswers(Outdated(calls))
         /\ \A j \in DOMAIN calls : Outdated(calls)[j].chain = calls[j].chain
<1> DEFINE n == Len(calls)
           after == Outdated(calls)
<1>1. /\ n \in Nat /\ DOMAIN calls = 1 .. n
      /\ \A j \in 1 .. n : calls[j] \in ConfigCalls
  BY LenProperties, ElementOfSeq
<1> HIDE DEF n
<1>2. ASSUME NEW j \in 1 .. n
      PROVE  /\ after[j] \in ConfigCalls /\ after[j].chain = calls[j].chain
             /\ ~(after[j].what \in Reads /\ after[j].served /\ ~after[j].overtaken)
  <2>1. after[j] = IF calls[j].what \in Reads /\ calls[j].served
                   THEN [calls[j] EXCEPT !.overtaken = TRUE] ELSE calls[j]
    BY <1>1 DEF Outdated
  <2>2. calls[j] \in ConfigCalls
    BY <1>1
  <2> HIDE DEF after
  <2>3. CASE calls[j].what \in Reads /\ calls[j].served
    BY <2>1, <2>2, <2>3 DEF ConfigCalls
  <2>4. CASE ~(calls[j].what \in Reads /\ calls[j].served)
    BY <2>1, <2>2, <2>4 DEF ConfigCalls
  <2> QED  BY <2>3, <2>4
<1>3. DOMAIN after = 1 .. n /\ after = [j \in 1 .. n |-> after[j]]
  BY <1>1 DEF Outdated
<1> HIDE DEF after
<1>4. after \in [1 .. n -> ConfigCalls]
  BY <1>2, <1>3
<1>5. after \in Seq(ConfigCalls)
  BY <1>1, <1>4
<1> QED  BY <1>1, <1>2, <1>3, <1>5 DEF after, NoAnswers

\* As long as the chains are the same, so is what is followed.
LEMMA SameChains ==
  ASSUME NEW before, NEW after, DOMAIN after = DOMAIN before,
         \A j \in DOMAIN before : after[j].chain = before[j].chain
  PROVE  /\ NoneDeploys(before) => NoneDeploys(after)
         /\ OneDeploys(before) => OneDeploys(after)
BY DEF NoneDeploys, OneDeploys

\* A deployment or activation takes effect.
LEMMA WrittenInv ==
  ASSUME ServerInv, NEW call \in Writes, Written(call)
  PROVE  /\ deployed' \in [DeviceGroups -> SUBSET Contents]
         /\ made' \in [DeviceGroups -> SUBSET Contents]
<1>1. call.group \in DeviceGroups /\ call.content \in Contents
  BY DEF Writes, ConfigCalls
<1> QED  BY <1>1 DEF ServerInv, Written

\* After it the page relies on nothing it was answered before.
LEMMA PageOutdated ==
  ASSUME ConfigInv(config), NEW calls \in Seq(ConfigCalls), DOMAIN calls = DOMAIN config.calls,
         \A j \in DOMAIN calls : calls[j].chain = config.calls[j].chain,
         config' = [config EXCEPT !.calls = Outdated(calls), !.fresh = {}]
  PROVE  ConfigInv(config)'
<1> DEFINE after == Outdated(calls)
<1>1. config \in ConfigPages /\ DeploymentFollowed(config)
  BY DEF ConfigInv
<1>2. /\ after \in Seq(ConfigCalls) /\ DOMAIN after = DOMAIN config.calls /\ NoAnswers(after)
      /\ \A j \in DOMAIN config.calls : after[j].chain = config.calls[j].chain
  BY OutdatedFacts
<1> HIDE DEF after
<1>3. config' = [config EXCEPT !.calls = after, !.fresh = {}]
  BY DEF after
<1>4. config' \in ConfigPages /\ config'.calls = after /\ config'.loading = config.loading
      /\ config'.fresh = {}
  BY <1>1, <1>2, <1>3 DEF ConfigPages
<1>5. AnswersCurrent(config.calls)'
  BY <1>2, <1>4 DEF AnswersCurrent, NoAnswers
<1>6. DeploymentFollowed(config)'
  BY <1>1, <1>2, <1>4, SameChains DEF DeploymentFollowed
<1>7. FreshIsCurrent(config)'
  BY <1>4 DEF FreshIsCurrent
<1> QED  BY <1>4, <1>5, <1>6, <1>7 DEF ConfigInv

\* The gateway answers a fetch.
LEMMA ServeReadInv ==
  ASSUME ServerInv, ConfigInv(config), NEW i \in DOMAIN config.calls, ServeRead(i)
  PROVE  ConfigInv(config')
<1> DEFINE call == config.calls[i]
           answer == Current(call.what, call.group)
           served == [call EXCEPT !.served = TRUE, !.answer = answer]
           calls == [config.calls EXCEPT ![i] = served]
<1>1. config \in ConfigPages /\ config.calls \in Seq(ConfigCalls) /\ FreshIsCurrent(config)
  BY DEF ConfigInv, ConfigPages
<1>2. call \in ConfigCalls /\ i \in 1 .. Len(config.calls) /\ call.what \in Reads
  BY AnsweredOne DEF ServeRead
<1>3. answer \in SUBSET Contents
  BY <1>2 DEF ServerInv, Current, ConfigCalls
<1>4. config' = [config EXCEPT !.calls = calls]
  BY <1>1, <1>2 DEF ServeRead, ConfigPages, ConfigCalls, Current
<1> HIDE DEF answer
<1>5. /\ served \in ConfigCalls /\ served.what = call.what /\ served.group = call.group
      /\ served.chain = call.chain /\ served.answer = answer
  BY <1>2, <1>3 DEF ConfigCalls
<1> HIDE DEF served
<1>6. /\ calls \in Seq(ConfigCalls) /\ DOMAIN calls = DOMAIN config.calls /\ calls[i] = served
      /\ \A j \in DOMAIN calls : j # i => calls[j] = config.calls[j]
  <2>1. /\ calls \in Seq(ConfigCalls) /\ Len(calls) = Len(config.calls)
        /\ \A j \in 1 .. Len(config.calls) : calls[j] = IF j = i THEN served ELSE config.calls[j]
    BY <1>1, <1>2, <1>5, ExceptSeq
  <2> HIDE DEF calls
  <2>2. DOMAIN calls = 1 .. Len(calls) /\ DOMAIN config.calls = 1 .. Len(config.calls)
    BY <1>1, <2>1, LenProperties
  <2> QED  BY <1>2, <2>1, <2>2
<1> HIDE DEF calls
<1>7. AnswersCurrent(calls)
  BY <1>5, <1>6 DEF AnswersCurrent, answer, ConfigInv
<1>8. /\ NoneDeploys(config.calls) => NoneDeploys(calls)
      /\ OneDeploys(config.calls) => OneDeploys(calls)
  <2>1. \A j \in DOMAIN config.calls : calls[j].chain = config.calls[j].chain
    BY <1>5, <1>6
  <2> QED  BY <1>6, <2>1, SameChains
<1>9. /\ config' \in ConfigPages /\ config'.calls = calls /\ config'.loading = config.loading
      /\ config'.group = config.group /\ config'.fresh = config.fresh
      /\ config'.active = config.active /\ config'.saved = config.saved
  BY <1>1, <1>4, <1>6 DEF ConfigPages
<1>10. FreshIsCurrent(config')
  BY <1>1, <1>9 DEF FreshIsCurrent
<1>11. DeploymentFollowed(config')
  BY <1>8, <1>9 DEF ConfigInv, DeploymentFollowed
<1> QED  BY <1>7, <1>9, <1>10, <1>11 DEF ConfigInv

\* The gateway serves a deployment or activation.
LEMMA ServeWriteInv ==
  ASSUME ServerInv, ConfigInv(config), NEW i \in DOMAIN config.calls, ServeWrite(i)
  PROVE  ServerInv' /\ ConfigInv(config)'
<1> DEFINE call == config.calls[i]
           served == [call EXCEPT !.served = TRUE]
           calls == [config.calls EXCEPT ![i] = served]
<1>1. config \in ConfigPages /\ config.calls \in Seq(ConfigCalls)
  BY DEF ConfigInv, ConfigPages
<1>2. call \in ConfigCalls /\ i \in 1 .. Len(config.calls) /\ call.what \notin Reads
  BY AnsweredOne DEF ServeWrite
<1>3. served \in ConfigCalls /\ served.chain = call.chain
  BY <1>2 DEF ConfigCalls
<1>4. /\ config' = [config EXCEPT !.calls = Outdated(calls), !.fresh = {}]
      /\ Written(call) /\ late' = late
  BY <1>1, <1>2 DEF ServeWrite, ConfigPages, ConfigCalls
<1> HIDE DEF served
<1>5. /\ calls \in Seq(ConfigCalls) /\ DOMAIN calls = DOMAIN config.calls
      /\ \A j \in DOMAIN calls : calls[j].chain = config.calls[j].chain
  <2>1. /\ calls \in Seq(ConfigCalls) /\ Len(calls) = Len(config.calls)
        /\ \A j \in 1 .. Len(config.calls) : calls[j] = IF j = i THEN served ELSE config.calls[j]
    BY <1>1, <1>2, <1>3, ExceptSeq
  <2> HIDE DEF calls
  <2>2. DOMAIN calls = 1 .. Len(calls) /\ DOMAIN config.calls = 1 .. Len(config.calls)
    BY <1>1, <2>1, LenProperties
  <2> QED  BY <1>3, <2>1, <2>2
<1> HIDE DEF calls
<1>6. ConfigInv(config)'
  BY <1>4, <1>5, PageOutdated
<1>7. call \in Writes
  BY <1>2 DEF Writes
<1>8. ServerInv'
  <2> HIDE DEF call
  <2> QED  BY <1>4, <1>7, WrittenInv DEF ServerInv
<1> QED  BY <1>6, <1>8

\* The gateway serves a deployment or activation of a page that was left.
LEMMA ServeLateInv ==
  ASSUME ServerInv, ConfigInv(config), NEW call \in late, ServeLate(call)
  PROVE  ServerInv' /\ ConfigInv(config)'
<1>1. config \in ConfigPages /\ config.calls \in Seq(ConfigCalls)
  BY DEF ConfigInv, ConfigPages
<1>2. /\ config' = [config EXCEPT !.calls = Outdated(config.calls), !.fresh = {}]
      /\ Written(call) /\ late' = late \ {call}
  BY <1>1 DEF ServeLate, ConfigPages
<1>3. ConfigInv(config)'
  BY <1>1, <1>2, PageOutdated
<1>4. call \in Writes
  BY DEF ServerInv
<1>5. ServerInv'
  BY <1>2, <1>4, WrittenInv DEF ServerInv
<1> QED  BY <1>3, <1>5

\* A deployment or activation is sent; the page is loading after a deployment,
\* which it was not before.
LEMMA SendInv ==
  ASSUME ConfigInv(config), NEW call \in ConfigCalls, call.served = FALSE, NEW loading \in BOOLEAN,
         IF call.chain = "deploy" THEN ~config.loading /\ loading ELSE loading = config.loading,
         config' = [config EXCEPT !.loading = loading, !.calls = Append(config.calls, call)]
  PROVE  ConfigInv(config')
<1> DEFINE calls == Append(config.calls, call)
<1>1. config \in ConfigPages /\ FreshIsCurrent(config) /\ config.calls \in Seq(ConfigCalls)
  BY DEF ConfigInv, ConfigPages
<1>2. /\ calls \in Seq(ConfigCalls)
      /\ AnswersCurrent(config.calls) => AnswersCurrent(calls)
      /\ call.chain # "deploy" /\ NoneDeploys(config.calls) => NoneDeploys(calls)
      /\ call.chain # "deploy" /\ OneDeploys(config.calls) => OneDeploys(calls)
      /\ call.chain = "deploy" /\ NoneDeploys(config.calls) => OneDeploys(calls)
  BY <1>1, AppendFacts
<1> HIDE DEF calls
<1>3. config' = [config EXCEPT !.loading = loading, !.calls = calls]
  BY DEF calls
<1>4. /\ config' \in ConfigPages /\ config'.calls = calls /\ config'.loading = loading
      /\ config'.group = config.group /\ config'.fresh = config.fresh
      /\ config'.active = config.active /\ config'.saved = config.saved
  BY <1>1, <1>2, <1>3 DEF ConfigPages
<1>5. FreshIsCurrent(config')
  BY <1>1, <1>4 DEF FreshIsCurrent
<1>6. DeploymentFollowed(config')
  BY <1>2, <1>4 DEF ConfigInv, DeploymentFollowed
<1> QED  BY <1>2, <1>4, <1>5, <1>6 DEF ConfigInv

\* No step of the page or of the gateway leaves the invariant.
LEMMA ConfigStep ==
  ServerInv /\ ConfigInv(config) /\ ConfigNext => ServerInv' /\ ConfigInv(config)'
<1> SUFFICES ASSUME ServerInv, ConfigInv(config), ConfigNext PROVE ServerInv' /\ ConfigInv(config)'
  OBVIOUS
<1>1. /\ config \in ConfigPages /\ AnswersCurrent(config.calls) /\ DeploymentFollowed(config)
      /\ FreshIsCurrent(config)
  BY DEF ConfigInv
<1>2. ASSUME NEW g \in DeviceGroups, ConfigSelect(g) PROVE ServerInv' /\ ConfigInv(config)'
  <2> DEFINE view == [config EXCEPT !.group = g]
  <2>1. view \in ConfigPages /\ view.calls = config.calls /\ view.loading = config.loading
    BY <1>1 DEF ConfigPages
  <2>2. config' = GroupEffect(view) /\ UNCHANGED serverVars
    BY <1>2 DEF ConfigSelect
  <2> HIDE DEF view
  <2>3. ConfigInv(config')
    BY <1>1, <2>1, <2>2, GroupEffectInv DEF DeploymentFollowed
  <2> QED  BY <2>2, <2>3, PageAlone
<1>3. ASSUME NEW c \in Contents, Activate(c) PROVE ServerInv' /\ ConfigInv(config)'
  <2> DEFINE call == [ConfigCall("activate", config.saved.group, "activate", c)
                        EXCEPT !.from = config.group]
  <2>1. config.saved.group \in DeviceGroups /\ config.group \in DeviceGroups
    <3>1. c \in config.saved.contents /\ config.saved \in Listings
      BY <1>1, <1>3 DEF Activate, ConfigPages
    <3>2. config.saved # NoConfig
      BY <3>1 DEF NoConfig, Listed
    <3> QED  BY <1>1, <3>1, <3>2 DEF Listings, ConfigPages
  <2>2. call \in ConfigCalls /\ call.served = FALSE /\ call.chain = "activate"
    BY <2>1 DEF ConfigCall, ConfigCalls, Chains
  <2>3. /\ config' = [config EXCEPT !.loading = config.loading, !.calls = Append(config.calls, call)]
        /\ UNCHANGED serverVars
    BY <1>1, <1>3 DEF Activate, ConfigPages
  <2> HIDE DEF call
  <2>4. config.loading \in BOOLEAN
    BY <1>1 DEF ConfigPages
  <2>5. ConfigInv(config')
    BY <2>2, <2>3, <2>4, SendInv
  <2> QED  BY <2>3, <2>5, PageAlone
<1>4. CASE ConfigReload
  <2>1. config.group \in DeviceGroups /\ None \in Chains /\ None # "deploy" /\ "active" \in Reads
    BY <1>1 DEF ConfigPages, Chains, None, Reads
  <2>2. config' = Fetch(config, "active", config.group, None) /\ UNCHANGED serverVars
    BY <1>4 DEF ConfigReload
  <2>3. ConfigInv(config')
    BY <1>1, <2>1, <2>2, FetchFacts DEF ConfigInv
  <2> QED  BY <2>2, <2>3, PageAlone
<1>5. ASSUME NEW c \in Contents, Deploy(c) PROVE ServerInv' /\ ConfigInv(config)'
  <2> DEFINE call == ConfigCall("deploy", config.group, "deploy", c)
  <2>1. config.group \in DeviceGroups /\ config.loading \in BOOLEAN
    BY <1>1 DEF ConfigPages
  <2>2. call \in ConfigCalls /\ call.served = FALSE /\ call.chain = "deploy"
    BY <2>1 DEF ConfigCall, ConfigCalls, Chains
  <2>3. /\ config' = [config EXCEPT !.loading = TRUE, !.calls = Append(config.calls, call)]
        /\ ~config.loading /\ UNCHANGED serverVars
    BY <1>1, <1>5 DEF Deploy, ConfigPages
  <2> HIDE DEF call
  <2>4. ConfigInv(config')
    BY <2>2, <2>3, SendInv
  <2> QED  BY <2>3, <2>4, PageAlone
<1>6. ASSUME NEW i \in DOMAIN config.calls, ServeRead(i) PROVE ServerInv' /\ ConfigInv(config)'
  BY <1>6, ServeReadInv, PageAlone DEF ServeRead
<1>7. ASSUME NEW i \in DOMAIN config.calls, ServeWrite(i) PROVE ServerInv' /\ ConfigInv(config)'
  BY <1>7, ServeWriteInv
<1>8. ASSUME NEW i \in DOMAIN config.calls, ConfigAnswer(i) PROVE ServerInv' /\ ConfigInv(config)'
  <2>1. ConfigInv(config')
    BY <1>8, ShowActiveInv, ShowSavedInv, RefreshInv, CallFailsInv DEF ConfigAnswer
  <2> QED  BY <1>8, <2>1, PageAlone DEF ConfigAnswer
<1>9. ASSUME NEW call \in late, ServeLate(call) PROVE ServerInv' /\ ConfigInv(config)'
  BY <1>9, ServeLateInv
<1> QED  BY <1>2, <1>3, <1>4, <1>5, <1>6, <1>7, <1>8, <1>9 DEF ConfigNext

-----------------------------------------------------------------------------
\* All pages.

\* The page that is mounted satisfies its invariant, and so do the gateway and the
\* browser's storage, which are there whichever page that is.
IInv ==
  /\ page \in Pages /\ open \in BOOLEAN
  /\ On("fleet") => FleetInv(fleet)
  /\ On("monitor") => MonitorInv(monitor)
  /\ On("config") => ConfigInv(config)
  /\ On("replay") => ReplayInv(replay)
  /\ On("collector") => collector \in Forms
  /\ ServerInv
  /\ StorageInv

\* Nothing is open, configured or saved.
LEMMA InitInv == Init => IInv
<1> SUFFICES ASSUME Init PROVE IInv
  OBVIOUS
<1>1. ServerInv
  <2>1. deployed = [g \in DeviceGroups |-> {}] /\ made = [g \in DeviceGroups |-> {}] /\ late = {}
    BY DEF Init
  <2> QED  BY <2>1 DEF ServerInv
<1>2. StorageInv
  <2>1. storage = [endpoints |-> <<>>, token |-> NoToken] /\ <<>> \in Seq(Endpoints)
    BY EmptySeq DEF Init, NothingSaved
  <2> QED  BY <2>1 DEF StorageInv, Forms, CredentialsReach
<1> QED  BY <1>1, <1>2 DEF Init, IInv, On

\* A page is mounted; the others stay closed.
LEMMA OpenInv == IInv /\ Open => IInv'
<1> SUFFICES ASSUME IInv, Open PROVE IInv'
  OBVIOUS
<1>1. /\ open' = TRUE /\ page' = page /\ UNCHANGED serverVars /\ storage' = storage
      /\ page \in Pages /\ ServerInv /\ StorageInv
  BY DEF Open, IInv
<1>2. page = "fleet" => FleetInv(fleet')
  BY FleetMountedInv DEF Open, Mount
<1>3. page = "monitor" => MonitorInv(monitor')
  BY MonitorMountedInv DEF Open, Mount
<1>4. page = "config" => ConfigInv(config)'
  BY <1>1, ConfigMountedInv, PageAlone DEF Open, Mount
<1>5. page = "replay" => ReplayInv(replay')
  BY ReplayMountedInv DEF Open, Mount
<1>6. page = "collector" => collector' \in Forms
  BY <1>1, CollectorMountedType DEF Open, Mount
<1>7. ServerInv'
  BY <1>1 DEF ServerInv, serverVars
<1>8. StorageInv'
  BY <1>1 DEF StorageInv, CredentialsReach
<1>9. /\ (On("fleet") => FleetInv(fleet))' /\ (On("monitor") => MonitorInv(monitor))'
      /\ (On("config") => ConfigInv(config))' /\ (On("replay") => ReplayInv(replay))'
      /\ (On("collector") => collector \in Forms)'
  <2>1. (On("fleet") => FleetInv(fleet))'
    BY <1>1, <1>2 DEF On, FleetInv
  <2>2. (On("monitor") => MonitorInv(monitor))'
    BY <1>1, <1>3 DEF On, MonitorInv
  <2>3. (On("config") => ConfigInv(config))'
    BY <1>1, <1>4 DEF On
  <2>4. (On("replay") => ReplayInv(replay))'
    BY <1>1, <1>5 DEF On, ReplayInv
  <2>5. (On("collector") => collector \in Forms)'
    BY <1>1, <1>6 DEF On
  <2> QED  BY <2>1, <2>2, <2>3, <2>4, <2>5
<1> QED  BY <1>1, <1>7, <1>8, <1>9 DEF IInv

\* What a page leaves to the gateway are deployments and activations.
LEMMA LeaveInv == IInv /\ Leave => IInv'
<1> SUFFICES ASSUME IInv, Leave PROVE IInv'
  OBVIOUS
<1>1. /\ open = TRUE /\ open' = FALSE /\ late' = late \cup Unserved
      /\ UNCHANGED <<page, deployed, made, storage>>
      /\ page \in Pages /\ ServerInv /\ StorageInv
  BY DEF Leave, IInv
<1>2. Unserved \subseteq Writes
  <2> SUFFICES ASSUME page = "config", NEW i \in DOMAIN config.calls,
                      config.calls[i].what \notin Reads
               PROVE  config.calls[i] \in Writes
    BY DEF Unserved
  <2>1. ConfigInv(config)
    BY <1>1 DEF IInv, On
  <2>2. config.calls[i] \in ConfigCalls
    BY <2>1, AnsweredOne
  <2> QED  BY <2>2 DEF Writes
<1>3. ServerInv'
  BY <1>1, <1>2 DEF ServerInv
<1>4. StorageInv'
  BY <1>1 DEF StorageInv, CredentialsReach
<1> QED  BY <1>1, <1>3, <1>4 DEF IInv, On

\* A page makes a step: the others are not mounted.
LEMMA WithinInv ==
  ASSUME IInv, NEW p \in Pages, Within(p),
         p = "fleet" => FleetInv(fleet)', p = "monitor" => MonitorInv(monitor)',
         p = "config" => ServerInv' /\ ConfigInv(config)', p = "replay" => ReplayInv(replay)',
         p = "collector" => (collector \in Forms)' /\ StorageInv'
  PROVE  IInv'
<1>1. page = p /\ page' = page /\ open' = open /\ open \in BOOLEAN
  BY DEF Within, IInv
<1>2. ServerInv'
  BY DEF Within, IInv, ServerInv, serverVars
<1>3. StorageInv'
  <2>1. CASE p = "collector"
    BY <2>1
  <2>2. CASE p # "collector"
    BY <2>2 DEF Within, IInv, StorageInv, CredentialsReach
  <2> QED  BY <2>1, <2>2
<1>4. /\ (On("fleet") => FleetInv(fleet))' /\ (On("monitor") => MonitorInv(monitor))'
      /\ (On("config") => ConfigInv(config))' /\ (On("replay") => ReplayInv(replay))'
      /\ (On("collector") => collector \in Forms)'
  BY <1>1 DEF On
<1>5. page' \in Pages /\ open' \in BOOLEAN
  BY <1>1
<1> QED  BY <1>2, <1>3, <1>4, <1>5 DEF IInv

\* No step leaves the invariant: one step per action.
LEMMA NextInv == IInv /\ [Next]_vars => IInv'
<1> SUFFICES ASSUME IInv, [Next]_vars PROVE IInv'
  OBVIOUS
<1>0. /\ "fleet" \in Pages /\ "monitor" \in Pages /\ "config" \in Pages
      /\ "replay" \in Pages /\ "collector" \in Pages
  BY DEF Pages
<1>1. CASE Open
  BY <1>1, OpenInv
<1>2. CASE Leave
  BY <1>2, LeaveInv
<1>3. CASE Within("fleet") /\ FleetNext
  <2>1. FleetInv(fleet)'
    BY <1>3, FleetStep DEF Within, On, IInv, FleetInv
  <2> QED  BY <1>0, <1>3, <2>1, WithinInv
<1>4. CASE Within("monitor") /\ MonitorNext
  <2>1. MonitorInv(monitor)'
    BY <1>4, MonitorStep DEF Within, On, IInv, MonitorInv
  <2> QED  BY <1>0, <1>4, <2>1, WithinInv
<1>5. CASE Within("config") /\ ConfigNext
  <2>1. ServerInv' /\ ConfigInv(config)'
    BY <1>5, ConfigStep DEF Within, On, IInv
  <2> QED  BY <1>0, <1>5, <2>1, WithinInv
<1>6. CASE Within("replay") /\ ReplayNext
  <2>1. ReplayInv(replay)'
    BY <1>6, ReplayStep DEF Within, On, IInv, ReplayInv
  <2> QED  BY <1>0, <1>6, <2>1, WithinInv
<1>7. CASE Within("collector") /\ CollectorNext
  <2>1. (collector \in Forms)' /\ StorageInv'
    BY <1>7, CollectorStep DEF Within, On, IInv
  <2> QED  BY <1>0, <1>7, <2>1, WithinInv
<1>8. CASE UNCHANGED vars
  <2>1. /\ fleet' = fleet /\ monitor' = monitor /\ config' = config /\ replay' = replay
        /\ collector' = collector /\ deployed' = deployed /\ made' = made /\ late' = late
        /\ storage' = storage /\ page' = page /\ open' = open
    BY <1>8 DEF vars, pageVars, serverVars
  <2>2. ServerInv' /\ StorageInv'
    BY <2>1 DEF IInv, ServerInv, StorageInv, CredentialsReach
  <2>3. On("config") => ConfigInv(config)'
    BY <2>1, PageAlone DEF IInv, serverVars
  <2>4. /\ On("fleet") => FleetInv(fleet)'
        /\ On("monitor") => MonitorInv(monitor)'
        /\ On("replay") => ReplayInv(replay)'
    BY <2>1 DEF IInv, FleetInv, MonitorInv, ReplayInv
  <2> QED  BY <2>1, <2>2, <2>3, <2>4 DEF IInv, On
<1> QED  BY <1>1, <1>2, <1>3, <1>4, <1>5, <1>6, <1>7, <1>8 DEF Next

\* The invariant holds in every reachable state.
LEMMA Inductive == Spec => []IInv
BY InitInv, NextInv, PTL DEF Spec

-----------------------------------------------------------------------------
\* What a page disables or hides while it waits comes back, however the answers
\* overtake each other: whenever DeviceFleet, DeviceMonitor or ConfigManager is
\* loading or deploying, a call that ends this is under way.
THEOREM WaitingEnds == Spec => []ControlsFollowCalls
<1>1. IInv => ControlsFollowCalls
  <2> SUFFICES ASSUME IInv PROVE ControlsFollowCalls
    OBVIOUS
  <2> DEFINE deploying == {i \in DOMAIN config.calls : config.calls[i].chain = "deploy"}
  <2>1. ASSUME On("config") PROVE Cardinality(deploying) = IF config.loading THEN 1 ELSE 0
    <3>1. DeploymentFollowed(config)
      BY <2>1 DEF IInv, ConfigInv
    <3>2. CASE config.loading
      <4>1. PICK i \in DOMAIN config.calls :
              /\ config.calls[i].chain = "deploy"
              /\ \A j \in DOMAIN config.calls : config.calls[j].chain = "deploy" => j = i
        BY <3>1, <3>2 DEF DeploymentFollowed, OneDeploys
      <4>2. deploying = {i}
        BY <4>1
      <4> HIDE DEF deploying
      <4> QED  BY <3>2, <4>2, FS_Singleton
    <3>3. CASE ~config.loading
      <4>1. deploying = {}
        BY <3>1, <3>3 DEF DeploymentFollowed, NoneDeploys
      <4> HIDE DEF deploying
      <4> QED  BY <3>3, <4>1, FS_EmptySet
    <3> QED  BY <3>2, <3>3
  <2>2. /\ On("fleet") /\ fleet.loading => fleet.calls # <<>>
        /\ On("monitor") /\ monitor.loading => monitor.polls # <<>>
    BY DEF IInv, FleetInv, MonitorInv
  <2> QED  BY <2>1, <2>2 DEF ControlsFollowCalls
<1> QED  BY <1>1, Inductive, PTL

\* DeviceFleet and ConfigManager, once they wait for nothing and provided that their
\* last answer was a success, was not overtaken by the answer to a later question and
\* is of the group selected now, show the devices of this group, the configuration
\* that is active in it and the others it has, as the gateway has them now.  After an
\* overtaken answer they may show another group's, which the theorem does not exclude.
THEOREM SelectionShown == Spec => []SettledOnSelection
<1>1. IInv => SettledOnSelection
  BY DEF IInv, SettledOnSelection, FleetInv, ConfigInv, FreshIsCurrent
<1> QED  BY <1>1, Inductive, PTL

\* What DeviceMonitor shows changes only when a poll ends, however polls overlap.  A poll
\* that had heartbeats ends with a row for each of them, with all it had found out, and
\* no failed question about a device ends it earlier or as an error.
THEOREM PollsComplete == Spec => PollShowsAll
<1>1. IInv /\ [Next]_vars => [On("monitor") /\ On("monitor")' => RowsFromPolls]_monitor
  <2> SUFFICES ASSUME IInv, Next, On("monitor"), On("monitor")', monitor' # monitor
               PROVE  RowsFromPolls
    BY DEF vars, pageVars
  <2>1. Within("monitor") /\ MonitorNext
    BY DEF Next, Open, Leave, Within, On
  <2> QED  BY <2>1, MonitorStep DEF IInv
<1> QED  BY <1>1, Inductive, PTL DEF Spec, PollShowsAll

\* The collector form never saves a Dash0 endpoint without the credentials it saves
\* beside it, whatever the endpoints carried when they were loaded.
THEOREM CredentialsSaved == Spec => []CredentialsReach
<1>1. IInv => CredentialsReach
  BY DEF IInv, StorageInv
<1> QED  BY <1>1, Inductive, PTL

-----------------------------------------------------------------------------
\* Lists from which something is taken out.

\* The library's theorem on the order of the natural numbers, of which only the
\* operator has to be expanded.
LEMMA LessWellFounded == IsWellFoundedOn({ss \in Nat \X Nat : ss[1] < ss[2]}, Nat)
BY NatLessThanWellFounded, Zenon DEF OpToRel

\* A set of natural numbers has a least one: what holds for 0, and for n if it holds
\* for n - 1, holds for all of them.
LEMMA LeastElement ==
  ASSUME NEW T \in SUBSET Nat, T # {}
  PROVE  \E x \in T : \A y \in T : ~(y < x)
<1> DEFINE R == {ss \in Nat \X Nat : ss[1] < ss[2]}
<1>1. \E x \in T : \A y \in T : ~(<<y, x>> \in R)
  <2> IsWellFoundedOn(R, Nat)
    BY LessWellFounded
  <2> HIDE DEF R
  <2> QED  BY WFMin
<1> QED  BY <1>1

\* Induction up to a bound.
LEMMA UpTo ==
  ASSUME NEW n \in Nat, NEW T, 0 \in T, \A i \in 1 .. n : i - 1 \in T => i \in T
  PROVE  0 .. n \subseteq T
<1> DEFINE F == {i \in 0 .. n : i \notin T}
<1>1. SUFFICES ASSUME F # {} PROVE FALSE
  OBVIOUS
<1>2. PICK i \in F : \A j \in F : ~(j < i)
  <2> F \in SUBSET Nat
    OBVIOUS
  <2> HIDE DEF F
  <2> QED  BY <1>1, LeastElement
<1>3. i \in 1 .. n /\ i - 1 \in 0 .. n /\ i - 1 < i
  BY <1>2
<1>4. i - 1 \in T
  BY <1>2, <1>3
<1> QED  BY <1>2, <1>3, <1>4

\* The first n steps of Filter.
Keeps(h, s, some, n) ==
  h = [i \in 0 .. n |->
         IF i = 0 THEN <<>>
         ELSE IF s[i] \in some THEN Append(h[i - 1], s[i]) ELSE h[i - 1]]

\* The recursion of Filter defines a function.
LEMMA FilterDefined ==
  ASSUME NEW s, NEW some, NEW n \in Nat
  PROVE  \E h : Keeps(h, s, some, n)
<1> DEFINE T == {k \in Nat : ~\E h : Keeps(h, s, some, k)}
<1>1. SUFFICES T = {}
  OBVIOUS
<1>2. SUFFICES ASSUME T # {} PROVE FALSE
  OBVIOUS
<1>3. PICK m \in T : \A y \in T : ~(y < m)
  <2> T \in SUBSET Nat
    OBVIOUS
  <2> HIDE DEF T
  <2> QED  BY <1>2, LeastElement
<1>4. CASE m = 0
  <2> DEFINE h == [i \in 0 .. 0 |-> <<>>]
  <2>1. h = [i \in 0 .. 0 |->
               IF i = 0 THEN <<>>
               ELSE IF s[i] \in some THEN Append(h[i - 1], s[i]) ELSE h[i - 1]]
    <3> \A i \in 0 .. 0 : i = 0
      OBVIOUS
    <3> QED  OBVIOUS
  <2> HIDE DEF h
  <2> QED  BY <1>4, <2>1 DEF Keeps
<1>5. CASE m # 0
  <2>1. m \in Nat /\ m - 1 \in Nat /\ m - 1 < m /\ ~\E h : Keeps(h, s, some, m)
    BY <1>3, <1>5
  <2>2. PICK g : Keeps(g, s, some, m - 1)
    BY <1>3, <2>1
  <2> DEFINE last == IF s[m] \in some THEN Append(g[m - 1], s[m]) ELSE g[m - 1]
             h == [i \in 0 .. m |-> IF i = m THEN last ELSE g[i]]
  <2>3. \A i \in 0 .. m : i = m \/ i \in 0 .. m - 1
    BY <2>1
  <2>4. \A i \in 0 .. m - 1 : i # m /\ i \in 0 .. m /\ h[i] = g[i]
    BY <2>1
  <2>5. ASSUME NEW i \in 0 .. m
        PROVE  h[i] = IF i = 0 THEN <<>>
                      ELSE IF s[i] \in some THEN Append(h[i - 1], s[i]) ELSE h[i - 1]
    <3>1. CASE i = m
      <4>1. h[i] = last /\ i # 0 /\ h[i - 1] = g[i - 1]
        BY <2>1, <2>4, <3>1, <1>5
      <4> HIDE DEF h
      <4> QED  BY <3>1, <4>1
    <3>2. CASE i # m
      <4>1. i \in 0 .. m - 1
        BY <2>3, <3>2
      <4>2. g[i] = IF i = 0 THEN <<>>
                   ELSE IF s[i] \in some THEN Append(g[i - 1], s[i]) ELSE g[i - 1]
        BY <2>2, <4>1 DEF Keeps
      <4>3. i # 0 => i - 1 \in 0 .. m - 1
        BY <2>1, <4>1
      <4> HIDE DEF h
      <4> QED  BY <2>4, <4>1, <4>2, <4>3
    <3> QED  BY <3>1, <3>2
  <2>6. h = [i \in 0 .. m |-> h[i]]
    OBVIOUS
  <2> HIDE DEF h
  <2>7. Keeps(h, s, some, m)
    BY <2>5, <2>6 DEF Keeps
  <2> QED  BY <2>1, <2>7
<1> QED  BY <1>4, <1>5

\* What is left of a list are those of its elements that are to be left, and all
\* of it if that are all of them.
LEMMA FilterFacts ==
  ASSUME NEW S, NEW s \in Seq(S), NEW some
  PROVE  /\ Filter(s, some) \in Seq(S)
         /\ ToSet(Filter(s, some)) = ToSet(s) \cap some
         /\ ToSet(s) \subseteq some => Filter(s, some) = s
<1> DEFINE n == Len(s)
<1>1. n \in Nat /\ DOMAIN s = 1 .. n /\ \A i \in 1 .. n : s[i] \in S
  BY LenProperties, ElementOfSeq
<1>2. PICK h : Keeps(h, s, some, n) /\ Filter(s, some) = h[n]
  <2>1. \E h : Keeps(h, s, some, n)
    BY <1>1, FilterDefined
  <2> DEFINE f == CHOOSE h : Keeps(h, s, some, n)
  <2>2. Keeps(f, s, some, n)
    BY <2>1
  <2>3. Filter(s, some) = f[n]
    BY DEF Filter, Keeps
  <2> QED  BY <2>2, <2>3
<1>3. \A i \in 0 .. n :
        h[i] = IF i = 0 THEN <<>>
               ELSE IF s[i] \in some THEN Append(h[i - 1], s[i]) ELSE h[i - 1]
  BY <1>2 DEF Keeps
<1> DEFINE Good(m) ==
             /\ h[m] \in Seq(S)
             /\ \A x : x \in ToSet(h[m]) <=> x \in some /\ \E j \in 1 .. m : s[j] = x
             /\ (\A j \in 1 .. m : s[j] \in some)
                  => Len(h[m]) = m /\ \A j \in 1 .. m : h[m][j] = s[j]
<1> HIDE DEF n
<1>4. Good(0)
  <2>1. h[0] = <<>>
    BY <1>1, <1>3
  <2>2. <<>> \in Seq(S) /\ ToSet(<<>>) = {} /\ Len(<<>>) = 0 /\ 1 .. 0 = {}
    BY EmptySeq DEF ToSet
  <2> QED  BY <2>1, <2>2
<1>5. ASSUME NEW m \in 1 .. n, Good(m - 1) PROVE Good(m)
  <2> DEFINE a == h[m - 1]
  <2>1. a \in Seq(S) /\ s[m] \in S /\ m \in 0 .. n /\ m # 0 /\ m \in Nat /\ m - 1 \in Nat
    BY <1>1, <1>5
  <2>2. h[m] = IF s[m] \in some THEN Append(a, s[m]) ELSE a
    BY <1>3, <2>1
  <2>3. \A j \in 1 .. m : j = m \/ j \in 1 .. m - 1
    BY <2>1
  <2>4. m \in 1 .. m /\ \A j \in 1 .. m - 1 : j \in 1 .. m
    BY <2>1
  <2>5. /\ \A x : x \in ToSet(a) <=> x \in some /\ \E j \in 1 .. m - 1 : s[j] = x
        /\ (\A j \in 1 .. m - 1 : s[j] \in some)
             => Len(a) = m - 1 /\ \A j \in 1 .. m - 1 : a[j] = s[j]
    BY <1>5
  <2> HIDE DEF a
  <2>6. CASE s[m] \in some
    <3> DEFINE b == Append(a, s[m])
    <3>1. /\ b \in Seq(S) /\ Len(b) = Len(a) + 1 /\ b[Len(a) + 1] = s[m]
          /\ \A j \in 1 .. Len(a) : b[j] = a[j]
      BY <2>1, AppendProperties
    <3>2. Len(a) \in Nat /\ DOMAIN a = 1 .. Len(a) /\ DOMAIN b = 1 .. Len(a) + 1
      BY <2>1, <3>1, LenProperties
    <3> HIDE DEF b
    <3>3. \A x : x \in ToSet(b) <=> x \in ToSet(a) \/ x = s[m]
      <4>1. \A j \in 1 .. Len(a) + 1 : j \in 1 .. Len(a) \/ j = Len(a) + 1
        BY <3>2
      <4>2. Len(a) + 1 \in 1 .. Len(a) + 1 /\ \A j \in 1 .. Len(a) : j \in 1 .. Len(a) + 1
        BY <3>2
      <4> QED  BY <3>1, <3>2, <4>1, <4>2 DEF ToSet
    <3>4. \A x : x \in ToSet(b) <=> x \in some /\ \E j \in 1 .. m : s[j] = x
      BY <2>3, <2>4, <2>5, <2>6, <3>3
    <3>5. ASSUME \A j \in 1 .. m : s[j] \in some
          PROVE  Len(b) = m /\ \A j \in 1 .. m : b[j] = s[j]
      <4>1. Len(a) = m - 1 /\ \A j \in 1 .. m - 1 : a[j] = s[j]
        BY <2>4, <2>5, <3>5
      <4> QED  BY <2>1, <2>3, <3>1, <4>1
    <3> QED  BY <2>2, <2>6, <3>1, <3>4, <3>5 DEF b
  <2>7. CASE s[m] \notin some
    <3>1. h[m] = a
      BY <2>2, <2>7
    <3>2. \A x : x \in ToSet(a) <=> x \in some /\ \E j \in 1 .. m : s[j] = x
      BY <2>3, <2>4, <2>5, <2>7
    <3> QED  BY <2>1, <2>4, <2>7, <3>1, <3>2
  <2> QED  BY <2>6, <2>7
<1> HIDE DEF Good
<1>6. \A m \in 0 .. n : Good(m)
  <2> DEFINE T == {k \in 0 .. n : ~Good(k)}
  <2>1. SUFFICES ASSUME T # {} PROVE FALSE
    OBVIOUS
  <2>2. PICK m \in T : \A y \in T : ~(y < m)
    <3> T \in SUBSET Nat
      BY <1>1
    <3> HIDE DEF T
    <3> QED  BY <2>1, LeastElement
  <2>3. m \in 1 .. n /\ m - 1 \in 0 .. n /\ m - 1 < m /\ ~Good(m)
    BY <1>1, <1>4, <2>2
  <2>4. Good(m - 1)
    BY <2>2, <2>3
  <2> QED  BY <1>5, <2>3, <2>4
<1>7. Good(n)
  BY <1>1, <1>6
<1> DEFINE f == Filter(s, some)
<1>8. /\ f \in Seq(S)
      /\ \A x : x \in ToSet(f) <=> x \in some /\ \E j \in 1 .. n : s[j] = x
      /\ (\A j \in 1 .. n : s[j] \in some) => Len(f) = n /\ \A j \in 1 .. n : f[j] = s[j]
  BY <1>2, <1>7 DEF Good
<1> HIDE DEF f
<1>9. ToSet(f) = ToSet(s) \cap some
  BY <1>1, <1>8 DEF ToSet
<1>10. ASSUME ToSet(s) \subseteq some PROVE f = s
  <2>1. Len(f) = n /\ \A j \in 1 .. n : f[j] = s[j]
    BY <1>1, <1>8, <1>10 DEF ToSet
  <2>2. DOMAIN f = 1 .. n /\ f = [j \in 1 .. n |-> f[j]] /\ s = [j \in 1 .. n |-> s[j]]
    BY <1>1, <1>8, <2>1, LenProperties
  <2> QED  BY <2>1, <2>2
<1> QED  BY <1>8, <1>9, <1>10 DEF f

\* A list of known elements is a list of its elements.
LEMMA SeqOfElements ==
  ASSUME NEW S, NEW s \in Seq(S)
  PROVE  s \in Seq(ToSet(s)) /\ ToSet(s) \subseteq S
<1>1. Len(s) \in Nat /\ DOMAIN s = 1 .. Len(s) /\ \A i \in 1 .. Len(s) : s[i] \in S
  BY LenProperties, ElementOfSeq
<1>2. s \in [1 .. Len(s) -> ToSet(s)]
  BY <1>1 DEF ToSet
<1>3. s \in Seq(ToSet(s))
  BY <1>1, <1>2
<1> QED  BY <1>1, <1>3 DEF ToSet

-----------------------------------------------------------------------------
\* Lists that are filtered, sorted and joined keep what is in them.

\* A list as it is given by its length and its elements.
LEMMA ListFacts ==
  ASSUME NEW S, NEW s \in Seq(S)
  PROVE  /\ Len(s) \in Nat /\ DOMAIN s = 1 .. Len(s)
         /\ \A i \in 1 .. Len(s) : s[i] \in S
         /\ s = [i \in 1 .. Len(s) |-> s[i]]
BY LenProperties, ElementOfSeq

\* q says where the elements of f, which is what is kept of the first m of s, were.
Picked(q, f, s, some, m) ==
  /\ q \in [1 .. Len(f) -> 1 .. m]
  /\ \A k \in 1 .. Len(f) : f[k] = s[q[k]] /\ s[q[k]] \in some
  /\ \A k, l \in 1 .. Len(f) : k < l => q[k] < q[l]
  /\ \A i \in 1 .. m : s[i] \in some => \E k \in 1 .. Len(f) : q[k] = i

\* What is left of a list is in its order.
LEMMA FilterPlaces ==
  ASSUME NEW S, NEW s \in Seq(S), NEW some
  PROVE  \E q : Picked(q, Filter(s, some), s, some, Len(s))
<1> DEFINE n == Len(s)
<1>1. n \in Nat /\ DOMAIN s = 1 .. n /\ \A i \in 1 .. n : s[i] \in S
  BY ListFacts
<1>2. PICK h : Keeps(h, s, some, n) /\ Filter(s, some) = h[n]
  <2>1. \E h : Keeps(h, s, some, n)
    BY <1>1, FilterDefined
  <2> DEFINE f == CHOOSE h : Keeps(h, s, some, n)
  <2>2. Keeps(f, s, some, n)
    BY <2>1
  <2>3. Filter(s, some) = f[n]
    BY DEF Filter, Keeps
  <2> QED  BY <2>2, <2>3
<1>3. \A i \in 0 .. n :
        h[i] = IF i = 0 THEN <<>>
               ELSE IF s[i] \in some THEN Append(h[i - 1], s[i]) ELSE h[i - 1]
  BY <1>2 DEF Keeps
<1> HIDE DEF n
<1> DEFINE T == {m \in 0 .. n : h[m] \in Seq(S) /\ \E q : Picked(q, h[m], s, some, m)}
<1>4. 0 \in T
  <2>1. h[0] = <<>> /\ <<>> \in Seq(S) /\ Len(<<>>) = 0 /\ 0 \in 0 .. n
    BY <1>1, <1>3
  <2>2. Picked(<<>>, <<>>, s, some, 0)
    <3>1. \A k \in 1 .. 0 : FALSE
      OBVIOUS
    <3>2. <<>> \in [1 .. 0 -> 1 .. 0]
      OBVIOUS
    <3> QED  BY <2>1, <3>1, <3>2 DEF Picked
  <2> QED  BY <2>1, <2>2
<1>5. ASSUME NEW m \in 1 .. n, m - 1 \in T PROVE m \in T
  <2> DEFINE a == h[m - 1]
  <2>1. /\ a \in Seq(S) /\ s[m] \in S /\ m \in 0 .. n /\ m # 0 /\ m \in Nat /\ m - 1 \in Nat
        /\ \A i \in 1 .. m - 1 : i \in 1 .. m
        /\ m \in 1 .. m /\ \A i \in 1 .. m : i \in 1 .. m - 1 \/ i = m
    BY <1>1, <1>5
  <2>2. h[m] = IF s[m] \in some THEN Append(a, s[m]) ELSE a
    BY <1>3, <2>1
  <2>3. PICK q : Picked(q, a, s, some, m - 1)
    BY <1>5
  <2> HIDE DEF a
  <2>4. Len(a) \in Nat
    BY <2>1, LenProperties
  <2>5. CASE s[m] \notin some
    <3>1. Picked(q, a, s, some, m)
      BY <2>1, <2>3, <2>5 DEF Picked
    <3> QED  BY <2>1, <2>2, <2>5, <3>1
  <2>6. CASE s[m] \in some
    <3> DEFINE b == Append(a, s[m])
               len == Len(a)
               r == [k \in 1 .. len + 1 |-> IF k = len + 1 THEN m ELSE q[k]]
    <3>1. /\ b \in Seq(S) /\ Len(b) = len + 1 /\ b[len + 1] = s[m]
          /\ \A k \in 1 .. len : b[k] = a[k]
      BY <2>1, AppendProperties
    <3> HIDE DEF b
    <3>2. /\ q \in [1 .. len -> 1 .. m - 1]
          /\ \A k \in 1 .. len : a[k] = s[q[k]] /\ s[q[k]] \in some
          /\ \A k, l \in 1 .. len : k < l => q[k] < q[l]
          /\ \A i \in 1 .. m - 1 : s[i] \in some => \E k \in 1 .. len : q[k] = i
      BY <2>3 DEF Picked
    <3> HIDE DEF len
    <3>3. /\ len \in Nat /\ len + 1 \in 1 .. len + 1
          /\ \A k \in 1 .. len : k \in 1 .. len + 1 /\ k # len + 1
          /\ \A k \in 1 .. len + 1 : k \in 1 .. len \/ k = len + 1
      BY <2>4 DEF len
    <3>4. r[len + 1] = m /\ \A k \in 1 .. len : r[k] = q[k] /\ q[k] \in 1 .. m - 1
      BY <3>2, <3>3
    <3>5. r \in [1 .. len + 1 -> 1 .. m]
      BY <2>1, <3>2, <3>3
    <3> HIDE DEF r
    <3>6. \A k \in 1 .. len + 1 : b[k] = s[r[k]] /\ s[r[k]] \in some
      BY <2>6, <3>1, <3>2, <3>3, <3>4
    <3>7. ASSUME NEW k \in 1 .. len + 1, NEW l \in 1 .. len + 1, k < l PROVE r[k] < r[l]
      <4>1. k \in 1 .. len
        BY <3>3, <3>7
      <4>2. CASE l \in 1 .. len
        BY <3>2, <3>4, <3>7, <4>1, <4>2
      <4>3. CASE l = len + 1
        BY <2>1, <3>4, <4>1, <4>3
      <4> QED  BY <3>3, <4>2, <4>3
    <3>8. \A i \in 1 .. m : s[i] \in some => \E k \in 1 .. len + 1 : r[k] = i
      BY <2>1, <3>2, <3>3, <3>4
    <3>9. Picked(r, b, s, some, m)
      BY <3>1, <3>5, <3>6, <3>7, <3>8 DEF Picked, len
    <3> QED  BY <2>1, <2>2, <2>6, <3>1, <3>9 DEF b
  <2> QED  BY <2>5, <2>6
<1>6. 0 .. n \subseteq T
  <2> HIDE DEF T
  <2> QED  BY <1>1, <1>4, <1>5, UpTo
<1>7. n \in T
  BY <1>1, <1>6
<1> QED  BY <1>2, <1>7 DEF n

\* Where a list has elements of a set, and how many.
At(s, some) == {i \in DOMAIN s : s[i] \in some}

Num(s, some) == Cardinality(At(s, some))

\* The places of a list are finitely many.
LEMMA NumFacts ==
  ASSUME NEW S, NEW s \in Seq(S), NEW some
  PROVE  /\ IsFiniteSet(At(s, some)) /\ Num(s, some) \in Nat
         /\ ToSet(s) \subseteq some => Num(s, some) = Len(s)
         /\ Num(s, some) = 0 <=> ToSet(s) \cap some = {}
<1> DEFINE those == At(s, some)
<1>1. Len(s) \in Nat /\ DOMAIN s = 1 .. Len(s)
  BY ListFacts
<1>2. IsFiniteSet(1 .. Len(s)) /\ Cardinality(1 .. Len(s)) = Len(s)
  BY <1>1, FS_Interval
<1>3. IsFiniteSet(those)
  <2>1. those \in SUBSET (1 .. Len(s))
    BY <1>1 DEF At
  <2> HIDE DEF those
  <2> QED  BY <1>2, <2>1, FS_Subset
<1>4. Cardinality(those) \in Nat /\ (Cardinality(those) = 0 <=> those = {})
  <2> HIDE DEF those
  <2> QED  BY <1>3, FS_CardinalityType, FS_EmptySet
<1>5. ToSet(s) \subseteq some => those = 1 .. Len(s)
  BY <1>1 DEF At, ToSet
<1>6. those = {} <=> ToSet(s) \cap some = {}
  BY DEF At, ToSet
<1> HIDE DEF those
<1>7. Num(s, some) = Cardinality(those)
  BY DEF Num, those
<1> QED  BY <1>2, <1>3, <1>4, <1>5, <1>6, <1>7 DEF those

\* Sets between whose elements there is a correspondence have equally many.
LEMMA SameNumber ==
  ASSUME NEW A, NEW B, IsFiniteSet(A), NEW f \in [A -> B],
         \A x, y \in A : f[x] = f[y] => x = y,
         \A z \in B : \E x \in A : f[x] = z
  PROVE  IsFiniteSet(B) /\ Cardinality(A) = Cardinality(B)
<1>1. f \in Surjection(A, B) /\ f \in Injection(A, B)
  BY DEF Surjection, Injection, IsInjective
<1> QED  BY <1>1, FS_Surjection

\* Filtering keeps each element in the set as often as it is there.
LEMMA NumFilter ==
  ASSUME NEW S, NEW s \in Seq(S), NEW some, NEW X
  PROVE  Num(Filter(s, some), X) = Num(s, some \cap X)
<1> DEFINE f == Filter(s, some)
<1>1. PICK q : Picked(q, f, s, some, Len(s))
  BY FilterPlaces
<1>2. f \in Seq(S)
  BY FilterFacts
<1> HIDE DEF f
<1> DEFINE A == At(f, X)
           B == At(s, some \cap X)
           p == [k \in A |-> q[k]]
<1>3. /\ Len(f) \in Nat /\ DOMAIN f = 1 .. Len(f)
      /\ Len(s) \in Nat /\ DOMAIN s = 1 .. Len(s)
  BY <1>2, ListFacts
<1>4. IsFiniteSet(A)
  BY <1>2, NumFacts
<1>5. p \in [A -> B]
  BY <1>1, <1>3 DEF Picked, At
<1>6. \A x, y \in A : p[x] = p[y] => x = y
  <2>1. \A x, y \in 1 .. Len(f) : x < y \/ y < x \/ x = y
    BY <1>3
  <2>2. \A x, y \in 1 .. Len(f) : q[x] = q[y] => x = y
    BY <1>1, <1>3, <2>1 DEF Picked
  <2> QED  BY <1>3, <2>2 DEF At
<1>7. \A z \in B : \E x \in A : p[x] = z
  <2> SUFFICES ASSUME NEW z \in B PROVE \E x \in A : p[x] = z
    OBVIOUS
  <2>1. PICK k \in 1 .. Len(f) : q[k] = z
    BY <1>1, <1>3 DEF Picked, At
  <2>2. k \in A
    BY <1>1, <1>3, <2>1 DEF Picked, At
  <2> QED  BY <2>1, <2>2
<1> HIDE DEF A, B, p
<1>8. Cardinality(A) = Cardinality(B)
  BY <1>4, <1>5, <1>6, <1>7, SameNumber
<1> QED  BY <1>8 DEF A, B, Num, f

\* Disjoint sets.
LEMMA NumSplit ==
  ASSUME NEW S, NEW s \in Seq(S), NEW X, NEW Y, X \cap Y = {}
  PROVE  Num(s, X \cup Y) = Num(s, X) + Num(s, Y)
<1> DEFINE A == At(s, X)
           B == At(s, Y)
<1>1. IsFiniteSet(A) /\ IsFiniteSet(B)
  BY NumFacts
<1>2. A \cap B = {} /\ At(s, X \cup Y) = A \cup B
  BY DEF At
<1> HIDE DEF A, B
<1>3. Cardinality(A \cup B) = Cardinality(A) + Cardinality(B)
  <2>1. Cardinality(A \cup B) = Cardinality(A) + Cardinality(B) - Cardinality(A \cap B)
    BY <1>1, FS_Union
  <2>2. Cardinality(A \cap B) = 0
    BY <1>2, FS_EmptySet
  <2>3. Cardinality(A) \in Nat /\ Cardinality(B) \in Nat
    BY <1>1, FS_CardinalityType
  <2> QED  BY <2>1, <2>2, <2>3
<1> QED  BY <1>2, <1>3 DEF A, B, Num

\* t has the elements of s in another order: p says where they were.
Reorders(p, s, t) ==
  /\ Len(t) = Len(s)
  /\ \A k \in 1 .. Len(s) : p[k] \in 1 .. Len(s) /\ t[k] = s[p[k]]
  /\ \A k, l \in 1 .. Len(s) : p[k] = p[l] => k = l
  /\ \A i \in 1 .. Len(s) : \E k \in 1 .. Len(s) : p[k] = i

\* Another order.
LEMMA NumPermuted ==
  ASSUME NEW S, NEW s \in Seq(S), NEW t \in Seq(S), NEW p, Reorders(p, s, t), NEW X
  PROVE  Num(t, X) = Num(s, X)
<1> DEFINE n == Len(s)
<1> DEFINE A == {k \in 1 .. n : s[p[k]] \in X}
           B == {i \in 1 .. n : s[i] \in X}
           f == [k \in A |-> p[k]]
<1>1. /\ n \in Nat /\ DOMAIN s = 1 .. n /\ DOMAIN t = 1 .. n
      /\ \A k \in 1 .. n : p[k] \in 1 .. n /\ t[k] = s[p[k]]
      /\ \A k, l \in 1 .. n : p[k] = p[l] => k = l
      /\ \A i \in 1 .. n : \E k \in 1 .. n : p[k] = i
  BY ListFacts DEF Reorders
<1> HIDE DEF n
<1>2. IsFiniteSet(A)
  <2>1. A \in SUBSET (1 .. n) /\ IsFiniteSet(1 .. n)
    BY <1>1, FS_Interval
  <2> HIDE DEF A
  <2> QED  BY <2>1, FS_Subset
<1>3. f \in [A -> B] /\ (\A x, y \in A : f[x] = f[y] => x = y)
  BY <1>1
<1>4. \A z \in B : \E x \in A : f[x] = z
  BY <1>1
<1>5. Num(t, X) = Cardinality(A) /\ Num(s, X) = Cardinality(B)
  BY <1>1 DEF Num, At
<1> HIDE DEF A, B, f
<1>6. Cardinality(A) = Cardinality(B)
  BY <1>2, <1>3, <1>4, SameNumber
<1> QED  BY <1>5, <1>6

\* One list after the other.
LEMMA NumConcat ==
  ASSUME NEW S, NEW s \in Seq(S), NEW u \in Seq(S), NEW X
  PROVE  Num(s \o u, X) = Num(s, X) + Num(u, X)
<1> DEFINE m == Len(s)
           n == Len(u)
           t == s \o u
<1>1. /\ m \in Nat /\ DOMAIN s = 1 .. m
      /\ n \in Nat /\ DOMAIN u = 1 .. n
  BY ListFacts
<1>2. /\ t \in Seq(S) /\ DOMAIN t = 1 .. m + n
      /\ \A i \in 1 .. m + n : t[i] = IF i <= m THEN s[i] ELSE u[i - m]
  <2>1. /\ t \in Seq(S) /\ Len(t) = m + n
        /\ \A i \in 1 .. m + n : t[i] = IF i <= m THEN s[i] ELSE u[i - m]
    BY ConcatProperties
  <2> HIDE DEF t, m, n
  <2> QED  BY <2>1, LenProperties
<1> HIDE DEF m, n, t
<1> DEFINE A == {i \in 1 .. m : s[i] \in X}
           B == {i \in 1 .. n : u[i] \in X}
           C == {i \in m + 1 .. m + n : u[i - m] \in X}
           f == [i \in B |-> i + m]
<1>3. IsFiniteSet(A) /\ IsFiniteSet(B)
  <2>1. IsFiniteSet(At(s, X)) /\ IsFiniteSet(At(u, X))
    BY NumFacts
  <2>2. A = At(s, X) /\ B = At(u, X)
    BY <1>1 DEF At
  <2> QED  BY <2>1, <2>2
<1>4. \A i \in 1 .. n : i + m \in m + 1 .. m + n /\ (i + m) - m = i
  BY <1>1
<1>5. \A i \in m + 1 .. m + n : i - m \in 1 .. n /\ (i - m) + m = i
  BY <1>1
<1>6. f \in [B -> C] /\ (\A x, y \in B : f[x] = f[y] => x = y)
  <2>1. f \in [B -> C]
    BY <1>4
  <2>2. \A x, y \in 1 .. n : x + m = y + m => x = y
    BY <1>1
  <2> QED  BY <2>1, <2>2
<1>7. \A z \in C : \E x \in B : f[x] = z
  <2> SUFFICES ASSUME NEW z \in C PROVE \E x \in B : f[x] = z
    OBVIOUS
  <2>1. z - m \in B /\ (z - m) + m = z
    BY <1>5
  <2> QED  BY <2>1
<1>8. At(t, X) = A \cup C /\ A \cap C = {}
  <2>1. \A i \in 1 .. m + n : i \in 1 .. m \/ i \in m + 1 .. m + n
    BY <1>1
  <2>2. \A i \in 1 .. m : i \in 1 .. m + n /\ i <= m /\ i \notin m + 1 .. m + n
    BY <1>1
  <2>3. \A i \in m + 1 .. m + n : i \in 1 .. m + n /\ ~(i <= m)
    BY <1>1
  <2> QED  BY <1>2, <2>1, <2>2, <2>3 DEF At
<1> HIDE DEF A, B, C, f
<1>9. IsFiniteSet(C) /\ Cardinality(B) = Cardinality(C)
  BY <1>3, <1>6, <1>7, SameNumber
<1>10. Cardinality(A \cup C) = Cardinality(A) + Cardinality(C)
  <2>1. Cardinality(A \cup C) = Cardinality(A) + Cardinality(C) - Cardinality(A \cap C)
    BY <1>3, <1>9, FS_Union
  <2>2. Cardinality(A \cap C) = 0
    BY <1>8, FS_EmptySet
  <2>3. Cardinality(A) \in Nat /\ Cardinality(C) \in Nat
    BY <1>3, <1>9, FS_CardinalityType
  <2> QED  BY <2>1, <2>2, <2>3
<1>11. /\ Num(t, X) = Cardinality(A \cup C) /\ Num(s, X) = Cardinality(A)
       /\ Num(u, X) = Cardinality(B)
  BY <1>1, <1>8 DEF Num, At, A, B
<1> QED  BY <1>9, <1>10, <1>11 DEF t

\* The places of a list of length n.
LEMMA IntervalFacts ==
  ASSUME NEW n \in Nat
  PROVE  IsFiniteSet(1 .. n) /\ Cardinality(1 .. n) = n
BY FS_Interval

Numeric(key, s) == \A i \in 1 .. Len(s) : key[i] \in Int

\* Sorting puts each element in one place, in the order of the keys.
LEMMA SortStableFacts ==
  ASSUME NEW S, NEW s \in Seq(S), NEW key, Numeric(key, s)
  PROVE  /\ SortStable(s, key) \in Seq(S) /\ Len(SortStable(s, key)) = Len(s)
         /\ \A X : Num(SortStable(s, key), X) = Num(s, X)
         /\ \E p :
              /\ Reorders(p, s, SortStable(s, key))
              /\ \A k, l \in 1 .. Len(s) : k < l => key[p[k]] <= key[p[l]]
<1> DEFINE n == Len(s)
<1>1. n \in Nat /\ DOMAIN s = 1 .. n
  BY ListFacts
<1>16. \A i \in 1 .. n : s[i] \in S /\ key[i] \in Int
  BY ListFacts DEF Numeric
<1> HIDE DEF n
<1> DEFINE before(i) == {j \in 1 .. n : key[j] < key[i] \/ (key[j] = key[i] /\ j <= i)}
           place == [i \in 1 .. n |-> Cardinality(before(i))]
           less(i, j) == key[i] < key[j] \/ (key[i] = key[j] /\ i < j)
<1>2. \A i \in 1 .. n : i \in before(i) /\ before(i) \in SUBSET (1 .. n)
  BY <1>1
<1>3. IsFiniteSet(1 .. n) /\ Cardinality(1 .. n) = n
  BY <1>1, IntervalFacts
<1>4. ASSUME NEW i \in 1 .. n PROVE IsFiniteSet(before(i)) /\ place[i] \in 1 .. n
  <2> DEFINE those == before(i)
  <2>1. i \in those /\ those \in SUBSET (1 .. n)
    BY <1>2
  <2>2. place[i] = Cardinality(those)
    OBVIOUS
  <2> HIDE DEF those
  <2>3. IsFiniteSet(those) /\ Cardinality(those) <= n
    BY <1>3, <2>1, FS_Subset
  <2>4. Cardinality(those) \in Nat /\ Cardinality(those) # 0
    BY <2>1, <2>3, FS_CardinalityType, FS_EmptySet
  <2>5. Cardinality(those) \in 1 .. n
    BY <1>1, <2>3, <2>4
  <2> QED  BY <2>2, <2>3, <2>5 DEF those
<1>5. ASSUME NEW i \in 1 .. n, NEW j \in 1 .. n, less(i, j) PROVE place[i] < place[j]
  <2> DEFINE a == before(i)
             b == before(j)
  <2>1. a \in SUBSET b /\ j \in b /\ j \notin a
    <3>1. \A x \in 1 .. n : x \in before(i) => x \in before(j)
      <4> SUFFICES ASSUME NEW x \in 1 .. n, x \in before(i) PROVE x \in before(j)
        OBVIOUS
      <4>1. key[x] \in Int /\ key[i] \in Int /\ key[j] \in Int
        BY <1>16
      <4> QED  BY <1>1, <1>5, <4>1
    <3>2. j \notin before(i)
      <4>1. key[i] \in Int /\ key[j] \in Int
        BY <1>16
      <4> QED  BY <1>1, <1>5, <4>1
    <3> QED  BY <1>2, <3>1, <3>2
  <2>2. IsFiniteSet(a) /\ IsFiniteSet(b) /\ place[i] = Cardinality(a) /\ place[j] = Cardinality(b)
    BY <1>4
  <2> HIDE DEF a, b, place, less
  <2>3. Cardinality(a) <= Cardinality(b) /\ Cardinality(a) # Cardinality(b)
    BY <2>1, <2>2, FS_Subset
  <2>4. Cardinality(a) \in Nat /\ Cardinality(b) \in Nat
    BY <2>2, FS_CardinalityType
  <2> QED  BY <2>2, <2>3, <2>4
<1>6. \A i, j \in 1 .. n : i = j \/ less(i, j) \/ less(j, i)
  BY <1>1, <1>16
<1>7. place \in [1 .. n -> 1 .. n]
  <2> SUFFICES \A i \in 1 .. n : place[i] \in 1 .. n
    OBVIOUS
  <2> QED  BY <1>4
<1> HIDE DEF less
<1>8. \A i, j \in 1 .. n : place[i] = place[j] => i = j
  <2> HIDE DEF place
  <2>1. \A i, j \in 1 .. n : less(i, j) => place[i] # place[j]
    <3>1. \A i \in 1 .. n : place[i] \in Int
      BY <1>1, <1>7
    <3> QED  BY <1>5, <3>1
  <2> QED  BY <1>6, <2>1
<1>9. \A k \in 1 .. n : \E i \in 1 .. n : place[i] = k
  <2> HIDE DEF place
  <2>1. place \in Injection(1 .. n, 1 .. n)
    BY <1>7, <1>8 DEF Injection, IsInjective
  <2>2. place \in Surjection(1 .. n, 1 .. n)
    BY <1>3, <2>1, FS_Injection
  <2> QED  BY <2>2 DEF Surjection
<1> DEFINE p == [k \in 1 .. n |-> CHOOSE i \in 1 .. n : Cardinality(before(i)) = k]
<1>10. \A k \in 1 .. n : p[k] \in 1 .. n /\ place[p[k]] = k
  <2>1. \A i \in 1 .. n : place[i] = Cardinality(before(i))
    OBVIOUS
  <2>2. ASSUME NEW k \in 1 .. n PROVE p[k] \in 1 .. n /\ place[p[k]] = k
    <3>1. \E i \in 1 .. n : Cardinality(before(i)) = k
      <4> HIDE DEF place, before
      <4> QED  BY <1>9, <2>1
    <3> DEFINE c == CHOOSE i \in 1 .. n : Cardinality(before(i)) = k
    <3>2. c \in 1 .. n /\ Cardinality(before(c)) = k
      <4> HIDE DEF before
      <4> QED  BY <3>1
    <3>3. p[k] = c
      <4> HIDE DEF before
      <4> QED  OBVIOUS
    <3> HIDE DEF before, place, c, p
    <3> QED  BY <2>1, <3>2, <3>3
  <2> QED  BY <2>2
<1>11. SortStable(s, key) = [k \in 1 .. n |-> s[p[k]]]
  <2>1. SortStable(s, key)
          = [k \in 1 .. n |-> s[CHOOSE i \in 1 .. n : Cardinality(before(i)) = k]]
    BY <1>1 DEF SortStable
  <2> HIDE DEF before
  <2> QED  BY <2>1
<1>12. p \in [1 .. n -> 1 .. n]
  <2> HIDE DEF place
  <2> QED  BY <1>10
<1> HIDE DEF p, place
<1>13. \A k, l \in 1 .. n : p[k] = p[l] => k = l
  BY <1>10
<1>14. \A i \in 1 .. n : \E k \in 1 .. n : p[k] = i
  BY <1>7, <1>8, <1>10
<1>15. ASSUME NEW k \in 1 .. n, NEW l \in 1 .. n, k < l PROVE key[p[k]] <= key[p[l]]
  <2>1. p[k] \in 1 .. n /\ p[l] \in 1 .. n /\ place[p[k]] = k /\ place[p[l]] = l
    BY <1>10
  <2>2. p[k] # p[l] /\ ~less(p[l], p[k])
    BY <1>1, <1>5, <1>15, <2>1
  <2>3. less(p[k], p[l])
    BY <1>6, <2>1, <2>2
  <2>4. key[p[k]] \in Int /\ key[p[l]] \in Int
    BY <1>16, <2>1
  <2> QED  BY <2>3, <2>4 DEF less
<1> DEFINE t == SortStable(s, key)
<1>17. t = [k \in 1 .. n |-> s[p[k]]] /\ \A k \in 1 .. n : t[k] = s[p[k]]
  BY <1>11
<1> HIDE DEF t
<1>18. t \in Seq(S) /\ Len(t) = n
  <2>1. t \in [1 .. n -> S]
    BY <1>12, <1>16, <1>17
  <2>2. \A m \in Nat : \A g \in [1 .. m -> S] : g \in Seq(S) /\ Len(g) = m
    OBVIOUS
  <2> QED  BY <1>1, <2>1, <2>2
<1>19. Reorders(p, s, t)
  <2>1. \A k \in 1 .. n : p[k] \in 1 .. n /\ t[k] = s[p[k]]
    BY <1>12, <1>17
  <2> QED  BY <1>13, <1>14, <1>18, <2>1 DEF n, Reorders
<1>20. \A X : Num(t, X) = Num(s, X)
  BY <1>18, <1>19, NumPermuted
<1> QED  BY <1>15, <1>18, <1>19, <1>20 DEF n, t

\* The first n steps of FlattenSeq.
Joined(h, seqs, n) ==
  h = [i \in 1 .. n |-> IF i = 1 THEN seqs[i] ELSE h[i - 1] \o seqs[i]]

\* The recursion of FlattenSeq defines a function.
LEMMA JoinDefined ==
  ASSUME NEW seqs, NEW n \in Nat
  PROVE  \E h : Joined(h, seqs, n)
<1> DEFINE T == {k \in Nat : \E h : Joined(h, seqs, k)}
<1>1. 0 \in T
  <2>1. \A i \in 1 .. 0 : FALSE
    OBVIOUS
  <2>2. Joined(<<>>, seqs, 0)
    BY <2>1 DEF Joined
  <2> QED  BY <2>2
<1>2. ASSUME NEW k \in 1 .. n, k - 1 \in T PROVE k \in T
  <2>1. PICK r : Joined(r, seqs, k - 1)
    BY <1>2
  <2> DEFINE last == IF k = 1 THEN seqs[k] ELSE r[k - 1] \o seqs[k]
             h == [i \in 1 .. k |-> IF i = k THEN last ELSE r[i]]
  <2>2. h[k] = last /\ DOMAIN h = 1 .. k /\ h = [i \in 1 .. k |-> h[i]]
    OBVIOUS
  <2>3. \A i \in 1 .. k - 1 : h[i] = r[i]
    OBVIOUS
  <2> HIDE DEF h
  <2>4. ASSUME NEW i \in 1 .. k
        PROVE  h[i] = IF i = 1 THEN seqs[i] ELSE h[i - 1] \o seqs[i]
    <3>1. CASE i = k
      <4>1. i # 1 => i - 1 \in 1 .. k - 1
        BY <3>1
      <4> QED  BY <2>2, <2>3, <3>1, <4>1
    <3>2. CASE i # k
      <4>1. i \in 1 .. k - 1
        BY <3>2
      <4>2. r[i] = IF i = 1 THEN seqs[i] ELSE r[i - 1] \o seqs[i]
        BY <2>1, <4>1 DEF Joined
      <4>3. i # 1 => i - 1 \in 1 .. k - 1
        BY <4>1
      <4> QED  BY <2>3, <4>1, <4>2, <4>3
    <3> QED  BY <3>1, <3>2
  <2>5. Joined(h, seqs, k)
    BY <2>2, <2>4 DEF Joined
  <2> QED  BY <2>5
<1>3. 0 .. n \subseteq T
  <2> HIDE DEF T
  <2> QED  BY <1>1, <1>2, UpTo
<1>4. n \in T
  BY <1>3
<1> QED  BY <1>4

\* FlattenSeq joins one list after the other.
LEMMA FlattenFacts ==
  ASSUME NEW S, NEW seqs \in Seq(Seq(S))
  PROVE  /\ FlattenSeq(seqs) \in Seq(S)
         /\ \E h \in [0 .. Len(seqs) -> Seq(S)] :
              /\ h[0] = <<>>
              /\ \A i \in 1 .. Len(seqs) : h[i] = h[i - 1] \o seqs[i]
              /\ FlattenSeq(seqs) = h[Len(seqs)]
<1> DEFINE n == Len(seqs)
<1>1. n \in Nat /\ DOMAIN seqs = 1 .. n /\ (\A i \in 1 .. n : seqs[i] \in Seq(S))
  BY LenProperties, ElementOfSeq
<1>2. <<>> \in Seq(S) /\ (n = 0 => seqs = <<>>)
  BY EmptySeq
<1>3. PICK r : Joined(r, seqs, n) /\ (n # 0 => FlattenSeq(seqs) = r[n])
  <2>1. \E h : Joined(h, seqs, n)
    BY <1>1, JoinDefined
  <2> DEFINE f == CHOOSE h : Joined(h, seqs, n)
  <2>2. Joined(f, seqs, n)
    BY <2>1
  <2>3. n # 0 => FlattenSeq(seqs) = f[n]
    BY DEF FlattenSeq, Joined
  <2> QED  BY <2>2, <2>3
<1>12. FlattenSeq(seqs) = IF n = 0 THEN seqs ELSE r[n]
  BY <1>2, <1>3 DEF FlattenSeq
<1> HIDE DEF n
<1> DEFINE h == [i \in 0 .. n |-> IF i = 0 THEN <<>> ELSE r[i]]
<1>4. h[0] = <<>> /\ 0 \in 0 .. n /\ \A i \in 1 .. n : h[i] = r[i] /\ i \in 0 .. n
  BY <1>1
<1>5. FlattenSeq(seqs) = h[n]
  <2>1. CASE n = 0
    BY <1>2, <1>4, <1>12, <2>1
  <2>2. CASE n # 0
    <3>1. n \in 1 .. n
      BY <1>1, <2>2
    <3> HIDE DEF h
    <3> QED  BY <1>12, <1>4, <2>2, <3>1
  <2> QED  BY <2>1, <2>2
<1>6. DOMAIN h = 0 .. n /\ h = [i \in 0 .. n |-> h[i]]
  OBVIOUS
<1> HIDE DEF h
<1>7. \A i \in 1 .. n : r[i] = IF i = 1 THEN seqs[i] ELSE r[i - 1] \o seqs[i]
  BY <1>3 DEF Joined
<1>8. \A i \in 1 .. n : h[i] = h[i - 1] \o seqs[i]
  <2> SUFFICES ASSUME NEW i \in 1 .. n PROVE h[i] = h[i - 1] \o seqs[i]
    OBVIOUS
  <2>1. CASE i = 1
    <3>1. seqs[i] \in Seq(S) /\ i - 1 = 0
      BY <1>1, <2>1
    <3>2. <<>> \o seqs[i] = seqs[i]
      BY <3>1, ConcatEmptySeq
    <3> QED  BY <1>4, <1>7, <2>1, <3>1, <3>2
  <2>2. CASE i # 1
    <3>1. i - 1 \in 1 .. n
      BY <1>1, <2>2
    <3> QED  BY <1>4, <1>7, <2>2, <3>1
  <2> QED  BY <2>1, <2>2
<1>9. \A i \in 0 .. n : h[i] \in Seq(S)
  <2> DEFINE T == {i \in 0 .. n : h[i] \in Seq(S)}
  <2>1. 0 \in T
    BY <1>1, <1>2, <1>4
  <2>2. \A i \in 1 .. n : i - 1 \in T => i \in T
    <3> SUFFICES ASSUME NEW i \in 1 .. n, h[i - 1] \in Seq(S) PROVE i \in 0 .. n /\ h[i] \in Seq(S)
      OBVIOUS
    <3>1. h[i - 1] \o seqs[i] \in Seq(S)
      BY <1>1, ConcatProperties
    <3> QED  BY <1>4, <1>8, <3>1
  <2>3. 0 .. n \subseteq T
    <3> HIDE DEF T
    <3> QED  BY <1>1, <2>1, <2>2, UpTo
  <2> QED  BY <2>3
<1>10. h \in [0 .. n -> Seq(S)]
  BY <1>6, <1>9
<1>11. n \in 0 .. n
  BY <1>1
<1> QED  BY <1>4, <1>5, <1>8, <1>9, <1>10, <1>11 DEF n

\* seqs are what the parts keep of s: no two parts have an element in common, and
\* each element of s is in one of them.
Split(seqs, parts, n, s) ==
  /\ seqs = [k \in 1 .. n |-> Filter(s, parts[k])]
  /\ \A k, l \in 1 .. n : k # l => parts[k] \cap parts[l] = {}
  /\ \A x \in ToSet(s) : \E k \in 1 .. n : x \in parts[k]

\* A list that is taken apart by disjoint sets, and joined again, has each element as
\* often as before.
LEMMA JoinParts ==
  ASSUME NEW S, NEW s \in Seq(S), NEW n \in Nat, NEW parts, NEW seqs, Split(seqs, parts, n, s)
  PROVE  /\ seqs \in Seq(Seq(S)) /\ Len(seqs) = n
         /\ FlattenSeq(seqs) \in Seq(S)
         /\ \A X : Num(FlattenSeq(seqs), X) = Num(s, X)
<1>1. \A k \in 1 .. n : Filter(s, parts[k]) \in Seq(S)
  BY FilterFacts
<1>9. /\ \A k, l \in 1 .. n : k # l => parts[k] \cap parts[l] = {}
      /\ \A x \in ToSet(s) : \E k \in 1 .. n : x \in parts[k]
  BY DEF Split
<1>2. seqs \in Seq(Seq(S)) /\ Len(seqs) = n /\ \A k \in 1 .. n : seqs[k] = Filter(s, parts[k])
  <2>1. \A L : \A f \in [1 .. n -> L] : f \in Seq(L) /\ Len(f) = n
    OBVIOUS
  <2>2. seqs = [k \in 1 .. n |-> Filter(s, parts[k])]
    BY DEF Split
  <2> QED  BY <1>1, <2>1, <2>2
<1>3. PICK h \in [0 .. n -> Seq(S)] :
        /\ h[0] = <<>>
        /\ \A i \in 1 .. n : h[i] = h[i - 1] \o seqs[i]
        /\ FlattenSeq(seqs) = h[n]
  <2>1. \E h \in [0 .. Len(seqs) -> Seq(S)] :
          /\ h[0] = <<>>
          /\ \A i \in 1 .. Len(seqs) : h[i] = h[i - 1] \o seqs[i]
          /\ FlattenSeq(seqs) = h[Len(seqs)]
    BY <1>2, FlattenFacts
  <2> QED  BY <1>2, <2>1
<1>4. FlattenSeq(seqs) \in Seq(S)
  BY <1>2, FlattenFacts
<1> DEFINE upto(k) == {x \in S : \E i \in 1 .. k : x \in parts[i]}
           T == {k \in 0 .. n : \A X : Num(h[k], X) = Num(s, upto(k) \cap X)}
<1>5. 0 \in T
  <2>1. <<>> \in Seq(S) /\ ToSet(<<>>) = {} /\ 0 \in 0 .. n
    BY EmptySeq DEF ToSet
  <2>2. \A X : Num(<<>>, X) = 0 /\ Num(s, {}) = 0
    <3>1. \A X : Num(<<>>, X) = 0
      BY <2>1, NumFacts
    <3>2. Num(s, {}) = 0
      BY NumFacts
    <3> QED  BY <3>1, <3>2
  <2>3. \A X : upto(0) \cap X = {}
    OBVIOUS
  <2> HIDE DEF upto
  <2> QED  BY <1>3, <2>1, <2>2, <2>3
<1>6. ASSUME NEW k \in 1 .. n, k - 1 \in T PROVE k \in T
  <2> SUFFICES ASSUME NEW X PROVE k \in 0 .. n /\ Num(h[k], X) = Num(s, upto(k) \cap X)
    OBVIOUS
  <2> DEFINE old == upto(k - 1) \cap X
             new == (parts[k] \cap X) \cap S
  <2>1. k - 1 \in 0 .. n /\ h[k - 1] \in Seq(S) /\ Num(h[k - 1], X) = Num(s, old)
    BY <1>6
  <2>2. Num(seqs[k], X) = Num(s, parts[k] \cap X)
    <3>1. \A Y : Num(Filter(s, Y), X) = Num(s, Y \cap X)
      BY NumFilter
    <3>2. seqs[k] = Filter(s, parts[k])
      BY <1>2
    <3> QED  BY <3>1, <3>2
  <2>3. \A Y : Num(s, Y) = Num(s, Y \cap S)
    <3>1. \A i \in DOMAIN s : s[i] \in S
      BY ListFacts
    <3>2. \A Y : At(s, Y) = At(s, Y \cap S)
      BY <3>1 DEF At
    <3> QED  BY <3>2 DEF Num
  <2>4. Num(h[k], X) = Num(h[k - 1], X) + Num(seqs[k], X)
    <3>1. h[k] = h[k - 1] \o seqs[k] /\ seqs[k] \in Seq(S)
      BY <1>1, <1>2, <1>3
    <3> QED  BY <2>1, <3>1, NumConcat
  <2>5. upto(k) \cap X = old \cup new
    <3>1. \A i \in 1 .. k : i = k \/ i \in 1 .. k - 1
      OBVIOUS
    <3>2. k \in 1 .. k /\ \A i \in 1 .. k - 1 : i \in 1 .. k
      OBVIOUS
    <3> QED  BY <3>1, <3>2
  <2>6. old \cap new = {}
    <3>1. \A i \in 1 .. k - 1 : i \in 1 .. n /\ i # k
      OBVIOUS
    <3>2. \A i \in 1 .. k - 1 : parts[i] \cap parts[k] = {}
      BY <1>9, <3>1
    <3> QED  BY <3>2
  <2> HIDE DEF old, new, upto
  <2>7. Num(s, old \cup new) = Num(s, old) + Num(s, new)
    BY <2>6, NumSplit
  <2>8. Num(s, parts[k] \cap X) = Num(s, new)
    BY <2>3 DEF new
  <2>9. Num(h[k], X) = Num(s, old) + Num(s, new)
    BY <2>1, <2>2, <2>4, <2>8
  <2>10. Num(h[k], X) = Num(s, upto(k) \cap X)
    BY <2>5, <2>7, <2>9
  <2> QED  BY <2>10
<1>7. 0 .. n \subseteq T
  <2> HIDE DEF T
  <2> QED  BY <1>5, <1>6, UpTo
<1>10. n \in T
  <2>1. n \in 0 .. n
    OBVIOUS
  <2> HIDE DEF T
  <2> QED  BY <1>7, <2>1
<1>8. ASSUME NEW X PROVE Num(FlattenSeq(seqs), X) = Num(s, X)
  <2>1. n \in T
    BY <1>10
  <2>2. Num(h[n], X) = Num(s, upto(n) \cap X)
    BY <2>1
  <2>3. At(s, upto(n) \cap X) = At(s, X)
    <3>1. \A i \in DOMAIN s : s[i] \in S /\ s[i] \in ToSet(s)
      BY ListFacts DEF ToSet
    <3> QED  BY <1>9, <3>1 DEF At
  <2> HIDE DEF upto
  <2> QED  BY <1>3, <2>2, <2>3 DEF Num
<1> QED  BY <1>2, <1>4, <1>8

\* A function applied to the elements of a list.
Applied(f, s) == [i \in DOMAIN s |-> f[s[i]]]

Image(f, S) == {f[x] : x \in S}

\* It gives a list of the same length.
LEMMA AppliedFacts ==
  ASSUME NEW S, NEW f, NEW t \in Seq(S)
  PROVE  /\ Applied(f, t) \in Seq(Image(f, S)) /\ Len(Applied(f, t)) = Len(t)
         /\ \A i \in 1 .. Len(t) : Applied(f, t)[i] = f[t[i]]
         /\ Len(t) \in Nat
<1>1. Len(t) \in Nat /\ DOMAIN t = 1 .. Len(t) /\ \A i \in 1 .. Len(t) : t[i] \in S
  BY ListFacts
<1>2. Applied(f, t) = [i \in 1 .. Len(t) |-> f[t[i]]]
  BY <1>1 DEF Applied
<1>3. [i \in 1 .. Len(t) |-> f[t[i]]] \in [1 .. Len(t) -> Image(f, S)]
  BY <1>1 DEF Image
<1>4. \A L : \A n \in Nat : \A g \in [1 .. n -> L] : g \in Seq(L) /\ Len(g) = n
  OBVIOUS
<1> QED  BY <1>1, <1>2, <1>3, <1>4

\* It does not matter whether two lists are joined first.
LEMMA AppliedConcat ==
  ASSUME NEW S, NEW f, NEW s \in Seq(S), NEW u \in Seq(S)
  PROVE  Applied(f, s \o u) = Applied(f, s) \o Applied(f, u)
<1>1. \A t \in Seq(S) :
        /\ Applied(f, t) \in Seq(Image(f, S)) /\ Len(Applied(f, t)) = Len(t)
        /\ \A i \in 1 .. Len(t) : Applied(f, t)[i] = f[t[i]]
        /\ Len(t) \in Nat
  BY AppliedFacts
<1> DEFINE a == Applied(f, s)
           b == Applied(f, u)
           m == Len(s)
           n == Len(u)
<1>2. /\ s \o u \in Seq(S) /\ Len(s \o u) = m + n
      /\ \A i \in 1 .. m + n : (s \o u)[i] = IF i <= m THEN s[i] ELSE u[i - m]
  BY ConcatProperties
<1>3. /\ a \in Seq(Image(f, S)) /\ Len(a) = m /\ (\A i \in 1 .. m : a[i] = f[s[i]])
      /\ b \in Seq(Image(f, S)) /\ Len(b) = n /\ (\A i \in 1 .. n : b[i] = f[u[i]])
      /\ m \in Nat /\ n \in Nat
  BY <1>1
<1> HIDE DEF a, b
<1>4. /\ a \o b \in Seq(Image(f, S)) /\ Len(a \o b) = m + n
      /\ \A i \in 1 .. m + n : (a \o b)[i] = IF i <= m THEN a[i] ELSE b[i - m]
  <2>1. /\ a \o b \in Seq(Image(f, S)) /\ Len(a \o b) = Len(a) + Len(b)
        /\ \A i \in 1 .. Len(a) + Len(b) :
             (a \o b)[i] = IF i <= Len(a) THEN a[i] ELSE b[i - Len(a)]
    BY <1>3, ConcatProperties
  <2>2. Len(a) = m /\ Len(b) = n
    BY <1>3
  <2> HIDE DEF m, n
  <2> QED  BY <2>1, <2>2
<1>5. Applied(f, s \o u) = [i \in 1 .. m + n |-> f[(s \o u)[i]]]
  BY <1>2, ListFacts DEF Applied
<1>6. a \o b = [i \in 1 .. m + n |-> (a \o b)[i]]
  BY <1>4, ListFacts
<1> HIDE DEF m, n
<1>7. \A i \in 1 .. m + n : f[(s \o u)[i]] = (a \o b)[i]
  <2> SUFFICES ASSUME NEW i \in 1 .. m + n PROVE f[(s \o u)[i]] = (a \o b)[i]
    OBVIOUS
  <2>1. CASE i <= m
    <3>1. i \in 1 .. m
      BY <1>3, <2>1
    <3> QED  BY <1>2, <1>3, <1>4, <2>1, <3>1
  <2>2. CASE ~(i <= m)
    <3>1. i - m \in 1 .. n
      BY <1>3, <2>2
    <3> QED  BY <1>2, <1>3, <1>4, <2>2, <3>1
  <2> QED  BY <2>1, <2>2
<1>8. Applied(f, s \o u) = a \o b
  BY <1>5, <1>6, <1>7
<1> QED  BY <1>8 DEF a, b

\* The same for any number of lists.
LEMMA AppliedFlatten ==
  ASSUME NEW S, NEW f, NEW seqs \in Seq(Seq(S))
  PROVE  FlattenSeq([k \in DOMAIN seqs |-> Applied(f, seqs[k])]) = Applied(f, FlattenSeq(seqs))
<1> DEFINE n == Len(seqs)
           mapped == [k \in DOMAIN seqs |-> Applied(f, seqs[k])]
<1>1. n \in Nat /\ DOMAIN seqs = 1 .. n /\ \A k \in 1 .. n : seqs[k] \in Seq(S)
  BY LenProperties, ElementOfSeq
<1>2. /\ mapped \in Seq(Seq(Image(f, S))) /\ Len(mapped) = n
      /\ \A k \in 1 .. n : mapped[k] = Applied(f, seqs[k])
  <2>1. \A k \in 1 .. n : Applied(f, seqs[k]) \in Seq(Image(f, S))
    BY <1>1, AppliedFacts
  <2>2. mapped \in [1 .. n -> Seq(Image(f, S))] /\ \A k \in 1 .. n : mapped[k] = Applied(f, seqs[k])
    BY <1>1, <2>1
  <2>3. \A L : \A m \in Nat : \A g \in [1 .. m -> L] : g \in Seq(L) /\ Len(g) = m
    OBVIOUS
  <2> HIDE DEF mapped
  <2> QED  BY <1>1, <2>2, <2>3
<1> HIDE DEF mapped, n
<1>3. PICK h \in [0 .. n -> Seq(S)] :
        /\ h[0] = <<>>
        /\ \A i \in 1 .. n : h[i] = h[i - 1] \o seqs[i]
        /\ FlattenSeq(seqs) = h[n]
  BY FlattenFacts DEF n
<1>4. PICK g \in [0 .. n -> Seq(Image(f, S))] :
        /\ g[0] = <<>>
        /\ \A i \in 1 .. n : g[i] = g[i - 1] \o mapped[i]
        /\ FlattenSeq(mapped) = g[n]
  <2>1. \E g \in [0 .. Len(mapped) -> Seq(Image(f, S))] :
          /\ g[0] = <<>>
          /\ \A i \in 1 .. Len(mapped) : g[i] = g[i - 1] \o mapped[i]
          /\ FlattenSeq(mapped) = g[Len(mapped)]
    BY <1>2, FlattenFacts
  <2> QED  BY <1>2, <2>1
<1>9. \A a, b \in Seq(S) : Applied(f, a \o b) = Applied(f, a) \o Applied(f, b)
  BY AppliedConcat
<1> DEFINE T == {k \in 0 .. n : g[k] = Applied(f, h[k])}
<1>5. 0 \in T
  <2>1. Applied(f, <<>>) = <<>>
    BY DEF Applied
  <2> QED  BY <1>1, <1>3, <1>4, <2>1
<1>6. ASSUME NEW k \in 1 .. n, k - 1 \in T PROVE k \in T
  <2>1. k \in 0 .. n /\ k - 1 \in 0 .. n /\ g[k - 1] = Applied(f, h[k - 1])
    BY <1>1, <1>6
  <2>2. Applied(f, h[k - 1] \o seqs[k]) = Applied(f, h[k - 1]) \o Applied(f, seqs[k])
    <3>1. h[k - 1] \in Seq(S) /\ seqs[k] \in Seq(S)
      BY <1>1, <1>3, <2>1
    <3> HIDE DEF T
    <3> QED  BY <1>9, <3>1
  <2> QED  BY <1>2, <1>3, <1>4, <2>1, <2>2
<1>7. 0 .. n \subseteq T
  <2> HIDE DEF T
  <2> QED  BY <1>1, <1>5, <1>6, UpTo
<1>8. n \in T
  BY <1>1, <1>7
<1> QED  BY <1>3, <1>4, <1>8 DEF mapped

-----------------------------------------------------------------------------
\* The timeline of the journey replay.

\* Sorting by time puts the same events in the order of their times.
LEMMA ByTimeFacts ==
  ASSUME NEW E, \A e \in E : e.ms \in Int, NEW events \in Seq(E)
  PROVE  /\ ByTime(events) \in Seq(E) /\ Len(ByTime(events)) = Len(events)
         /\ \A X : Num(ByTime(events), X) = Num(events, X)
         /\ \A i, j \in 1 .. Len(events) :
              i < j => ByTime(events)[i].ms <= ByTime(events)[j].ms
<1> DEFINE n == Len(events)
           key == [i \in DOMAIN events |-> events[i].ms]
           t == ByTime(events)
<1>1. n \in Nat /\ DOMAIN events = 1 .. n /\ \A i \in 1 .. n : events[i] \in E
  BY ListFacts
<1>2. \A i \in 1 .. n : key[i] = events[i].ms /\ key[i] \in Int
  BY <1>1
<1>3. t = SortStable(events, key)
  BY DEF ByTime
<1> HIDE DEF key, t
<1>4. /\ t \in Seq(E) /\ Len(t) = n
      /\ \A X : Num(t, X) = Num(events, X)
      /\ \E p : /\ Reorders(p, events, t)
              /\ \A k, l \in 1 .. n : k < l => key[p[k]] <= key[p[l]]
  <2>1. Numeric(key, events)
    BY <1>2 DEF Numeric
  <2> QED  BY <1>3, <2>1, SortStableFacts
<1>5. \A i, j \in 1 .. n : i < j => t[i].ms <= t[j].ms
  <2>1. PICK p : Reorders(p, events, t) /\ \A k, l \in 1 .. n : k < l => key[p[k]] <= key[p[l]]
    BY <1>4
  <2>2. \A k \in 1 .. n : p[k] \in 1 .. n /\ t[k] = events[p[k]]
    BY <2>1 DEF Reorders
  <2>3. \A k \in 1 .. n : key[p[k]] = t[k].ms
    BY <1>2, <2>2
  <2> QED  BY <2>1, <2>3
<1> QED  BY <1>4, <1>5 DEF t

\* The places of the events that are the first of their trace: no two of them have the
\* same trace, and each trace has one.
LEMMA FirstsFacts ==
  ASSUME NEW E, NEW events \in Seq(E)
  PROVE  /\ Firsts(events) \in Seq(1 .. Len(events))
         /\ \A k, l \in 1 .. Len(Firsts(events)) :
              k # l => events[Firsts(events)[k]].trace # events[Firsts(events)[l]].trace
         /\ \A i \in 1 .. Len(events) : \E k \in 1 .. Len(Firsts(events)) :
              events[Firsts(events)[k]].trace = events[i].trace
<1> DEFINE n == Len(events)
           places == [i \in DOMAIN events |-> i]
           first == {i \in DOMAIN events : \A j \in 1 .. i - 1 : events[j].trace # events[i].trace}
           f == Firsts(events)
<1>1. n \in Nat /\ DOMAIN events = 1 .. n
  BY ListFacts
<1>2. places \in Seq(1 .. n) /\ Len(places) = n /\ \A i \in 1 .. n : places[i] = i
  <2>1. places \in [1 .. n -> 1 .. n] /\ \A i \in 1 .. n : places[i] = i
    BY <1>1
  <2>2. \A L : \A m \in Nat : \A g \in [1 .. m -> L] : g \in Seq(L) /\ Len(g) = m
    OBVIOUS
  <2> HIDE DEF places, n
  <2> QED  BY <1>1, <2>1, <2>2
<1>3. \A i \in 1 .. n : i \in first <=> \A j \in 1 .. i - 1 : events[j].trace # events[i].trace
  BY <1>1
<1>4. f = Filter(places, first)
  BY DEF Firsts
<1> HIDE DEF places, first, f, n
<1>5. f \in Seq(1 .. n) /\ Len(f) \in Nat /\ \A k \in 1 .. Len(f) : f[k] \in 1 .. n
  <2>1. f \in Seq(1 .. n)
    BY <1>2, <1>4, FilterFacts
  <2> QED  BY <2>1, ListFacts
<1>6. PICK q : Picked(q, f, places, first, n)
  <2>1. \E q : Picked(q, Filter(places, first), places, first, Len(places))
    BY <1>2, FilterPlaces
  <2> QED  BY <1>2, <1>4, <2>1
<1>7. /\ \A k \in 1 .. Len(f) : q[k] \in 1 .. n /\ f[k] = q[k] /\ f[k] \in first
      /\ \A k, l \in 1 .. Len(f) : k < l => f[k] < f[l]
      /\ \A i \in 1 .. n : i \in first => \E k \in 1 .. Len(f) : f[k] = i
  <2>1. \A k \in 1 .. Len(f) : q[k] \in 1 .. n /\ f[k] = places[q[k]] /\ places[q[k]] \in first
    BY <1>6 DEF Picked
  <2>2. \A k \in 1 .. Len(f) : q[k] \in 1 .. n /\ f[k] = q[k] /\ f[k] \in first
    BY <1>2, <2>1
  <2> QED  BY <1>2, <1>6, <2>2 DEF Picked
<1>8. \A k, l \in 1 .. Len(f) : k < l => events[f[k]].trace # events[f[l]].trace
  <2> SUFFICES ASSUME NEW k \in 1 .. Len(f), NEW l \in 1 .. Len(f), k < l
               PROVE  events[f[k]].trace # events[f[l]].trace
    OBVIOUS
  <2>1. f[k] \in 1 .. n /\ f[l] \in 1 .. n /\ f[k] < f[l] /\ f[l] \in first
    BY <1>5, <1>7
  <2>2. f[k] \in 1 .. f[l] - 1
    BY <1>1, <2>1
  <2> QED  BY <1>3, <2>1, <2>2
<1>9. \A k, l \in 1 .. Len(f) : k # l => events[f[k]].trace # events[f[l]].trace
  <2>1. \A k, l \in 1 .. Len(f) : k # l => k < l \/ l < k
    BY <1>5
  <2> QED  BY <1>8, <2>1
<1>10. ASSUME NEW i \in 1 .. n
       PROVE  \E k \in 1 .. Len(f) : events[f[k]].trace = events[i].trace
  <2> DEFINE T == {j \in 1 .. n : events[j].trace = events[i].trace}
  <2>1. PICK j \in T : \A x \in T : ~(x < j)
    <3>1. i \in T /\ T \in SUBSET Nat
      BY <1>1
    <3> HIDE DEF T
    <3> QED  BY <3>1, LeastElement
  <2>2. \A x \in 1 .. j - 1 : x \in 1 .. n /\ x < j
    BY <1>1, <2>1
  <2>3. j \in first
    BY <1>3, <2>1, <2>2
  <2> QED  BY <1>7, <2>1, <2>3
<1> QED  BY <1>5, <1>9, <1>10 DEF f, n

\* What the timeline of some events is: one group for each of their traces.  traces are
\* the traces of the groups.
GroupsOf(traces, n, events) ==
  /\ \A k, l \in 1 .. n : k # l => traces[k] # traces[l]
  /\ \A k \in 1 .. n : \E i \in 1 .. Len(events) : events[i].trace = traces[k]
  /\ \A i \in 1 .. Len(events) : \E k \in 1 .. n : traces[k] = events[i].trace

\* The events of a trace.
OfTrace(events, trace) == {e \in ToSet(events) : e.trace = trace}

\* A group of a trace that an event has.
LEMMA GroupFacts ==
  ASSUME NEW E, NEW events \in Seq(E), NEW trace
  PROVE  /\ Group(events, trace).trace = trace
         /\ Group(events, trace).events \in Seq(E)
         /\ Group(events, trace).events = Filter(events, OfTrace(events, trace))
         /\ ToSet(Group(events, trace).events) = OfTrace(events, trace)
         /\ (\E i \in 1 .. Len(events) : events[i].trace = trace)
              => Group(events, trace).events[1] \in ToSet(events)
<1> DEFINE those == OfTrace(events, trace)
           g == Filter(events, those)
<1>1. Group(events, trace).trace = trace /\ Group(events, trace).events = g
  BY DEF Group, OfTrace
<1>2. those \subseteq ToSet(events)
  BY DEF OfTrace
<1>3. (\E i \in 1 .. Len(events) : events[i].trace = trace) => those # {}
  BY ListFacts DEF ToSet, OfTrace
<1> HIDE DEF those
<1>4. g \in Seq(E) /\ ToSet(g) = those
  <2>1. g \in Seq(E) /\ ToSet(g) = ToSet(events) \cap those
    BY FilterFacts
  <2> QED  BY <1>2, <2>1
<1> HIDE DEF g
<1>5. those # {} => g[1] \in those
  <2>1. Len(g) \in Nat /\ DOMAIN g = 1 .. Len(g)
    BY <1>4, ListFacts
  <2>2. those # {} => 1 \in 1 .. Len(g)
    <3>1. those # {} => \E i \in 1 .. Len(g) : TRUE
      BY <1>4, <2>1 DEF ToSet
    <3> QED  BY <2>1, <3>1
  <2> QED  BY <1>4, <2>1, <2>2 DEF ToSet
<1> QED  BY <1>1, <1>2, <1>3, <1>4, <1>5 DEF g, those

\* The groups are in the order of their first events.
LEMMA GroupedFacts ==
  ASSUME NEW E, \A e \in E : e.ms \in Int, NEW events \in Seq(E)
  PROVE  \E traces : \E n \in Nat :
           /\ GroupsOf(traces, n, events)
           /\ GroupByTrace(events) = [k \in 1 .. n |-> Group(events, traces[k])]
           /\ \A k, l \in 1 .. n :
                k < l => Group(events, traces[k]).events[1].ms
                           <= Group(events, traces[l]).events[1].ms
<1> DEFINE f == Firsts(events)
           n == Len(f)
           entries == Map(LAMBDA i : Group(events, events[i].trace), f)
           key == [k \in DOMAIN entries |-> entries[k].events[1].ms]
           all == {Group(events, events[i].trace) : i \in 1 .. Len(events)}
           t == SortStable(entries, key)
<1>1. /\ f \in Seq(1 .. Len(events)) /\ n \in Nat /\ DOMAIN f = 1 .. n
      /\ \A k \in 1 .. n : f[k] \in 1 .. Len(events)
  BY FirstsFacts, ListFacts
<1>2. /\ \A k, l \in 1 .. n : k # l => events[f[k]].trace # events[f[l]].trace
      /\ \A i \in 1 .. Len(events) : \E k \in 1 .. n : events[f[k]].trace = events[i].trace
  BY FirstsFacts
<1>3. GroupByTrace(events) = t
  BY DEF GroupByTrace
<1>4. /\ entries = [k \in 1 .. n |-> Group(events, events[f[k]].trace)]
      /\ \A k \in 1 .. n : entries[k] = Group(events, events[f[k]].trace)
  BY <1>1 DEF Map
<1>5. DOMAIN entries = 1 .. n /\ key = [k \in 1 .. n |-> entries[k].events[1].ms]
  BY <1>1 DEF Map
<1> HIDE DEF f, n, entries, key, t
<1>6. entries \in Seq(all) /\ Len(entries) = n
  <2>1. entries \in [1 .. n -> all]
    BY <1>1, <1>4
  <2>2. \A L : \A m \in Nat : \A g \in [1 .. m -> L] : g \in Seq(L) /\ Len(g) = m
    OBVIOUS
  <2> HIDE DEF all
  <2> QED  BY <1>1, <2>1, <2>2
<1> HIDE DEF all
<1>7. \A k \in 1 .. n : key[k] = entries[k].events[1].ms /\ key[k] \in Int
  <2> SUFFICES ASSUME NEW k \in 1 .. n PROVE key[k] = entries[k].events[1].ms /\ key[k] \in Int
    OBVIOUS
  <2>1. key[k] = entries[k].events[1].ms
    BY <1>5
  <2>2. Group(events, events[f[k]].trace).events[1] \in ToSet(events)
    <3>1. \E i \in 1 .. Len(events) : events[i].trace = events[f[k]].trace
      BY <1>1
    <3> QED  BY <3>1, GroupFacts
  <2>3. ToSet(events) \subseteq E
    BY SeqOfElements
  <2> QED  BY <1>4, <2>1, <2>2, <2>3
<1>8. PICK p : Reorders(p, entries, t) /\ \A k, l \in 1 .. n : k < l => key[p[k]] <= key[p[l]]
  <2>1. Numeric(key, entries)
    BY <1>6, <1>7 DEF Numeric
  <2> QED  BY <1>6, <2>1, SortStableFacts DEF t
<1>9. t \in Seq(all) /\ Len(t) = n
  <2>1. Numeric(key, entries)
    BY <1>6, <1>7 DEF Numeric
  <2> QED  BY <1>6, <2>1, SortStableFacts DEF t
<1>10. /\ \A k \in 1 .. n : p[k] \in 1 .. n /\ t[k] = entries[p[k]]
       /\ \A k, l \in 1 .. n : p[k] = p[l] => k = l
       /\ \A i \in 1 .. n : \E k \in 1 .. n : p[k] = i
  BY <1>6, <1>8 DEF Reorders
<1> DEFINE traces == [k \in 1 .. n |-> events[f[p[k]]].trace]
<1>11. \A k \in 1 .. n : traces[k] = events[f[p[k]]].trace /\ f[p[k]] \in 1 .. Len(events)
  BY <1>1, <1>10
<1> HIDE DEF traces
<1>12. GroupsOf(traces, n, events)
  <2>1. \A k, l \in 1 .. n : k # l => traces[k] # traces[l]
    <3> SUFFICES ASSUME NEW k \in 1 .. n, NEW l \in 1 .. n, k # l PROVE traces[k] # traces[l]
      OBVIOUS
    <3>1. p[k] \in 1 .. n /\ p[l] \in 1 .. n /\ p[k] # p[l]
      BY <1>10
    <3>2. events[f[p[k]]].trace # events[f[p[l]]].trace
      BY <1>2, <3>1
    <3> QED  BY <1>11, <3>2
  <2>2. \A k \in 1 .. n : \E i \in 1 .. Len(events) : events[i].trace = traces[k]
    BY <1>11
  <2>3. \A i \in 1 .. Len(events) : \E k \in 1 .. n : traces[k] = events[i].trace
    <3> SUFFICES ASSUME NEW i \in 1 .. Len(events)
                 PROVE  \E k \in 1 .. n : traces[k] = events[i].trace
      OBVIOUS
    <3>1. PICK l \in 1 .. n : events[f[l]].trace = events[i].trace
      BY <1>2
    <3>2. PICK k \in 1 .. n : p[k] = l
      BY <1>10
    <3> QED  BY <1>11, <3>1, <3>2
  <2> QED  BY <2>1, <2>2, <2>3 DEF GroupsOf
<1>13. \A k \in 1 .. n : t[k] = Group(events, traces[k]) /\ t[k] = entries[p[k]]
  <2> SUFFICES ASSUME NEW k \in 1 .. n PROVE t[k] = Group(events, traces[k]) /\ t[k] = entries[p[k]]
    OBVIOUS
  <2>1. p[k] \in 1 .. n /\ t[k] = entries[p[k]]
    BY <1>10
  <2>2. entries[p[k]] = Group(events, events[f[p[k]]].trace)
    BY <1>4, <2>1
  <2> QED  BY <1>11, <2>1, <2>2
<1>14. t = [k \in 1 .. n |-> Group(events, traces[k])]
  <2>1. t = [k \in 1 .. n |-> t[k]]
    BY <1>9, ListFacts
  <2> QED  BY <1>13, <2>1
<1>15. \A k, l \in 1 .. n :
         k < l => Group(events, traces[k]).events[1].ms <= Group(events, traces[l]).events[1].ms
  <2>1. ASSUME NEW k \in 1 .. n PROVE key[p[k]] = Group(events, traces[k]).events[1].ms
    <3>1. p[k] \in 1 .. n
      BY <1>10
    <3>2. key[p[k]] = entries[p[k]].events[1].ms
      BY <1>7, <3>1
    <3> QED  BY <1>13, <3>2
  <2> QED  BY <1>8, <2>1
<1> QED  BY <1>1, <1>3, <1>12, <1>14, <1>15

\* The pictures in the strip of some events.
LEMMA StripFacts ==
  ASSUME NEW E, NEW events \in Seq(E)
  PROVE  ToSet(Strip(events)) = {e.picture : e \in {e \in ToSet(events) : Pictured(e)}}
<1> DEFINE those == {e \in ToSet(events) : Pictured(e)}
           f == Filter(events, those)
<1>1. Strip(events) = [i \in DOMAIN f |-> f[i].picture]
  BY DEF Strip, Map
<1>2. those \subseteq ToSet(events)
  OBVIOUS
<1> HIDE DEF those
<1>3. ToSet(f) = those
  <2>1. ToSet(f) = ToSet(events) \cap those
    BY FilterFacts
  <2> QED  BY <1>2, <2>1
<1> HIDE DEF f
<1>4. ToSet(Strip(events)) = {e.picture : e \in ToSet(f)}
  BY <1>1 DEF ToSet
<1> QED  BY <1>3, <1>4 DEF those

\* Two lists with the same number of each element.
LEMMA SameElements ==
  ASSUME NEW S, NEW s \in Seq(S), NEW t \in Seq(S), \A X : Num(s, X) = Num(t, X)
  PROVE  ToSet(s) = ToSet(t) /\ Len(s) = Len(t)
<1>1. \A x : x \in ToSet(s) <=> Num(s, {x}) # 0
  BY NumFacts
<1>2. \A x : x \in ToSet(t) <=> Num(t, {x}) # 0
  BY NumFacts
<1>3. ToSet(s) \subseteq S /\ ToSet(t) \subseteq S
  BY SeqOfElements
<1>4. Num(s, S) = Len(s) /\ Num(t, S) = Len(t)
  BY <1>3, NumFacts
<1> QED  BY <1>1, <1>2, <1>4

\* A timeline of events has each of them as often as it is there and nothing else, by
\* trace and in the order of time, a row for each of them and each picture of them in
\* a strip.
AsOften(timeline, events) ==
  LET all  == FlattenSeq(Map(LAMBDA group : group.events, timeline))
      rows == FlattenSeq(Map(LAMBDA group : Rows(group.events), timeline))
  IN  /\ Len(all) = Len(events) /\ ToSet(all) = ToSet(events)
      /\ \A e : Cardinality({i \in DOMAIN all : all[i] = e})
               = Cardinality({i \in DOMAIN events : events[i] = e})
      /\ Len(rows) = Len(events)
      /\ PicturesIn(timeline) = {row.picture : row \in ToSet(rows)} \ {NoPicture}
      /\ \A n \in DOMAIN timeline :
           LET group == timeline[n] IN
           /\ \A i \in DOMAIN group.events : group.events[i].trace = group.trace
           /\ \A i, j \in DOMAIN group.events :
                i < j => group.events[i].ms <= group.events[j].ms
           /\ n < Len(timeline) =>
                /\ group.trace # timeline[n + 1].trace
                /\ group.events[1].ms <= timeline[n + 1].events[1].ms

\* The timeline of some events accounts for them.
LEMMA TimelineFacts ==
  ASSUME NEW E, \A e \in E : e.ms \in Int, NEW events \in Seq(E)
  PROVE  AsOften(GroupByTrace(ByTime(events)), events)
<1> DEFINE s == ByTime(events)
           timeline == GroupByTrace(s)
           all == FlattenSeq(Map(LAMBDA group : group.events, timeline))
           rows == FlattenSeq(Map(LAMBDA group : Rows(group.events), timeline))
<1>1. /\ s \in Seq(E) /\ Len(s) = Len(events)
      /\ \A X : Num(s, X) = Num(events, X)
      /\ \A i, j \in 1 .. Len(events) : i < j => s[i].ms <= s[j].ms
  BY ByTimeFacts
<1>2. timeline = GroupByTrace(s)
  OBVIOUS
<1> HIDE DEF s
<1>3. PICK traces : \E n \in Nat :
        /\ GroupsOf(traces, n, s)
        /\ GroupByTrace(s) = [k \in 1 .. n |-> Group(s, traces[k])]
        /\ \A k, l \in 1 .. n :
             k < l => Group(s, traces[k]).events[1].ms <= Group(s, traces[l]).events[1].ms
  BY <1>1, GroupedFacts
<1>4. PICK n \in Nat :
        /\ GroupsOf(traces, n, s)
        /\ GroupByTrace(s) = [k \in 1 .. n |-> Group(s, traces[k])]
        /\ \A k, l \in 1 .. n :
             k < l => Group(s, traces[k]).events[1].ms <= Group(s, traces[l]).events[1].ms
  BY <1>3
<1> DEFINE those(k) == OfTrace(s, traces[k])
           parts == [k \in 1 .. n |-> those(k)]
           seqs == [k \in 1 .. n |-> Filter(s, parts[k])]
           f == [e \in E |-> Row(e)]
<1>5. /\ DOMAIN timeline = 1 .. n /\ Len(timeline) = n
      /\ \A k \in 1 .. n : timeline[k] = Group(s, traces[k])
  <2> HIDE DEF timeline
  <2> QED  BY <1>2, <1>4
<1>6. /\ DOMAIN seqs = 1 .. n
      /\ \A k \in 1 .. n :
           /\ seqs[k] = Filter(s, parts[k]) /\ parts[k] = those(k)
           /\ seqs[k] = timeline[k].events /\ seqs[k] \in Seq(E)
           /\ timeline[k].trace = traces[k]
           /\ ToSet(seqs[k]) = those(k)
  <2>1. \A k \in 1 .. n : seqs[k] = Filter(s, parts[k]) /\ parts[k] = those(k)
    OBVIOUS
  <2>2. DOMAIN seqs = 1 .. n
    OBVIOUS
  <2>3. \A trace :
          /\ Group(s, trace).trace = trace
          /\ Group(s, trace).events \in Seq(E)
          /\ Group(s, trace).events = Filter(s, OfTrace(s, trace))
          /\ ToSet(Group(s, trace).events) = OfTrace(s, trace)
    BY <1>1, GroupFacts
  <2> SUFFICES ASSUME NEW k \in 1 .. n
               PROVE  /\ seqs[k] = timeline[k].events /\ seqs[k] \in Seq(E)
                      /\ timeline[k].trace = traces[k]
                      /\ ToSet(seqs[k]) = those(k)
    BY <2>1, <2>2
  <2>4. timeline[k] = Group(s, traces[k])
    BY <1>5
  <2>5. seqs[k] = Filter(s, those(k))
    BY <2>1
  <2> HIDE DEF timeline, seqs, parts
  <2> QED  BY <2>3, <2>4, <2>5
<1>7. all = FlattenSeq(seqs)
  <2>1. Map(LAMBDA group : group.events, timeline) = [k \in DOMAIN timeline |-> timeline[k].events]
    BY DEF Map
  <2>2. seqs = [k \in 1 .. n |-> seqs[k]]
    OBVIOUS
  <2> HIDE DEF timeline, seqs
  <2> QED  BY <1>5, <1>6, <2>1, <2>2
<1>8. rows = FlattenSeq([k \in DOMAIN seqs |-> Applied(f, seqs[k])])
  <2>1. Map(LAMBDA group : Rows(group.events), timeline)
          = [k \in DOMAIN timeline |-> Rows(timeline[k].events)]
    BY DEF Map
  <2>2. ASSUME NEW k \in 1 .. n PROVE Rows(timeline[k].events) = Applied(f, seqs[k])
    <3>1. seqs[k] = timeline[k].events /\ seqs[k] \in Seq(E)
      BY <1>6
    <3> HIDE DEF timeline, seqs
    <3>2. \A i \in DOMAIN seqs[k] : seqs[k][i] \in E
      BY <3>1, ListFacts
    <3> QED  BY <3>1, <3>2 DEF Rows, Map, Applied
  <2> HIDE DEF timeline, seqs, f
  <2> QED  BY <1>5, <1>6, <2>1, <2>2
<1>9. Split(seqs, parts, n, s)
  <2>1. \A k, l \in 1 .. n : k # l => parts[k] \cap parts[l] = {}
    BY <1>4 DEF GroupsOf, OfTrace
  <2>2. \A x \in ToSet(s) : \E k \in 1 .. n : x \in parts[k]
    <3>1. \A i \in 1 .. Len(s) : \E k \in 1 .. n : traces[k] = s[i].trace
      BY <1>4 DEF GroupsOf
    <3>2. DOMAIN s = 1 .. Len(s)
      BY <1>1, ListFacts
    <3> QED  BY <3>1, <3>2 DEF ToSet, OfTrace
  <2> HIDE DEF those
  <2> QED  BY <2>1, <2>2 DEF Split
<1> HIDE DEF all, rows, timeline
<1>10. /\ seqs \in Seq(Seq(E)) /\ all \in Seq(E)
       /\ \A X : Num(all, X) = Num(events, X)
  <2> HIDE DEF seqs, parts
  <2>1. /\ seqs \in Seq(Seq(E)) /\ FlattenSeq(seqs) \in Seq(E)
        /\ \A X : Num(FlattenSeq(seqs), X) = Num(s, X)
    BY <1>1, <1>9, JoinParts
  <2> QED  BY <1>1, <1>7, <2>1
<1>11. ToSet(all) = ToSet(events) /\ Len(all) = Len(events) /\ ToSet(s) = ToSet(events)
  <2>1. ToSet(all) = ToSet(events) /\ Len(all) = Len(events)
    BY <1>10, SameElements
  <2>2. ToSet(s) = ToSet(events)
    BY <1>1, SameElements
  <2> QED  BY <2>1, <2>2
<1>12. rows = Applied(f, all)
  <2> HIDE DEF seqs, f
  <2> QED  BY <1>7, <1>8, <1>10, AppliedFlatten
<1>13. Len(rows) = Len(events)
  <2>1. Len(Applied(f, all)) = Len(all)
    <3> HIDE DEF f
    <3> QED  BY <1>10, AppliedFacts
  <2> QED  BY <1>11, <1>12, <2>1
<1>14. ToSet(rows) = {Row(e) : e \in ToSet(events)}
  <2>1. DOMAIN rows = DOMAIN all /\ \A i \in DOMAIN all : rows[i] = Row(all[i])
    <3>1. \A i \in DOMAIN all : all[i] \in E
      BY <1>10, ListFacts
    <3> QED  BY <1>12, <3>1 DEF Applied
  <2> HIDE DEF f, seqs
  <2>2. ToSet(rows) = {Row(e) : e \in ToSet(all)}
    BY <2>1 DEF ToSet
  <2> QED  BY <1>11, <2>2
<1>15. UNION {ToSet(Strip(group.events)) : group \in ToSet(timeline)}
         = {e.picture : e \in {e \in ToSet(events) : Pictured(e)}}
  <2> DEFINE U == UNION {ToSet(Strip(group.events)) : group \in ToSet(timeline)}
             V == {e.picture : e \in {e \in ToSet(events) : Pictured(e)}}
  <2>1. \A x : x \in U <=> \E k \in 1 .. n : x \in ToSet(Strip(seqs[k]))
    <3> HIDE DEF seqs
    <3>1. ToSet(timeline) = {timeline[k] : k \in 1 .. n}
      BY <1>5 DEF ToSet
    <3>2. U = UNION {ToSet(Strip(timeline[k].events)) : k \in 1 .. n}
      BY <3>1
    <3>3. \A k \in 1 .. n : timeline[k].events = seqs[k]
      BY <1>6
    <3> HIDE DEF U
    <3> QED  BY <3>2, <3>3
  <2>2. \A k \in 1 .. n :
          ToSet(Strip(seqs[k])) = {e.picture : e \in {e \in those(k) : Pictured(e)}}
    <3> SUFFICES ASSUME NEW k \in 1 .. n
                 PROVE  ToSet(Strip(seqs[k])) = {e.picture : e \in {e \in those(k) : Pictured(e)}}
      OBVIOUS
    <3>1. seqs[k] \in Seq(E) /\ ToSet(seqs[k]) = those(k)
      BY <1>6
    <3> HIDE DEF seqs, those
    <3>2. ToSet(Strip(seqs[k])) = {e.picture : e \in {e \in ToSet(seqs[k]) : Pictured(e)}}
      BY <3>1, StripFacts
    <3> QED  BY <3>1, <3>2
  <2>3. \A k \in 1 .. n : \A e \in those(k) : e \in ToSet(events)
    BY <1>11 DEF OfTrace
  <2>4. \A e \in ToSet(events) : \E k \in 1 .. n : e \in those(k)
    <3>1. \A x \in ToSet(s) : \E k \in 1 .. n : x \in parts[k]
      <4> HIDE DEF seqs, parts
      <4> QED  BY <1>9 DEF Split
    <3> QED  BY <1>11, <3>1
  <2>5. \A x : x \in U => x \in V
    <3> HIDE DEF seqs, those, U
    <3> QED  BY <2>1, <2>2, <2>3
  <2>6. \A x : x \in V => x \in U
    <3> SUFFICES ASSUME NEW e \in ToSet(events), Pictured(e) PROVE e.picture \in U
      <4> HIDE DEF U
      <4> QED  OBVIOUS
    <3>1. PICK k \in 1 .. n : e \in those(k)
      BY <2>4
    <3>2. e.picture \in ToSet(Strip(seqs[k]))
      <4> HIDE DEF seqs, those
      <4> QED  BY <2>2, <3>1
    <3> HIDE DEF U, seqs
    <3> QED  BY <2>1, <3>2
  <2> HIDE DEF U, V
  <2>7. U = V
    BY <2>5, <2>6
  <2> QED  BY <2>7 DEF U, V
<1>16. {row.picture : row \in ToSet(rows)} \ {NoPicture}
         = {e.picture : e \in {e \in ToSet(events) : Pictured(e)}}
  <2>1. {row.picture : row \in ToSet(rows)} = {Row(e).picture : e \in ToSet(events)}
    BY <1>14
  <2>2. \A e : Row(e).picture = IF e.body = "ui.screenshot" THEN e.picture ELSE NoPicture
    BY DEF Row
  <2>3. \A e : Pictured(e) <=> e.body = "ui.screenshot" /\ e.picture # NoPicture
    BY DEF Pictured
  <2> QED  BY <2>1, <2>2, <2>3
<1>17. ASSUME NEW k \in 1 .. n
       PROVE  /\ \A i \in DOMAIN timeline[k].events :
                   timeline[k].events[i].trace = timeline[k].trace
              /\ \A i, j \in DOMAIN timeline[k].events :
                   i < j => timeline[k].events[i].ms <= timeline[k].events[j].ms
  <2> DEFINE g == timeline[k].events
  <2>1. /\ g = Filter(s, parts[k]) /\ g \in Seq(E) /\ timeline[k].trace = traces[k]
        /\ ToSet(g) = those(k)
    BY <1>6
  <2> HIDE DEF g, seqs, parts
  <2>2. Len(g) \in Nat /\ DOMAIN g = 1 .. Len(g)
    BY <2>1, ListFacts
  <2>3. PICK q : Picked(q, g, s, parts[k], Len(s))
    BY <1>1, <2>1, FilterPlaces
  <2>4. /\ \A i \in 1 .. Len(g) : q[i] \in 1 .. Len(events) /\ g[i] = s[q[i]]
        /\ \A i, j \in 1 .. Len(g) : i < j => q[i] < q[j]
    BY <1>1, <2>3 DEF Picked
  <2>5. \A i, j \in DOMAIN g : i < j => g[i].ms <= g[j].ms
    <3> SUFFICES ASSUME NEW i \in 1 .. Len(g), NEW j \in 1 .. Len(g), i < j
                 PROVE  g[i].ms <= g[j].ms
      BY <2>2
    <3>1. q[i] \in 1 .. Len(events) /\ q[j] \in 1 .. Len(events) /\ q[i] < q[j]
      BY <2>4
    <3>2. s[q[i]].ms <= s[q[j]].ms
      BY <1>1, <3>1
    <3> QED  BY <2>4, <3>2
  <2>6. \A i \in DOMAIN g : g[i].trace = timeline[k].trace
    BY <2>1 DEF ToSet, OfTrace
  <2> QED  BY <2>5, <2>6 DEF g
<1>18. ASSUME NEW k \in 1 .. n, k < n
       PROVE  /\ timeline[k].trace # timeline[k + 1].trace
              /\ timeline[k].events[1].ms <= timeline[k + 1].events[1].ms
  <2>1. k + 1 \in 1 .. n /\ k # k + 1 /\ k < k + 1
    BY <1>18
  <2>2. traces[k] # traces[k + 1]
    BY <1>4, <2>1 DEF GroupsOf
  <2>3. timeline[k].trace = traces[k] /\ timeline[k + 1].trace = traces[k + 1]
    BY <1>6, <2>1
  <2>4. Group(s, traces[k]).events[1].ms <= Group(s, traces[k + 1]).events[1].ms
    BY <1>4, <2>1
  <2>5. timeline[k] = Group(s, traces[k]) /\ timeline[k + 1] = Group(s, traces[k + 1])
    BY <1>5, <2>1
  <2> QED  BY <2>2, <2>3, <2>4, <2>5
<1> HIDE DEF seqs, parts, f
<1>19. \A k \in DOMAIN timeline :
         /\ \A i \in DOMAIN timeline[k].events :
              timeline[k].events[i].trace = timeline[k].trace
         /\ \A i, j \in DOMAIN timeline[k].events :
              i < j => timeline[k].events[i].ms <= timeline[k].events[j].ms
         /\ k < Len(timeline) =>
              /\ timeline[k].trace # timeline[k + 1].trace
              /\ timeline[k].events[1].ms <= timeline[k + 1].events[1].ms
  BY <1>5, <1>17, <1>18
<1>20. \A x : Cardinality({i \in DOMAIN all : all[i] = x})
                = Cardinality({i \in DOMAIN events : events[i] = x})
  <2> SUFFICES ASSUME NEW x
               PROVE  Cardinality({i \in DOMAIN all : all[i] = x})
                        = Cardinality({i \in DOMAIN events : events[i] = x})
    OBVIOUS
  <2>1. /\ At(all, {x}) = {i \in DOMAIN all : all[i] = x}
        /\ At(events, {x}) = {i \in DOMAIN events : events[i] = x}
    BY DEF At
  <2>2. Cardinality(At(all, {x})) = Cardinality(At(events, {x}))
    BY <1>10 DEF Num
  <2> QED  BY <2>1, <2>2
<1>21. PicturesIn(timeline) = {row.picture : row \in ToSet(rows)} \ {NoPicture}
  BY <1>15, <1>16 DEF PicturesIn
<1>22. AsOften(timeline, events)
  BY <1>11, <1>13, <1>19, <1>20, <1>21 DEF AsOften, all, rows
<1> QED  BY <1>22 DEF timeline, s

\* The event of a record has its date, and is what shows it.
LEMMA NormalizedFacts ==
  ASSUME NEW r, r.time \in Int, r.observed \in Int
  PROVE  /\ NormalizeAny(r).ms \in Int
         /\ r.shape = "log" => NormalizeAny(r) = NormalizeLog(r)
         /\ \A x : Shows(NormalizeAny(x), r) <=> NormalizeAny(x) = NormalizeAny(r)
<1> DEFINE date == Or(r.time, Or(r.observed, 0))
<1>1. /\ date \in Int
      /\ date = IF r.time # Missing THEN r.time ELSE IF r.observed # Missing THEN r.observed ELSE 0
  BY DEF Or
<1> HIDE DEF date
<1>2. date \div Nanos \in Int
  BY <1>1, NanosAssumption
<1>3. NormalizeAny(r) = [ms |-> IF r.shape = "log" THEN date \div Nanos ELSE date,
                         trace |-> r.trace, body |-> r.body, picture |-> r.picture]
  BY DEF NormalizeAny, NormalizeLog, NormalizeFlat, date
<1>4. ASSUME NEW x PROVE Shows(NormalizeAny(x), r) <=> NormalizeAny(x) = NormalizeAny(r)
  <2>1. PICK m : NormalizeAny(x) = [ms |-> m, trace |-> x.trace, body |-> x.body,
                                    picture |-> x.picture]
    BY DEF NormalizeAny, NormalizeLog, NormalizeFlat
  <2>2. Shows(NormalizeAny(x), r)
          <=> /\ x.trace = r.trace /\ x.body = r.body /\ x.picture = r.picture
              /\ m = IF r.shape = "log" THEN date \div Nanos ELSE date
    BY <1>1, <2>1 DEF Shows
  <2> QED  BY <1>3, <2>1, <2>2
<1> QED  BY <1>1, <1>2, <1>3, <1>4 DEF NormalizeAny

\* What a document holds, in its order.
LEMMA RecordsFacts ==
  ASSUME NEW document, ProperDocument(document)
  PROVE  /\ Records(document) \in Seq(RecordsOf(document))
         /\ \A r \in RecordsOf(document) : r.time \in Int /\ r.observed \in Int
<1> DEFINE R == RecordsOf(document)
<1>1. CASE document.form = "envelope"
  <2>1. document.records \in Seq(Seq(R))
    BY <1>1 DEF ProperDocument
  <2>2. FlattenSeq(document.records) \in Seq(R)
    <3> HIDE DEF R
    <3> QED  BY <2>1, FlattenFacts
  <2> QED  BY <1>1, <2>2 DEF Records, ProperDocument
<1>2. CASE document.form # "envelope"
  BY <1>2 DEF Records, ProperDocument
<1> QED  BY <1>1, <1>2

\* A document makes the parser throw when it has a record that cannot be read and is
\* not one of lines.
LEMMA ThrowsExactly ==
  ASSUME NEW document, ProperDocument(document)
  PROVE  ParseThrows(document) <=>
           document.form # "lines" /\ \E r \in ToSet(Records(document)) : Unreadable(r)
<1>1. ToSet(Records(document)) \subseteq RecordsOf(document)
  BY RecordsFacts, SeqOfElements
<1>2. CASE document.form = "blank"
  <2>1. \A r \in RecordsOf(document) : FALSE
    BY <1>2 DEF ProperDocument
  <2> QED  BY <1>1, <1>2, <2>1 DEF ParseThrows
<1>3. CASE document.form = "envelope"
  <2>1. \A r \in RecordsOf(document) : r.shape \in {"log", "null"}
    BY <1>3 DEF ProperDocument
  <2>2. ParseThrows(document)
          <=> \E r \in ToSet(Records(document)) : r.shape = "null" \/ r.broken
    BY <1>3 DEF ParseThrows, Records
  <2> QED  BY <1>1, <1>3, <2>1, <2>2 DEF Unreadable
<1>4. CASE document.form = "array"
  <2>1. \A r \in RecordsOf(document) : r.shape \in {"log", "flat", "null"}
    BY <1>4 DEF ProperDocument
  <2>2. ParseThrows(document) <=> \E r \in ToSet(Records(document)) : Throws(r)
    BY <1>4 DEF ParseThrows, Records
  <2> QED  BY <1>1, <1>4, <2>1, <2>2 DEF Unreadable, Throws
<1>5. CASE document.form = "lines"
  BY <1>5 DEF ParseThrows
<1> QED  BY <1>2, <1>3, <1>4, <1>5 DEF ProperDocument

\* q says which records the events are of: all of those that can be read, each once.
EventsOf(q, events, records) ==
  LET readable == {i \in DOMAIN records : ~Unreadable(records[i])} IN
  /\ q \in [1 .. Len(events) -> readable]
  /\ \A k \in 1 .. Len(events) : events[k] = NormalizeAny(records[q[k]])
  /\ \A k, l \in 1 .. Len(events) : q[k] = q[l] => k = l
  /\ \A i \in readable : \E k \in 1 .. Len(events) : q[k] = i

\* The events of a list of records.
LEMMA NormalizedList ==
  ASSUME NEW R, NEW s \in Seq(R)
  PROVE  /\ Map(NormalizeAny, s) \in Seq({NormalizeAny(r) : r \in R})
         /\ Len(Map(NormalizeAny, s)) = Len(s) /\ Len(s) \in Nat
         /\ \A k \in 1 .. Len(s) : Map(NormalizeAny, s)[k] = NormalizeAny(s[k])
<1> DEFINE E == {NormalizeAny(r) : r \in R}
           events == [i \in 1 .. Len(s) |-> NormalizeAny(s[i])]
<1>1. Len(s) \in Nat /\ DOMAIN s = 1 .. Len(s) /\ \A i \in 1 .. Len(s) : s[i] \in R
  BY ListFacts
<1>2. Map(NormalizeAny, s) = events
  BY <1>1 DEF Map
<1>3. events \in [1 .. Len(s) -> E]
  BY <1>1
<1>4. \A L : \A m \in Nat : \A g \in [1 .. m -> L] : g \in Seq(L) /\ Len(g) = m
  OBVIOUS
<1>5. \A k \in 1 .. Len(s) : events[k] = NormalizeAny(s[k])
  OBVIOUS
<1> HIDE DEF events, E
<1>6. events \in Seq(E) /\ Len(events) = Len(s)
  BY <1>1, <1>3, <1>4
<1> QED  BY <1>1, <1>2, <1>5, <1>6 DEF E

\* The events of a document that does not make the parser throw.
LEMMA ParsedFacts ==
  ASSUME NEW document, ProperDocument(document), ~ParseThrows(document)
  PROVE  /\ ParseEvents(document) \in Seq({NormalizeAny(r) : r \in RecordsOf(document)})
         /\ \E q : EventsOf(q, ParseEvents(document), Records(document))
<1> DEFINE R == RecordsOf(document)
           records == Records(document)
           events == ParseEvents(document)
           E == {NormalizeAny(r) : r \in R}
           readable == {i \in DOMAIN records : ~Unreadable(records[i])}
<1>1. /\ records \in Seq(R)
      /\ Len(records) \in Nat /\ DOMAIN records = 1 .. Len(records)
      /\ \A i \in 1 .. Len(records) : records[i] \in R
  <2>1. records \in Seq(R)
    BY RecordsFacts
  <2> HIDE DEF records, R
  <2> QED  BY <2>1, ListFacts
<1>2. CASE document.form # "lines"
  <2>1. readable = 1 .. Len(records)
    <3>1. \A r \in ToSet(records) : ~Unreadable(r)
      BY <1>2, ThrowsExactly
    <3> HIDE DEF records
    <3> QED  BY <1>1, <3>1 DEF ToSet
  <2>2. events = Map(NormalizeAny, records)
    <3>1. CASE document.form = "blank"
      <4>1. \A r \in R : FALSE
        BY <3>1 DEF ProperDocument
      <4>2. Len(records) = 0
        <5> HIDE DEF records, R
        <5>1. ~(1 \in 1 .. Len(records))
          BY <1>1, <4>1
        <5> QED  BY <1>1, <5>1
      <4>3. records = <<>>
        <5> HIDE DEF records, R
        <5> QED  BY <1>1, <4>2, EmptySeq
      <4>4. Map(NormalizeAny, <<>>) = <<>>
        BY DEF Map
      <4>5. events = <<>>
        BY <3>1 DEF ParseEvents
      <4> QED  BY <4>3, <4>4, <4>5
    <3>2. CASE document.form = "envelope"
      <4>1. \A i \in DOMAIN records : NormalizeLog(records[i]) = NormalizeAny(records[i])
        <5>1. \A r \in R : r.shape \in {"log", "null"}
          BY <3>2 DEF ProperDocument
        <5> SUFFICES ASSUME NEW i \in DOMAIN records
                     PROVE  NormalizeLog(records[i]) = NormalizeAny(records[i])
          OBVIOUS
        <5>2. ~Unreadable(records[i]) /\ records[i] \in R
          <6> HIDE DEF records, R
          <6> QED  BY <1>1, <2>1
        <5>3. records[i].shape = "log"
          BY <5>1, <5>2 DEF Unreadable
        <5> QED  BY <5>3 DEF NormalizeAny
      <4>2. events = Map(NormalizeLog, records)
        BY <3>2 DEF ParseEvents, Records
      <4> HIDE DEF records, events
      <4> QED  BY <4>1, <4>2 DEF Map
    <3>3. CASE document.form = "array"
      BY <3>3 DEF ParseEvents, Records
    <3> QED  BY <1>2, <3>1, <3>2, <3>3 DEF ProperDocument
  <2> DEFINE q == [k \in 1 .. Len(records) |-> k]
  <2> HIDE DEF records, events, R
  <2>3. /\ events \in Seq(E) /\ Len(events) = Len(records)
        /\ \A k \in 1 .. Len(records) : events[k] = NormalizeAny(records[k])
    BY <1>1, <2>2, NormalizedList
  <2>4. EventsOf(q, events, records)
    BY <2>1, <2>3 DEF EventsOf
  <2> HIDE DEF q
  <2> QED  BY <2>3, <2>4 DEF events, records, R
<1>3. CASE document.form = "lines"
  <2> DEFINE kept == Filter(records, Readable(records))
  <2>1. events = Map(NormalizeAny, kept)
    BY <1>3 DEF ParseEvents, Records
  <2>2. \A i \in DOMAIN records : records[i] \in Readable(records) <=> ~Unreadable(records[i])
    <3> HIDE DEF records
    <3> QED  BY DEF Readable, Throws, Unreadable, ToSet
  <2> HIDE DEF records, events, R
  <2>3. kept \in Seq(R)
    BY <1>1, FilterFacts
  <2>4. PICK q : Picked(q, kept, records, Readable(records), Len(records))
    BY <1>1, FilterPlaces
  <2> HIDE DEF kept
  <2>5. /\ events \in Seq(E) /\ Len(events) = Len(kept) /\ Len(kept) \in Nat
        /\ \A k \in 1 .. Len(kept) : events[k] = NormalizeAny(kept[k])
    BY <2>1, <2>3, NormalizedList
  <2>6. \A k, l \in 1 .. Len(kept) : q[k] = q[l] => k = l
    <3>1. \A k, l \in 1 .. Len(kept) : k < l \/ l < k \/ k = l
      BY <2>5
    <3>2. \A k \in 1 .. Len(kept) : q[k] \in 1 .. Len(records)
      BY <2>4 DEF Picked
    <3> QED  BY <1>1, <2>4, <3>1, <3>2 DEF Picked
  <2>7. q \in [1 .. Len(kept) -> readable]
    BY <1>1, <2>2, <2>4 DEF Picked
  <2>8. \A k \in 1 .. Len(kept) : events[k] = NormalizeAny(records[q[k]])
    BY <2>4, <2>5 DEF Picked
  <2>9. \A i \in readable : \E k \in 1 .. Len(kept) : q[k] = i
    BY <1>1, <2>2, <2>4 DEF Picked
  <2>10. EventsOf(q, events, records)
    BY <2>5, <2>6, <2>7, <2>8, <2>9 DEF EventsOf
  <2> QED  BY <2>5, <2>10 DEF events, records, R
<1> QED  BY <1>2, <1>3

\* The documents of a page.
LEMMA ProperDocuments ==
  ASSUME NEW document \in Documents \cup {ReplayMounted.raw}
  PROVE  ProperDocument(document)
<1>1. CASE document \in Documents
  BY <1>1, DocumentsAssumption DEF ProperDocument
<1>2. CASE document = ReplayMounted.raw
  <2>1. document.form = "blank" /\ document.records = <<>>
    BY <1>2 DEF ReplayMounted
  <2>2. ToSet(document.records) = {}
    BY <2>1 DEF ToSet
  <2>3. RecordsOf(document) = {}
    BY <2>1, <2>2 DEF RecordsOf
  <2> QED  BY <2>1, <2>3, EmptySeq DEF ProperDocument
<1> QED  BY <1>1, <1>2

\* What accounts for the events of records accounts for the records.
LEMMA EventsAccount ==
  ASSUME NEW R, \A r \in R : r.time \in Int /\ r.observed \in Int,
         NEW records \in Seq(R),
         NEW E, \A e \in E : \E r \in R : e = NormalizeAny(r), NEW events \in Seq(E),
         \E q : EventsOf(q, events, records),
         NEW timeline, AsOften(timeline, events)
  PROVE  Accounts(timeline, records)
<1> DEFINE readable == {i \in DOMAIN records : ~Unreadable(records[i])}
           all == FlattenSeq(Map(LAMBDA group : group.events, timeline))
<1>1. PICK q : EventsOf(q, events, records)
  OBVIOUS
<1>2. /\ q \in [1 .. Len(events) -> readable]
      /\ \A k \in 1 .. Len(events) : events[k] = NormalizeAny(records[q[k]])
      /\ \A k, l \in 1 .. Len(events) : q[k] = q[l] => k = l
      /\ \A i \in readable : \E k \in 1 .. Len(events) : q[k] = i
  BY <1>1 DEF EventsOf
<1>3. /\ Len(events) \in Nat /\ DOMAIN events = 1 .. Len(events)
      /\ IsFiniteSet(1 .. Len(events)) /\ Cardinality(1 .. Len(events)) = Len(events)
  <2>1. Len(events) \in Nat /\ DOMAIN events = 1 .. Len(events)
    BY ListFacts
  <2> QED  BY <2>1, IntervalFacts
<1>4. \A i \in readable : i \in DOMAIN records /\ records[i] \in R
  BY ListFacts
<1> HIDE DEF readable
<1>5. Cardinality(readable) = Len(events)
  <2> DEFINE A == 1 .. Len(events)
  <2>1. /\ q \in [A -> readable] /\ IsFiniteSet(A)
        /\ \A x, y \in A : q[x] = q[y] => x = y
        /\ \A z \in readable : \E x \in A : q[x] = z
    BY <1>2, <1>3
  <2> HIDE DEF A
  <2>2. Cardinality(A) = Cardinality(readable)
    BY <2>1, SameNumber
  <2> QED  BY <1>3, <2>2 DEF A
<1>6. ASSUME NEW e \in ToSet(events)
      PROVE  Cardinality({i \in DOMAIN events : events[i] = e})
               = Cardinality({i \in readable : Shows(e, records[i])})
  <2> DEFINE A == {i \in DOMAIN events : events[i] = e}
             B == {i \in readable : Shows(e, records[i])}
             p == [k \in A |-> q[k]]
  <2>1. PICK x : e = NormalizeAny(x)
    BY <1>2, <1>3 DEF ToSet
  <2>2. \A i \in readable : Shows(e, records[i]) <=> e = NormalizeAny(records[i])
    BY <1>4, <2>1, NormalizedFacts
  <2>3. IsFiniteSet(A)
    <3>1. A \in SUBSET (1 .. Len(events))
      BY <1>3
    <3> HIDE DEF A
    <3> QED  BY <1>3, <3>1, FS_Subset
  <2>4. p \in [A -> B] /\ \A y, z \in A : p[y] = p[z] => y = z
    BY <1>2, <1>3, <2>2
  <2>5. \A z \in B : \E y \in A : p[y] = z
    <3> SUFFICES ASSUME NEW z \in B PROVE \E y \in A : p[y] = z
      OBVIOUS
    <3>1. PICK k \in 1 .. Len(events) : q[k] = z
      BY <1>2
    <3>2. events[k] = e
      BY <1>2, <2>2, <3>1
    <3> QED  BY <1>3, <3>1, <3>2
  <2> HIDE DEF A, B, p
  <2>6. Cardinality(A) = Cardinality(B)
    BY <2>3, <2>4, <2>5, SameNumber
  <2> QED  BY <2>6 DEF A, B
<1>7. /\ Len(all) = Cardinality(readable)
      /\ \A e \in ToSet(all) : Cardinality({i \in DOMAIN all : all[i] = e})
                                = Cardinality({i \in readable : Shows(e, records[i])})
  <2>1. /\ Len(all) = Len(events) /\ ToSet(all) = ToSet(events)
        /\ \A e : Cardinality({i \in DOMAIN all : all[i] = e})
                 = Cardinality({i \in DOMAIN events : events[i] = e})
    BY DEF AsOften
  <2> HIDE DEF all
  <2> QED  BY <1>5, <1>6, <2>1
<1> QED  BY <1>7 DEF Accounts, AsOften, readable

\* What the timeline of the replayed document is, or that it has none.
LEMMA ReplayAccounted ==
  ASSUME ReplayInv(replay), On("replay")
  PROVE  DocumentAccounted
<1> DEFINE raw == replay.raw
           unread == raw.form # "lines" /\ \E r \in ToSet(Records(raw)) : Unreadable(r)
<1>1. ProperDocument(raw)
  BY ProperDocuments DEF ReplayInv
<1>2. ParseThrows(raw) <=> unread
  BY <1>1, ThrowsExactly
<1>3. CASE ParseThrows(raw)
  <2>1. replay.error # "none" \/ replay.fetching \/ replay.same
    BY <1>3 DEF ReplayInv
  <2> QED  BY <1>2, <1>3, <2>1 DEF DocumentAccounted
<1>4. CASE ~ParseThrows(raw)
  <2> DEFINE R == RecordsOf(raw)
             E == {NormalizeAny(r) : r \in R}
             events == ParseEvents(raw)
             timeline == GroupByTrace(ByTime(events))
  <2>1. Records(raw) \in Seq(R) /\ \A r \in R : r.time \in Int /\ r.observed \in Int
    BY <1>1, RecordsFacts
  <2>2. events \in Seq(E) /\ \E q : EventsOf(q, events, Records(raw))
    BY <1>1, <1>4, ParsedFacts
  <2>3. \A e \in E : e.ms \in Int
    BY <2>1, NormalizedFacts
  <2>4. Shown(raw) = timeline
    BY <1>4 DEF Shown, Timeline
  <2> HIDE DEF R, events
  <2>5. AsOften(timeline, events)
    <3> HIDE DEF E
    <3> QED  BY <2>2, <2>3, TimelineFacts
  <2> HIDE DEF timeline
  <2>6. Accounts(timeline, Records(raw))
    BY <2>1, <2>2, <2>5, EventsAccount, Zenon
  <2> QED  BY <1>2, <1>4, <2>4, <2>6 DEF DocumentAccounted
<1> QED  BY <1>3, <1>4

\* What JourneyReplay shows of its document has each record that can be read as often as
\* the document holds it, and nothing else, however many records there are, of whatever
\* traces and times and in whatever order.  Unreadable records of a document of lines
\* are left out of this, and silently so; one in a document of another form leaves the
\* page empty, with an error but for the exceptions the property names.
THEOREM DocumentsAccounted == Spec => []DocumentAccounted
<1>1. IInv => DocumentAccounted
  BY ReplayAccounted DEF IInv, DocumentAccounted
<1> QED  BY <1>1, Inductive, PTL

-----------------------------------------------------------------------------
\* The workflow builder.

\* One element more.
LEMMA AppendElements ==
  ASSUME NEW s, s \in Seq(ToSet(s)), NEW x
  PROVE  /\ Append(s, x) \in Seq(ToSet(Append(s, x)))
         /\ ToSet(Append(s, x)) = ToSet(s) \cup {x}
<1> DEFINE S == ToSet(s) \cup {x}
           t == Append(s, x)
           n == Len(s)
<1>1. s \in Seq(S) /\ x \in S /\ n \in Nat /\ DOMAIN s = 1 .. n
  BY LenProperties
<1>2. t \in Seq(S) /\ Len(t) = n + 1 /\ t[n + 1] = x /\ \A i \in 1 .. n : t[i] = s[i]
  BY <1>1, AppendProperties
<1>3. DOMAIN t = 1 .. n + 1
  BY <1>2, LenProperties
<1>4. n + 1 \in 1 .. n + 1 /\ \A i \in 1 .. n + 1 : i = n + 1 \/ i \in 1 .. n
  BY <1>1
<1>5. \A i \in 1 .. n : i \in 1 .. n + 1
  BY <1>1
<1> HIDE DEF t, n
<1>6. ToSet(t) = ToSet(s) \cup {x}
  BY <1>1, <1>2, <1>3, <1>4, <1>5 DEF ToSet
<1>7. t \in Seq(ToSet(t))
  BY <1>2, SeqOfElements
<1> QED  BY <1>6, <1>7 DEF t

\* The workflows of a list: those with the same id are the same.
ListInv(list) ==
  /\ list \in Seq(ToSet(list))
  /\ \A w \in ToSet(list) : IsWorkflow(w)
  /\ \A v, w \in ToSet(list) : v.id = w.id => v = w

\* Selected, of any list.
Chosen(list, id) ==
  IF id \in {list[i].id : i \in DOMAIN list}
  THEN Filter(list, {w \in ToSet(list) : w.id = id})[1]
  ELSE Default

\* It is a workflow, and the one of the list with that id if there is one.
LEMMA ChosenFacts ==
  ASSUME NEW list, ListInv(list), NEW id
  PROVE  /\ IsWorkflow(Chosen(list, id))
         /\ \A w \in ToSet(list) : w.id = id => Chosen(list, id) = w
<1> DEFINE those == {w \in ToSet(list) : w.id = id}
           kept == Filter(list, those)
<1>1. CASE id \in {list[i].id : i \in DOMAIN list}
  <2>1. PICK w \in those : TRUE
    BY <1>1 DEF ToSet
  <2>2. kept \in Seq(ToSet(list)) /\ ToSet(kept) = ToSet(list) \cap those
    BY FilterFacts DEF ListInv
  <2>3. kept # <<>>
    <3>1. w \in ToSet(kept)
      BY <2>1, <2>2
    <3> HIDE DEF kept
    <3> QED  BY <3>1 DEF ToSet
  <2>4. kept[1] \in those
    <3>1. kept[1] \in ToSet(kept)
      <4> HIDE DEF kept
      <4>1. Len(kept) \in Nat /\ DOMAIN kept = 1 .. Len(kept)
        BY <2>2, LenProperties
      <4>2. 1 \in 1 .. Len(kept)
        BY <2>2, <2>3, <4>1, EmptySeq
      <4> QED  BY <4>1, <4>2 DEF ToSet
    <3> QED  BY <2>2, <3>1
  <2>5. Chosen(list, id) = kept[1]
    BY <1>1 DEF Chosen
  <2> HIDE DEF kept
  <2> QED  BY <2>4, <2>5 DEF ListInv
<1>2. CASE id \notin {list[i].id : i \in DOMAIN list}
  <2>1. Chosen(list, id) = Default
    BY <1>2 DEF Chosen
  <2>2. IsList(<<Default>>)
    BY ListsAssumption DEF ListsAssumption
  <2>3. IsWorkflow(Default)
    BY <2>2 DEF IsList, ToSet
  <2> QED  BY <1>2, <2>1, <2>3 DEF ToSet
<1> QED  BY <1>1, <1>2

\* The selected workflow is chosen so, before a step and after it.
LEMMA SelectedIsChosen ==
  Selected = Chosen(workflows, selected) /\ Selected' = Chosen(workflows', selected')
BY DEF Selected, Chosen, WorkflowIds

\* What the gateway answers is such a list.
LEMMA ListsFacts ==
  ASSUME NEW list, IsList(list)
  PROVE  ListInv(list)
<1>1. \A v, w \in ToSet(list) : v.id = w.id => v = w
  BY DEF IsList, ToSet
<1> QED  BY <1>1 DEF IsList, ListInv

\* A workflow is left out.
LEMMA ShorterList ==
  ASSUME NEW list, ListInv(list), NEW some
  PROVE  ListInv(Filter(list, some)) /\ ToSet(Filter(list, some)) = ToSet(list) \cap some
<1> DEFINE kept == Filter(list, some)
<1>1. kept \in Seq(ToSet(list)) /\ ToSet(kept) = ToSet(list) \cap some
  BY FilterFacts DEF ListInv
<1> HIDE DEF kept
<1>2. kept \in Seq(ToSet(kept))
  BY <1>1, SeqOfElements
<1> QED  BY <1>1, <1>2 DEF ListInv, kept

\* A workflow is added under a new id.
LEMMA LongerList ==
  ASSUME NEW list, ListInv(list), NEW w, IsWorkflow(w), \A v \in ToSet(list) : v.id # w.id
  PROVE  ListInv(Append(list, w)) /\ ToSet(Append(list, w)) = ToSet(list) \cup {w}
BY AppendElements DEF ListInv

\* The workflows with one id are replaced.
LEMMA OnChangeFacts ==
  ASSUME ListInv(workflows), NEW changed, IsWorkflow(changed), OnChange(changed)
  PROVE  /\ ListInv(workflows')
         /\ WorkflowIds' = WorkflowIds
         /\ changed.id \in WorkflowIds => changed \in ToSet(workflows')
<1> DEFINE n == Len(workflows)
           new(i) == IF workflows[i].id = changed.id THEN changed ELSE workflows[i]
           S == ToSet(workflows) \cup {changed}
<1>1. n \in Nat /\ DOMAIN workflows = 1 .. n /\ \A i \in 1 .. n : workflows[i] \in ToSet(workflows)
  BY LenProperties DEF ListInv, ToSet
<1>2. workflows' = [i \in 1 .. n |-> new(i)]
  BY <1>1 DEF OnChange
<1>3. workflows' \in [1 .. n -> S]
  BY <1>1, <1>2
<1>4. workflows' \in Seq(S) /\ DOMAIN workflows' = 1 .. n /\ \A i \in 1 .. n : workflows'[i] = new(i)
  BY <1>1, <1>2, <1>3
<1> HIDE DEF n
<1>5. workflows' \in Seq(ToSet(workflows'))
  BY <1>4, SeqOfElements
<1>6. \A w \in ToSet(workflows') : \E i \in 1 .. n : w = new(i)
  BY <1>4 DEF ToSet
<1>7. \A w \in ToSet(workflows') : IsWorkflow(w)
  BY <1>1, <1>6 DEF ListInv
<1>8. \A v, w \in ToSet(workflows') : v.id = w.id => v = w
  BY <1>1, <1>6 DEF ListInv
<1>9. WorkflowIds' = WorkflowIds
  BY <1>1, <1>4 DEF WorkflowIds
<1>10. changed.id \in WorkflowIds => changed \in ToSet(workflows')
  BY <1>1, <1>4 DEF WorkflowIds, ToSet
<1> QED  BY <1>5, <1>7, <1>8, <1>9, <1>10 DEF ListInv

\* The canvas is that of the selected workflow or follows none.
EditorInv ==
  /\ ListInv(workflows)
  /\ nodes \in Seq(ToSet(nodes)) /\ edges \in Seq(ToSet(edges))
  /\ selected # Nothing
  /\ origin = Nothing \/ (origin = selected /\ selected \in WorkflowIds)
  /\ NothingDrawnIsLost

\* The editor starts with the default workflow, which is selected.
LEMMA EditorInitInv == EditorInit => EditorInv
<1> SUFFICES ASSUME EditorInit PROVE EditorInv
  OBVIOUS
<1>1. IsList(<<Default>>) /\ ToSet(<<Default>>) = {Default}
  BY ListsAssumption DEF ListsAssumption, ToSet
<1>2. ListInv(workflows) /\ Default \in ToSet(workflows)
  BY <1>1, ListsFacts DEF EditorInit
<1>3. IsWorkflow(Default)
  BY <1>2 DEF ListInv
<1>4. Selected = Default
  BY <1>2, SelectedIsChosen, ChosenFacts DEF EditorInit
<1>5. selected \in WorkflowIds
  BY <1>2 DEF EditorInit, WorkflowIds, ToSet
<1> QED  BY <1>2, <1>3, <1>4, <1>5 DEF EditorInit, EditorInv, NothingDrawnIsLost, IsWorkflow

\* An edit: what the canvas has afterwards is in what was reported.
LEMMA EditInv ==
  ASSUME EditorInv, UNCHANGED listVars,
         NEW changed, IsWorkflow(changed), changed.id = Selected.id, OnChange(changed),
         nodes' \in Seq(ToSet(nodes')), edges' \in Seq(ToSet(edges')),
         shown /\ origin = selected =>
           /\ ToSet(nodes') \subseteq ToSet(changed.nodes)
           /\ ToSet(edges') \subseteq ToSet(changed.edges)
  PROVE  EditorInv'
<1>1. /\ selected' = selected /\ shown' = shown /\ origin' = origin
      /\ ListInv(workflows) /\ selected # Nothing
  BY DEF listVars, EditorInv
<1>2. /\ ListInv(workflows') /\ WorkflowIds' = WorkflowIds
      /\ changed.id \in WorkflowIds => changed \in ToSet(workflows')
  BY <1>1, OnChangeFacts
<1>3. ASSUME shown, origin = selected PROVE Selected' = changed
  <2>1. selected \in WorkflowIds
    BY <1>1, <1>3 DEF EditorInv
  <2>2. PICK w \in ToSet(workflows) : w.id = selected
    BY <2>1 DEF WorkflowIds, ToSet
  <2>3. Selected.id = selected
    BY <1>1, <2>2, SelectedIsChosen, ChosenFacts
  <2>4. changed \in ToSet(workflows') /\ changed.id = selected'
    BY <1>1, <1>2, <2>1, <2>3
  <2> QED  BY <1>2, <2>4, SelectedIsChosen, ChosenFacts
<1>4. NothingDrawnIsLost'
  BY <1>1, <1>3 DEF NothingDrawnIsLost
<1> QED  BY <1>1, <1>2, <1>4 DEF EditorInv

\* What is reported is a workflow.
LEMMA ReportFacts ==
  ASSUME EditorInv, NEW reported, reported \in Seq(ToSet(reported))
  PROVE  LET n == [Selected EXCEPT !.nodes = reported]
             e == [Selected EXCEPT !.edges = reported]
         IN  /\ IsWorkflow(n) /\ n.id = Selected.id /\ n.nodes = reported /\ n.edges = Selected.edges
             /\ IsWorkflow(e) /\ e.id = Selected.id /\ e.edges = reported /\ e.nodes = Selected.nodes
<1>1. IsWorkflow(Selected)
  BY SelectedIsChosen, ChosenFacts DEF EditorInv
<1> QED  BY <1>1 DEF IsWorkflow

\* No edit leaves the invariant.
LEMMA EditStep == EditorInv /\ Edit => EditorInv'
<1> SUFFICES ASSUME EditorInv, Edit PROVE EditorInv'
  OBVIOUS
<1>1. /\ nodes \in Seq(ToSet(nodes)) /\ edges \in Seq(ToSet(edges))
      /\ shown /\ origin = selected =>
           ToSet(nodes) \subseteq ToSet(Selected.nodes) /\ ToSet(edges) \subseteq ToSet(Selected.edges)
  BY DEF EditorInv, NothingDrawnIsLost
<1>2. CASE NodeEvent
  <2>1. /\ nodes' = nodes /\ edges' = edges /\ UNCHANGED listVars
        /\ OnChange([Selected EXCEPT !.nodes = nodes])
    BY <1>2 DEF NodeEvent, OnChangeNodes, canvasVars
  <2> QED  BY <1>1, <2>1, ReportFacts, EditInv
<1>3. CASE EdgeEvent
  <2>1. /\ nodes' = nodes /\ edges' = edges /\ UNCHANGED listVars
        /\ OnChange([Selected EXCEPT !.edges = edges])
    BY <1>3 DEF EdgeEvent, OnChangeEdges, canvasVars
  <2> QED  BY <1>1, <2>1, ReportFacts, EditInv
<1>4. ASSUME NEW source, NEW target, Connect(source, target) PROVE EditorInv'
  <2> DEFINE edge == <<source, target>>
             more == Append(edges, edge)
  <2>1. more \in Seq(ToSet(more)) /\ ToSet(more) = ToSet(edges) \cup {edge}
    BY <1>1, AppendElements
  <2>2. /\ nodes' = nodes /\ UNCHANGED listVars /\ OnChange([Selected EXCEPT !.edges = more])
        /\ edges' = IF edge \in ToSet(edges) THEN edges ELSE more
    BY <1>4 DEF Connect, OnChangeEdges
  <2> HIDE DEF more, edge
  <2> QED  BY <1>1, <2>1, <2>2, ReportFacts, EditInv
<1>5. ASSUME NEW type, Drop(type) PROVE EditorInv'
  <2> DEFINE node == NewNode(nodeIdCounter, type)
             more == Append(nodes, node)
  <2>1. more \in Seq(ToSet(more))
    BY <1>1, AppendElements
  <2>2. /\ nodes' = more /\ edges' = edges /\ UNCHANGED listVars
        /\ OnChange([Selected EXCEPT !.nodes = more])
    BY <1>5 DEF Drop, OnChangeNodes
  <2> HIDE DEF more
  <2> QED  BY <1>1, <2>1, <2>2, ReportFacts, EditInv
<1>6. ASSUME NEW edge, RemoveEdge(edge) PROVE EditorInv'
  <2> DEFINE rest == Filter(edges, ToSet(edges) \ {edge})
  <2>1. rest \in Seq(ToSet(edges)) /\ ToSet(rest) \subseteq ToSet(edges)
    BY <1>1, FilterFacts
  <2>2. /\ edges' = rest /\ nodes' = nodes /\ UNCHANGED listVars
        /\ OnChange([Selected EXCEPT !.edges = edges])
    BY <1>6 DEF RemoveEdge, OnChangeEdges
  <2> HIDE DEF rest
  <2>3. rest \in Seq(ToSet(rest))
    BY <2>1, SeqOfElements
  <2> QED  BY <1>1, <2>1, <2>2, <2>3, ReportFacts, EditInv
<1>7. ASSUME NEW id, RemoveNode(id) PROVE EditorInv'
  <2> DEFINE others == Filter(nodes, {n \in ToSet(nodes) : n.id # id})
             rest == Filter(edges, {e \in ToSet(edges) : id \notin {e[1], e[2]}})
  <2>1. /\ rest \in Seq(ToSet(edges)) /\ ToSet(rest) \subseteq ToSet(edges)
        /\ others \in Seq(ToSet(nodes)) /\ ToSet(others) \subseteq ToSet(nodes)
    BY <1>1, FilterFacts
  <2>2. /\ edges' = rest /\ nodes' = others /\ UNCHANGED listVars
        /\ OnChange([Selected EXCEPT !.nodes = nodes])
    BY <1>7 DEF RemoveNode, OnChangeNodes
  <2> HIDE DEF rest, others
  <2>3. rest \in Seq(ToSet(rest)) /\ others \in Seq(ToSet(others))
    BY <2>1, SeqOfElements
  <2> QED  BY <1>1, <2>1, <2>2, <2>3, ReportFacts, EditInv
<1> QED  BY <1>2, <1>3, <1>4, <1>5, <1>6, <1>7 DEF Edit

\* No other step of the builder leaves the invariant.
LEMMA EditorNextInv == EditorInv /\ [EditorNext]_editorVars => EditorInv'
<1> SUFFICES ASSUME EditorInv, [EditorNext]_editorVars PROVE EditorInv'
  OBVIOUS
<1>1. /\ ListInv(workflows) /\ nodes \in Seq(ToSet(nodes)) /\ edges \in Seq(ToSet(edges))
      /\ selected # Nothing /\ (origin # Nothing => origin = selected /\ selected \in WorkflowIds)
      /\ NothingDrawnIsLost
  BY DEF EditorInv
<1>2. \A id \in WorkflowIds : id # Nothing
  BY <1>1 DEF WorkflowIds, ListInv, ToSet, IsWorkflow
<1>3. ASSUME workflows' = workflows, selected' = selected, origin' = origin, nodes' = nodes,
             edges' = edges, shown' => shown
      PROVE  EditorInv'
  <2>1. Selected' = Selected /\ WorkflowIds' = WorkflowIds
    BY <1>3 DEF Selected, WorkflowIds
  <2> QED  BY <1>1, <1>3, <2>1 DEF EditorInv, NothingDrawnIsLost
<1>4. CASE Load
  <2>1. CASE UNCHANGED <<workflows, selected, origin>>
    BY <1>3, <1>4, <2>1 DEF Load, canvasVars
  <2>2. ASSUME NEW list \in Lists \ {<<>>}, workflows' = list, selected' = list[1].id,
               origin' = Nothing
        PROVE  EditorInv'
    <3>1. IsList(list)
      BY ListsAssumption DEF ListsAssumption
    <3>2. ListInv(list) /\ list \in Seq(ToSet(list)) /\ list # <<>>
      BY <2>2, <3>1, ListsFacts DEF IsList
    <3>3. list[1] \in ToSet(list)
      <4>1. Len(list) \in Nat /\ DOMAIN list = 1 .. Len(list)
        BY <3>2, LenProperties
      <4>2. 1 \in 1 .. Len(list)
        BY <3>2, <4>1, EmptySeq
      <4> QED  BY <4>1, <4>2 DEF ToSet
    <3>4. selected' # Nothing
      BY <2>2, <3>1, <3>3 DEF IsList, IsWorkflow
    <3>5. nodes' = nodes /\ edges' = edges
      BY <1>4 DEF Load, canvasVars
    <3> QED  BY <1>1, <2>2, <3>2, <3>4, <3>5 DEF EditorInv, NothingDrawnIsLost
  <2> QED  BY <1>4, <2>1, <2>2 DEF Load
<1>5. ASSUME NEW id \in WorkflowIds, Select(id) PROVE EditorInv'
  <2>1. /\ workflows' = workflows /\ nodes' = nodes /\ edges' = edges /\ shown' = shown
        /\ selected' = id /\ origin' = IF id = origin THEN origin ELSE Nothing
    BY <1>5 DEF Select, Follows, canvasVars
  <2>2. CASE id = origin
    <3>1. selected' = selected
      BY <1>1, <1>2, <2>1, <2>2
    <3> QED  BY <1>3, <2>1, <2>2, <3>1
  <2>3. CASE id # origin
    BY <1>1, <1>2, <2>1, <2>3 DEF EditorInv, NothingDrawnIsLost
  <2> QED  BY <2>2, <2>3
<1>6. ASSUME NEW id \in WorkflowIds, Delete(id) PROVE EditorInv'
  BY <1>3, <1>6 DEF Delete, canvasVars
<1>7. ASSUME NEW id \in NewIds, Create(id) PROVE EditorInv'
  <2> DEFINE w == [id |-> id, nodes |-> <<>>, edges |-> <<>>, entry |-> Nothing]
  <2>1. /\ id \notin WorkflowIds /\ workflows' = Append(workflows, w) /\ selected' = id
        /\ origin' = Nothing /\ nodes' = nodes /\ edges' = edges
    BY <1>7 DEF Create, canvasVars
  <2>2. id # Nothing
    BY NewIdsAssumption DEF NewIdsAssumption
  <2>3. IsWorkflow(w) /\ w.id = id
    BY <2>2, EmptySeq DEF IsWorkflow
  <2>4. \A v \in ToSet(workflows) : v.id # id
    BY <2>1 DEF WorkflowIds, ToSet
  <2> HIDE DEF w
  <2>5. ListInv(workflows')
    BY <1>1, <2>1, <2>3, <2>4, LongerList
  <2> QED  BY <1>1, <2>1, <2>2, <2>5 DEF EditorInv, NothingDrawnIsLost
<1>8. ASSUME NEW d \in deleting, Deleted(d) PROVE EditorInv'
  <2> DEFINE remaining == Filter(workflows, {w \in ToSet(workflows) : w.id # d[1]})
  <2>1. nodes' = nodes /\ edges' = edges /\ shown' = shown
    BY <1>8 DEF Deleted, canvasVars
  <2>2. CASE UNCHANGED <<workflows, selected, origin>>
    BY <1>3, <2>1, <2>2
  <2>3. ASSUME workflows' = remaining,
               selected' = IF d[2] = d[1] /\ remaining # <<>> THEN remaining[1].id ELSE selected,
               origin' = IF d[1] = origin THEN Nothing ELSE Follows(selected')
        PROVE  EditorInv'
    <3>1. /\ ListInv(remaining)
          /\ ToSet(remaining) = {w \in ToSet(workflows) : w.id # d[1]}
      BY <1>1, ShorterList
    <3> HIDE DEF remaining
    <3>2. remaining # <<>> => remaining[1] \in ToSet(remaining)
      <4> SUFFICES ASSUME remaining # <<>> PROVE remaining[1] \in ToSet(remaining)
        OBVIOUS
      <4>1. remaining \in Seq(ToSet(remaining))
        BY <3>1 DEF ListInv
      <4>2. Len(remaining) \in Nat /\ DOMAIN remaining = 1 .. Len(remaining)
        BY <4>1, LenProperties
      <4>3. 1 \in 1 .. Len(remaining)
        BY <4>1, <4>2, EmptySeq
      <4> QED  BY <4>2, <4>3 DEF ToSet
    <3>3. selected' # Nothing
      BY <1>1, <2>3, <3>1, <3>2 DEF ListInv, IsWorkflow
    <3>4. origin' # Nothing => origin' = origin /\ selected' = origin /\ d[1] # origin
      BY <2>3 DEF Follows
    <3>5. CASE origin' = Nothing
      BY <1>1, <2>1, <2>3, <3>1, <3>3, <3>5 DEF EditorInv, NothingDrawnIsLost
    <3>6. CASE origin' # Nothing
      <4>1. /\ origin' = origin /\ selected' = origin /\ origin = selected
            /\ d[1] # origin /\ selected \in WorkflowIds
        BY <1>1, <3>4, <3>6
      <4>2. PICK w \in ToSet(workflows) : w.id = selected
        BY <4>1 DEF WorkflowIds, ToSet
      <4>3. w \in ToSet(remaining)
        BY <3>1, <4>1, <4>2
      <4>4. Selected = w /\ Selected' = w
        BY <1>1, <2>3, <3>1, <4>1, <4>2, <4>3, SelectedIsChosen, ChosenFacts
      <4>5. selected' \in WorkflowIds'
        BY <2>3, <4>1, <4>2, <4>3 DEF WorkflowIds, ToSet
      <4> QED  BY <1>1, <2>1, <2>3, <3>1, <3>3, <4>1, <4>4, <4>5 DEF EditorInv, NothingDrawnIsLost
    <3> QED  BY <3>5, <3>6
  <2> QED  BY <1>8, <2>2, <2>3 DEF Deleted
<1>9. CASE LeaveBuilder
  BY <1>3, <1>9 DEF LeaveBuilder, appVars, canvasVars
<1>10. CASE ReturnToBuilder
  <2>1. /\ workflows' = workflows /\ selected' = selected
        /\ nodes' = Selected.nodes /\ edges' = Selected.edges
        /\ origin' = IF selected \in WorkflowIds THEN selected ELSE Nothing
    BY <1>10 DEF ReturnToBuilder, appVars
  <2>2. Selected' = Selected /\ WorkflowIds' = WorkflowIds
    BY <2>1 DEF Selected, WorkflowIds
  <2>3. IsWorkflow(Selected)
    BY <1>1, SelectedIsChosen, ChosenFacts
  <2> QED  BY <1>1, <2>1, <2>2, <2>3 DEF EditorInv, NothingDrawnIsLost, IsWorkflow
<1>11. CASE Edit
  BY <1>11, EditStep
<1>12. CASE UNCHANGED editorVars
  BY <1>3, <1>12 DEF editorVars
<1> QED
  BY <1>4, <1>5, <1>6, <1>7, <1>8, <1>9, <1>10, <1>11, <1>12 DEF EditorNext

\* The invariant holds in every reachable state of the editor.
LEMMA EditorInductive == EditorSpec => []EditorInv
BY EditorInitInv, EditorNextInv, PTL DEF EditorSpec

\* Whatever is drawn on the canvas of WorkflowBuilder, which follows the selected
\* workflow since it was mounted, is in that workflow, which App saves and
\* publishes: for any number of nodes, edges and workflows, and although the
\* handlers report what the canvas was before a removal.
THEOREM DrawingsKept == EditorSpec => []NothingDrawnIsLost
<1>1. EditorInv => NothingDrawnIsLost
  BY DEF EditorInv
<1> QED  BY <1>1, EditorInductive, PTL

\* A document the v1 compiler makes of a list has all of its workflows, none of
\* which is empty.
LEMMA FirstDialect ==
  ASSUME NEW list, list \in Seq(ToSet(list)), CompileAllV1(list).ok
  PROVE  /\ Titles(CompileAllV1(list)) = [i \in DOMAIN list |-> list[i].id]
         /\ \A i \in DOMAIN list : list[i].nodes # <<>>
<1> DEFINE built == [i \in DOMAIN list |-> CompileV1(list[i])]
<1>1. CompileAllV1(list) = [ok |-> TRUE, workflows |-> built] /\ ~Failed(built)
  BY DEF CompileAllV1, Thrown
<1>2. ASSUME NEW i \in DOMAIN list PROVE built[i].id = list[i].id /\ list[i].nodes # <<>>
  <2>1. CompileV1(list[i]).ok
    BY <1>1 DEF Failed
  <2>2. list[i].entry \in Ids(list[i]) /\ CompileV1(list[i]).id = list[i].id
    BY <2>1 DEF CompileV1, Thrown
  <2>3. list[i].nodes # <<>>
    BY <2>2 DEF Ids
  <2> QED  BY <2>2, <2>3
<1>3. DOMAIN built = DOMAIN list
  OBVIOUS
<1> HIDE DEF built
<1>4. Titles(CompileAllV1(list)) = [i \in DOMAIN list |-> list[i].id]
  BY <1>1, <1>2, <1>3 DEF Titles
<1> QED  BY <1>2, <1>4

\* A document of the v2 compiler has them all when none is empty.
LEMMA SecondDialect ==
  ASSUME NEW list, list \in Seq(ToSet(list)), CompileAllV2(list).ok,
         \A i \in DOMAIN list : list[i].nodes # <<>>
  PROVE  Titles(CompileAllV2(list)) = [i \in DOMAIN list |-> list[i].id]
<1> DEFINE drawn == Filter(list, {g \in ToSet(list) : g.nodes # <<>>})
           built == [i \in DOMAIN list |-> CompileV2(list[i])]
<1>1. drawn = list
  <2>1. ToSet(list) \subseteq {g \in ToSet(list) : g.nodes # <<>>}
    BY DEF ToSet
  <2> QED  BY <2>1, FilterFacts
<1>2. CompileAllV2(list) = IF Failed(built) THEN Thrown ELSE [ok |-> TRUE, workflows |-> built]
  BY <1>1 DEF CompileAllV2
<1>3. CompileAllV2(list) = [ok |-> TRUE, workflows |-> built] /\ ~Failed(built)
  BY <1>2 DEF Thrown
<1>4. ASSUME NEW i \in DOMAIN list PROVE built[i].id = list[i].id
  <2>1. CompileV2(list[i]).ok
    BY <1>3 DEF Failed
  <2>2. CompileV2(list[i]).id = list[i].id
    BY <2>1 DEF CompileV2, Thrown
  <2> QED  BY <2>2
<1>5. DOMAIN built = DOMAIN list
  OBVIOUS
<1> HIDE DEF built
<1> QED  BY <1>3, <1>4, <1>5 DEF Titles

\* When handlePublish succeeds its two documents name the same workflows in the
\* same order, for any list: what v2 would skip makes v1 fail.
THEOREM DialectsAgree == EditorSpec => []DialectsCoverTheSame
<1>1. EditorInv => DialectsCoverTheSame
  <2> SUFFICES ASSUME EditorInv, Publishes
               PROVE  Titles(CompileAllV1(workflows)) = Titles(CompileAllV2(workflows))
    BY DEF DialectsCoverTheSame
  <2>1. /\ workflows \in Seq(ToSet(workflows))
        /\ CompileAllV1(workflows).ok /\ CompileAllV2(workflows).ok
    BY DEF EditorInv, ListInv, Publishes
  <2> QED  BY <2>1, FirstDialect, SecondDialect
<1> QED  BY <1>1, EditorInductive, PTL

-----------------------------------------------------------------------------
\* Graphs.

\* Induction over the natural numbers, from all the smaller ones.
LEMMA Everywhere ==
  ASSUME NEW T, \A n \in Nat : (\A m \in Nat : m < n => m \in T) => n \in T
  PROVE  Nat \subseteq T
<1> DEFINE F == {i \in Nat : i \notin T}
<1>1. SUFFICES ASSUME F # {} PROVE FALSE
  OBVIOUS
<1>2. PICK i \in F : \A j \in F : ~(j < i)
  <2> F \in SUBSET Nat
    OBVIOUS
  <2> HIDE DEF F
  <2> QED  BY <1>1, LeastElement
<1> QED  BY <1>2

\* What comes of applying a step n times to a base.
Iterated(h, S, base, step, n) ==
  /\ h \in [0 .. n -> S]
  /\ h[0] = base
  /\ \A i \in 1 .. n : h[i] = step[h[i - 1]]

\* A step can be applied any number of times.
LEMMA Iterates ==
  ASSUME NEW S, NEW base \in S, NEW step \in [S -> S], NEW n \in Nat
  PROVE  \E h : Iterated(h, S, base, step, n)
<1> DEFINE Up(k, h) == h[0] = base /\ \A i \in 1 .. k : h[i] = step[h[i - 1]]
           T == {k \in Nat : \E h \in [0 .. k -> S] : Up(k, h)}
<1>1. 0 \in T
  <2> DEFINE h == [i \in 0 .. 0 |-> base]
  <2>1. h \in [0 .. 0 -> S] /\ Up(0, h)
    OBVIOUS
  <2> HIDE DEF h, Up
  <2> QED  BY <2>1
<1>2. ASSUME NEW k \in 1 .. n, k - 1 \in T PROVE k \in T
  <2>1. PICK g \in [0 .. k - 1 -> S] : Up(k - 1, g)
    BY <1>2
  <2>2. g[k - 1] \in S /\ step[g[k - 1]] \in S
    BY <2>1
  <2> DEFINE h == [i \in 0 .. k |-> IF i = k THEN step[g[k - 1]] ELSE g[i]]
  <2>3. h \in [0 .. k -> S]
    BY <2>1, <2>2
  <2>4. h[k] = step[g[k - 1]] /\ \A i \in 0 .. k - 1 : h[i] = g[i]
    OBVIOUS
  <2> HIDE DEF h
  <2>5. h[0] = base
    BY <2>1, <2>4
  <2>6. ASSUME NEW i \in 1 .. k PROVE h[i] = step[h[i - 1]]
    <3>1. CASE i = k
      BY <2>4, <3>1
    <3>2. CASE i # k
      <4>1. i \in 1 .. k - 1 /\ i \in 0 .. k - 1 /\ i - 1 \in 0 .. k - 1
        BY <3>2
      <4> QED  BY <2>1, <2>4, <4>1
    <3> QED  BY <3>1, <3>2
  <2>7. Up(k, h)
    BY <2>5, <2>6
  <2> HIDE DEF Up
  <2> QED  BY <2>3, <2>7
<1>3. 0 .. n \subseteq T
  <2> HIDE DEF T
  <2> QED  BY <1>1, <1>2, UpTo
<1>4. n \in T
  BY <1>3
<1> HIDE DEF Up
<1>5. PICK h \in [0 .. n -> S] : Up(n, h)
  BY <1>4
<1> QED  BY <1>5 DEF Up, Iterated

\* Where the pairs lead from a set in one step.
Out(pairs, s) == {p[2] : p \in {q \in pairs : q[1] \in s}}

\* A set which the pairs do not lead out of.
ClosedUnder(pairs, s) == \A p \in pairs : p[1] \in s => p[2] \in s

\* After contains what the pairs lead to from x, goes on along them, and nothing
\* else: it lies in every set of which that is true.
LEMMA AfterFacts ==
  ASSUME NEW pairs, IsFiniteSet(pairs), NEW x
  PROVE  /\ \A p \in pairs : p[1] = x => p[2] \in After(x, pairs)
         /\ ClosedUnder(pairs, After(x, pairs))
         /\ \A s : ClosedUnder(pairs, s) /\ Out(pairs, {x}) \subseteq s
                     => After(x, pairs) \subseteq s
<1> DEFINE n == Cardinality(pairs)
           V == {p[2] : p \in pairs}
           S == SUBSET V
           step == [s \in S |-> s \cup Out(pairs, s)]
<1>1. n \in Nat
  BY FS_CardinalityType
<1>2. IsFiniteSet(V) /\ Cardinality(V) <= n
  <2> DEFINE f == [p \in pairs |-> p[2]]
  <2>1. f \in Surjection(pairs, V)
    BY DEF Surjection
  <2> HIDE DEF f, V
  <2> QED  BY <2>1, FS_Surjection
<1> HIDE DEF n
<1>3. \A s : Out(pairs, s) \in S
  BY DEF Out
<1>4. step \in [S -> S] /\ Out(pairs, {x}) \in S
  BY <1>3
<1>5. PICK h \in [0 .. n -> S] : h[0] = Out(pairs, {x}) /\ \A i \in 1 .. n : h[i] = step[h[i - 1]]
  <2> HIDE DEF S, step
  <2>1. \E r : Iterated(r, S, Out(pairs, {x}), step, n)
    BY <1>1, <1>4, Iterates
  <2> QED  BY <2>1 DEF Iterated
<1>6. \A i \in 1 .. n : h[i] = h[i - 1] \cup Out(pairs, h[i - 1])
  <2>1. \A i \in 1 .. n : i - 1 \in 0 .. n /\ h[i] = step[h[i - 1]]
    <3> HIDE DEF S, step
    <3> QED  BY <1>1, <1>5
  <2>2. \A i \in 0 .. n : h[i] \in S
    BY <1>5
  <2> HIDE DEF S, V
  <2> QED  BY <2>1, <2>2
<1> DEFINE Reaches(r) ==
      r = [i \in 0 .. n |-> IF i = 0 THEN Out(pairs, {x}) ELSE r[i - 1] \cup Out(pairs, r[i - 1])]
           reach == CHOOSE r : Reaches(r)
<1>7. Reaches(h)
  <2>1. \A i \in 0 .. n : i # 0 => i \in 1 .. n
    BY <1>1
  <2> HIDE DEF V, S, step
  <2> QED  BY <1>5, <1>6, <2>1
<1>8. Reaches(reach)
  <2> HIDE DEF Reaches
  <2> QED  BY <1>7
<1>9. After(x, pairs) = reach[n]
  BY DEF After, Out, n
<1>10. /\ reach[0] = Out(pairs, {x})
       /\ \A i \in 1 .. n : reach[i] = reach[i - 1] \cup Out(pairs, reach[i - 1])
  <2> HIDE DEF reach
  <2>1. \A i \in 0 .. n : i \in 1 .. n => i # 0
    BY <1>1
  <2>2. 0 \in 0 .. n /\ \A i \in 1 .. n : i \in 0 .. n
    BY <1>1
  <2> QED  BY <1>8, <2>1, <2>2
<1> HIDE DEF reach
<1>11. 0 \in 0 .. n /\ n \in 0 .. n /\ \A i \in 1 .. n : i \in 0 .. n /\ i - 1 \in 0 .. n
  BY <1>1
<1>12. Out(pairs, {x}) \subseteq reach[n]
  <2> DEFINE T == {i \in 0 .. n : Out(pairs, {x}) \subseteq reach[i]}
  <2> HIDE DEF V, S, step
  <2>1. 0 \in T
    BY <1>10, <1>11
  <2>2. \A i \in 1 .. n : i - 1 \in T => i \in T
    BY <1>10, <1>11
  <2>3. 0 .. n \subseteq T
    <3> HIDE DEF T
    <3> QED  BY <1>1, <2>1, <2>2, UpTo
  <2> QED  BY <1>11, <2>3
<1>13. ASSUME NEW s, ClosedUnder(pairs, s), Out(pairs, {x}) \subseteq s PROVE reach[n] \subseteq s
  <2> DEFINE T == {i \in 0 .. n : reach[i] \subseteq s}
  <2> HIDE DEF V, S, step
  <2>1. 0 \in T
    BY <1>10, <1>11, <1>13
  <2>2. ASSUME NEW i \in 1 .. n, i - 1 \in T PROVE i \in T
    <3>1. Out(pairs, reach[i - 1]) \subseteq s
      BY <1>13, <2>2 DEF Out, ClosedUnder
    <3> QED  BY <1>10, <1>11, <2>2, <3>1
  <2>3. 0 .. n \subseteq T
    <3> HIDE DEF T
    <3> QED  BY <1>1, <2>1, <2>2, UpTo
  <2> QED  BY <1>11, <2>3
<1>14. ClosedUnder(pairs, reach[n])
  <2> DEFINE T == {i \in 0 .. n : /\ reach[i] \in S
                                  /\ ClosedUnder(pairs, reach[i]) \/ Cardinality(reach[i]) > i}
  <2>1. 0 \in T
    <3>1. CASE reach[0] = {}
      BY <3>1, <1>1 DEF ClosedUnder
    <3>2. CASE reach[0] # {}
      <4>1. reach[0] \in S
        BY <1>3, <1>10
      <4>2. IsFiniteSet(reach[0])
        BY <1>2, <4>1, FS_Subset
      <4>3. Cardinality(reach[0]) \in Nat /\ Cardinality(reach[0]) # 0
        BY <3>2, <4>2, FS_CardinalityType, FS_EmptySet
      <4> QED  BY <1>1, <4>1, <4>3
    <3> QED  BY <3>1, <3>2
  <2>2. ASSUME NEW i \in 1 .. n, i - 1 \in T PROVE i \in T
    <3> DEFINE old == reach[i - 1]
               new == reach[i]
    <3>1. i \in 0 .. n /\ old \in S /\ new = old \cup Out(pairs, old)
      BY <1>1, <1>10, <2>2
    <3>2. new \in S
      BY <1>3, <3>1
    <3>3. CASE ClosedUnder(pairs, old)
      <4>1. new = old
        BY <3>1, <3>3 DEF ClosedUnder, Out
      <4> QED  BY <3>1, <3>2, <3>3, <4>1
    <3>4. CASE ~ClosedUnder(pairs, old)
      <4>1. Cardinality(old) > i - 1
        BY <2>2, <3>4
      <4>2. IsFiniteSet(new)
        BY <1>2, <3>2, FS_Subset
      <4>3. old \in SUBSET new /\ old # new
        BY <3>1, <3>4 DEF ClosedUnder, Out
      <4>4. /\ IsFiniteSet(old) /\ Cardinality(old) <= Cardinality(new)
            /\ Cardinality(old) # Cardinality(new)
        <5> HIDE DEF old, new
        <5> QED  BY <4>2, <4>3, FS_Subset
      <4>5. Cardinality(old) \in Nat /\ Cardinality(new) \in Nat
        BY <4>2, <4>4, FS_CardinalityType
      <4>6. Cardinality(new) > i
        <5> HIDE DEF old, new
        <5> QED  BY <4>1, <4>4, <4>5
      <4> QED  BY <3>1, <3>2, <4>6
    <3> QED  BY <3>3, <3>4
  <2>3. 0 .. n \subseteq T
    <3> HIDE DEF T
    <3> QED  BY <1>1, <2>1, <2>2, UpTo
  <2>4. n \in T
    BY <1>1, <2>3
  <2>5. reach[n] \in S
    BY <2>4
  <2>6. Cardinality(reach[n]) <= Cardinality(V) /\ IsFiniteSet(reach[n])
    <3> HIDE DEF V
    <3> QED  BY <2>5, <1>2, FS_Subset
  <2>7. Cardinality(reach[n]) \in Nat /\ Cardinality(V) \in Nat
    BY <1>2, <2>6, FS_CardinalityType
  <2>8. ~(Cardinality(reach[n]) > n)
    <3> HIDE DEF V
    <3> QED  BY <1>1, <1>2, <2>6, <2>7
  <2> QED  BY <2>4, <2>8
<1>15. ASSUME NEW p \in pairs, p[1] = x PROVE p[2] \in reach[n]
  BY <1>12, <1>15 DEF Out
<1> QED  BY <1>9, <1>13, <1>14, <1>15

-----------------------------------------------------------------------------
\* The search for a cycle: its recursion defines a function.

\* One step of Through.
Stepped(search, id, s) ==
  IF s.found THEN s
  ELSE IF id \notin s.visited THEN search[id][s]
  ELSE [s EXCEPT !.found = id \in s.recStack]

\* The first n steps of Through.
Visits(h, search, ids, marks, n) ==
  h = [i \in 0 .. n |-> IF i = 0 THEN marks ELSE Stepped(search, ids[i], h[i - 1])]

\* The recursion of Through defines a function.
LEMMA ThroughDefined ==
  ASSUME NEW search, NEW ids, NEW marks, NEW n \in Nat
  PROVE  \E h : Visits(h, search, ids, marks, n)
<1> DEFINE T == {k \in Nat : \E h : Visits(h, search, ids, marks, k)}
<1>1. 0 \in T
  <2> DEFINE h == [i \in 0 .. 0 |-> marks]
  <2>1. h = [i \in 0 .. 0 |-> IF i = 0 THEN marks ELSE Stepped(search, ids[i], h[i - 1])]
    <3> \A i \in 0 .. 0 : i = 0
      OBVIOUS
    <3> QED  OBVIOUS
  <2> HIDE DEF h
  <2> QED  BY <2>1 DEF Visits
<1>2. ASSUME NEW k \in 1 .. n, k - 1 \in T PROVE k \in T
  <2>1. PICK r : Visits(r, search, ids, marks, k - 1)
    BY <1>2
  <2> DEFINE last == Stepped(search, ids[k], r[k - 1])
             h == [i \in 0 .. k |-> IF i = k THEN last ELSE r[i]]
  <2>2. h[k] = last /\ DOMAIN h = 0 .. k /\ h = [i \in 0 .. k |-> h[i]]
    OBVIOUS
  <2>3. \A i \in 0 .. k - 1 : h[i] = r[i]
    OBVIOUS
  <2> HIDE DEF h
  <2>4. ASSUME NEW i \in 0 .. k
        PROVE  h[i] = IF i = 0 THEN marks ELSE Stepped(search, ids[i], h[i - 1])
    <3>1. CASE i = k
      <4>1. i # 0 /\ i - 1 \in 0 .. k - 1
        BY <3>1
      <4> QED  BY <2>2, <2>3, <3>1, <4>1
    <3>2. CASE i # k
      <4>1. i \in 0 .. k - 1
        BY <3>2
      <4>2. r[i] = IF i = 0 THEN marks ELSE Stepped(search, ids[i], r[i - 1])
        BY <2>1, <4>1 DEF Visits
      <4>3. i # 0 => i - 1 \in 0 .. k - 1
        BY <4>1
      <4> QED  BY <2>3, <4>1, <4>2, <4>3
    <3> QED  BY <3>1, <3>2
  <2>5. Visits(h, search, ids, marks, k)
    BY <2>2, <2>4 DEF Visits
  <2> QED  BY <2>5
<1>3. 0 .. n \subseteq T
  <2> HIDE DEF T
  <2> QED  BY <1>1, <1>2, UpTo
<1>4. n \in T
  BY <1>3
<1> QED  BY <1>4

\* What Through yields is the last of marks each of which comes of the one before.
LEMMA ThroughFacts ==
  ASSUME NEW search, NEW ids, NEW marks, Len(ids) \in Nat
  PROVE  \E h : /\ h[0] = marks
                /\ \A i \in 1 .. Len(ids) : h[i] = Stepped(search, ids[i], h[i - 1])
                /\ Through(search, ids, marks) = h[Len(ids)]
<1> DEFINE n == Len(ids)
           h == CHOOSE r : Visits(r, search, ids, marks, n)
<1>1. Visits(h, search, ids, marks, n)
  BY ThroughDefined
<1>2. Through(search, ids, marks) = h[n]
  BY DEF Through, Visits, Stepped
<1> HIDE DEF h
<1>3. 0 \in 0 .. n /\ \A i \in 1 .. n : i # 0 /\ i \in 0 .. n
  OBVIOUS
<1>4. h[0] = marks /\ \A i \in 1 .. n : h[i] = Stepped(search, ids[i], h[i - 1])
  BY <1>1, <1>3 DEF Visits
<1> QED  BY <1>2, <1>4

\* A graph as it can be drawn: an edge begins at a node.
IsDrawn(g) ==
  /\ g.nodes \in Seq(ToSet(g.nodes))
  /\ g.edges \in Seq(ToSet(g.edges))
  /\ \A e \in ToSet(g.edges) : e[1] \in Ids(g)

\* The values of a sequence-like function are finitely many.
LEMMA FiniteRange ==
  ASSUME NEW S, NEW n \in Nat, NEW f \in [1 .. n -> S]
  PROVE  IsFiniteSet(Range(f))
<1>1. f \in Surjection(1 .. n, Range(f))
  BY DEF Surjection, Range
<1>2. IsFiniteSet(1 .. n)
  BY FS_Interval
<1> QED  BY <1>1, <1>2, FS_Surjection

\* It speaks of finitely many ids, and has finitely many edges.
LEMMA PlacesFinite ==
  ASSUME NEW g, IsDrawn(g)
  PROVE  IsFiniteSet(Places(g)) /\ IsFiniteSet(ToSet(g.edges))
<1> DEFINE m == Len(g.nodes)
           n == Len(g.edges)
           ids == [i \in 1 .. m |-> g.nodes[i].id]
           from == [i \in 1 .. n |-> g.edges[i][1]]
           to == [i \in 1 .. n |-> g.edges[i][2]]
           drawn == [i \in 1 .. n |-> g.edges[i]]
<1>1. m \in Nat /\ n \in Nat /\ DOMAIN g.nodes = 1 .. m /\ DOMAIN g.edges = 1 .. n
  BY LenProperties DEF IsDrawn
<1>2. /\ ids \in [1 .. m -> Range(ids)] /\ from \in [1 .. n -> Range(from)]
      /\ to \in [1 .. n -> Range(to)] /\ drawn \in [1 .. n -> Range(drawn)]
  BY DEF Range
<1>3. Ids(g) = Range(ids) /\ ToSet(g.edges) = Range(drawn)
  BY <1>1 DEF Range, Ids, ToSet
<1>4. UNION {{e[1], e[2]} : e \in ToSet(g.edges)} = Range(from) \cup Range(to)
  <2>1. ToSet(g.edges) = {g.edges[i] : i \in 1 .. n}
    BY <1>1 DEF ToSet
  <2>2. Range(from) = {e[1] : e \in ToSet(g.edges)}
    <3> HIDE DEF n
    <3> QED  BY <2>1 DEF Range
  <2>3. Range(to) = {e[2] : e \in ToSet(g.edges)}
    <3> HIDE DEF n
    <3> QED  BY <2>1 DEF Range
  <2> HIDE DEF from, to
  <2> QED  BY <2>2, <2>3
<1> HIDE DEF ids, from, to, drawn, m, n
<1>5. /\ IsFiniteSet(Range(ids)) /\ IsFiniteSet(Range(from))
      /\ IsFiniteSet(Range(to)) /\ IsFiniteSet(Range(drawn))
  BY <1>1, <1>2, FiniteRange
<1>6. IsFiniteSet(Range(from) \cup Range(to))
  BY <1>5, FS_Union
<1>7. IsFiniteSet(Range(ids) \cup (Range(from) \cup Range(to)))
  BY <1>5, <1>6, FS_Union
<1> QED  BY <1>3, <1>4, <1>5, <1>7 DEF Places

\* The targets of a node are where its edges lead to.
LEMMA TargetsFacts ==
  ASSUME NEW g, IsDrawn(g), NEW id
  PROVE  /\ Len(Targets(g, id)) \in Nat
         /\ \A i \in 1 .. Len(Targets(g, id)) : Targets(g, id)[i] \in Places(g)
         /\ {Targets(g, id)[i] : i \in 1 .. Len(Targets(g, id))} = Out(ToSet(g.edges), {id})
<1> DEFINE E == ToSet(g.edges)
           drawn == Filter(g.edges, {e \in E : e[1] = id})
<1>1. drawn \in Seq(E) /\ ToSet(drawn) = {e \in E : e[1] = id}
  BY FilterFacts DEF IsDrawn
<1> HIDE DEF drawn
<1>2. Len(drawn) \in Nat /\ DOMAIN drawn = 1 .. Len(drawn)
  BY <1>1, LenProperties
<1>3. Targets(g, id) = [i \in 1 .. Len(drawn) |-> drawn[i][2]]
  BY <1>2 DEF Targets, EndsOf, drawn
<1>4. Len(Targets(g, id)) = Len(drawn)
  BY <1>2, <1>3
<1>5. ToSet(drawn) = {drawn[i] : i \in 1 .. Len(drawn)}
  BY <1>2 DEF ToSet
<1>6. {Targets(g, id)[i] : i \in 1 .. Len(drawn)} = {e[2] : e \in ToSet(drawn)}
  BY <1>3, <1>5
<1>7. {e[2] : e \in ToSet(drawn)} = Out(E, {id})
  BY <1>1 DEF Out
<1>8. Out(E, {id}) \subseteq Places(g)
  BY DEF Out, Places
<1> QED  BY <1>2, <1>4, <1>6, <1>7, <1>8

\* What a call of dfs yields, if calls it makes yield what d says.
Body(g, d) ==
  [here \in Places(g) |-> [s \in Marks(g) |->
     LET entered == [s EXCEPT !.visited = @ \cup {here}, !.recStack = @ \cup {here}]
         left == Through(d, Targets(g, here), entered)
     IN  IF left.found THEN left ELSE [left EXCEPT !.recStack = @ \ {here}]]]

Entered(s, here) == [s EXCEPT !.visited = @ \cup {here}, !.recStack = @ \cup {here}]

\* A call leaves marked what was marked.
Searches(g) ==
  {d \in [Places(g) -> [Marks(g) -> Marks(g)]] :
     \A here \in Places(g), s \in Marks(g) : s.visited \subseteq d[here][s].visited}

\* Two searches do not differ in calls that leave the marks and start at a new node.
SameBeyond(g, d, e, marks) ==
  \A id \in Places(g), s \in Marks(g) :
    marks.visited \subseteq s.visited /\ id \notin s.visited => d[id][s] = e[id][s]

\* Going through ids unmarks none either, and depends on nothing but the calls made.
LEMMA ThroughSame ==
  ASSUME NEW g, NEW d \in Searches(g), NEW e \in Searches(g),
         NEW ids, Len(ids) \in Nat, \A i \in 1 .. Len(ids) : ids[i] \in Places(g),
         NEW marks \in Marks(g), SameBeyond(g, d, e, marks)
  PROVE  /\ Through(d, ids, marks) = Through(e, ids, marks)
         /\ Through(d, ids, marks) \in Marks(g)
         /\ marks.visited \subseteq Through(d, ids, marks).visited
<1> DEFINE n == Len(ids)
<1>1. PICK h : /\ h[0] = marks
               /\ \A i \in 1 .. n : h[i] = Stepped(d, ids[i], h[i - 1])
               /\ Through(d, ids, marks) = h[n]
  BY ThroughFacts
<1>2. PICK r : /\ r[0] = marks
               /\ \A i \in 1 .. n : r[i] = Stepped(e, ids[i], r[i - 1])
               /\ Through(e, ids, marks) = r[n]
  BY ThroughFacts
<1> DEFINE T == {i \in 0 .. n : /\ h[i] = r[i] /\ h[i] \in Marks(g)
                                /\ marks.visited \subseteq h[i].visited}
<1>3. 0 \in T
  BY <1>1, <1>2
<1>4. ASSUME NEW i \in 1 .. n, i - 1 \in T PROVE i \in T
  <2> DEFINE s == h[i - 1]
  <2>1. s \in Marks(g) /\ r[i - 1] = s /\ marks.visited \subseteq s.visited /\ ids[i] \in Places(g)
    BY <1>4
  <2>2. h[i] = Stepped(d, ids[i], s) /\ r[i] = Stepped(e, ids[i], s)
    BY <1>1, <1>2, <2>1
  <2> HIDE DEF s
  <2>3. CASE s.found
    BY <2>1, <2>2, <2>3 DEF Stepped
  <2>4. CASE ~s.found /\ ids[i] \notin s.visited
    <3>1. h[i] = d[ids[i]][s] /\ r[i] = e[ids[i]][s]
      BY <2>2, <2>4 DEF Stepped
    <3>2. d[ids[i]][s] = e[ids[i]][s]
      BY <2>1, <2>4 DEF SameBeyond
    <3>3. d[ids[i]][s] \in Marks(g) /\ s.visited \subseteq d[ids[i]][s].visited
      BY <2>1 DEF Searches
    <3> QED  BY <2>1, <3>1, <3>2, <3>3
  <2>5. CASE ~s.found /\ ids[i] \in s.visited
    <3> DEFINE on == ids[i] \in s.recStack
    <3>1. on \in BOOLEAN
      OBVIOUS
    <3>2. h[i] = [s EXCEPT !.found = on]
      BY <2>2, <2>5 DEF Stepped
    <3>3. r[i] = h[i]
      BY <2>2, <2>5 DEF Stepped
    <3> HIDE DEF on
    <3>4. h[i] \in Marks(g) /\ h[i].visited = s.visited
      BY <2>1, <3>1, <3>2 DEF Marks
    <3> QED  BY <2>1, <3>3, <3>4
  <2> QED  BY <2>3, <2>4, <2>5
<1>5. 0 .. n \subseteq T
  <2> HIDE DEF T
  <2> QED  BY <1>3, <1>4, UpTo
<1>6. n \in T
  BY <1>5
<1> QED  BY <1>1, <1>2, <1>6

\* Entering a node marks it.
LEMMA EnteredFacts ==
  ASSUME NEW g, NEW here \in Places(g), NEW s \in Marks(g)
  PROVE  /\ Entered(s, here) \in Marks(g)
         /\ Entered(s, here).visited = s.visited \cup {here}
         /\ Entered(s, here).recStack = s.recStack \cup {here}
         /\ Entered(s, here).found = s.found
BY DEF Entered, Marks

\* A call of Body.
LEMMA BodyAt ==
  ASSUME NEW g, NEW d, NEW here \in Places(g), NEW s \in Marks(g)
  PROVE  LET left == Through(d, Targets(g, here), Entered(s, here))
         IN  Body(g, d)[here][s]
               = IF left.found THEN left ELSE [left EXCEPT !.recStack = @ \ {here}]
BY DEF Body, Entered

\* Body makes a search of a search.
LEMMA BodySearches ==
  ASSUME NEW g, IsDrawn(g), NEW d \in Searches(g)
  PROVE  Body(g, d) \in Searches(g)
<1>1. ASSUME NEW here \in Places(g), NEW s \in Marks(g)
      PROVE  Body(g, d)[here][s] \in Marks(g) /\ s.visited \subseteq Body(g, d)[here][s].visited
  <2> DEFINE left == Through(d, Targets(g, here), Entered(s, here))
  <2>1. left \in Marks(g) /\ s.visited \cup {here} \subseteq left.visited
    <3> DEFINE ids == Targets(g, here)
               entered == Entered(s, here)
    <3>1. entered \in Marks(g) /\ entered.visited = s.visited \cup {here}
      BY EnteredFacts
    <3>2. Len(ids) \in Nat /\ \A i \in 1 .. Len(ids) : ids[i] \in Places(g)
      BY TargetsFacts
    <3>3. left = Through(d, ids, entered)
      OBVIOUS
    <3> HIDE DEF ids, entered, left
    <3>4. SameBeyond(g, d, d, entered)
      BY DEF SameBeyond
    <3> QED  BY <3>1, <3>2, <3>3, <3>4, ThroughSame
  <2>2. Body(g, d)[here][s] = IF left.found THEN left ELSE [left EXCEPT !.recStack = @ \ {here}]
    BY BodyAt
  <2> HIDE DEF left
  <2>3. [left EXCEPT !.recStack = @ \ {here}] \in Marks(g)
    BY <2>1 DEF Marks
  <2>4. [left EXCEPT !.recStack = @ \ {here}].visited = left.visited
    BY <2>1 DEF Marks
  <2> QED  BY <2>1, <2>2, <2>3, <2>4
<1>2. /\ Body(g, d) = [here \in Places(g) |-> Body(g, d)[here]]
      /\ \A here \in Places(g) :
           Body(g, d)[here] = [s \in Marks(g) |-> Body(g, d)[here][s]]
  BY DEF Body
<1>3. \A here \in Places(g) : Body(g, d)[here] \in [Marks(g) -> Marks(g)]
  BY <1>1, <1>2
<1>4. Body(g, d) \in [Places(g) -> [Marks(g) -> Marks(g)]]
  BY <1>2, <1>3
<1> QED  BY <1>1, <1>4 DEF Searches

\* How many ids a call may still visit besides its own.
Room(g, here, s) == Cardinality(Places(g) \ (s.visited \cup {here}))

\* A call it makes has less room.
LEMMA LessRoom ==
  ASSUME NEW g, IsDrawn(g), NEW here, NEW s, NEW id \in Places(g), NEW u,
         s.visited \cup {here} \subseteq u.visited, id \notin u.visited
  PROVE  Room(g, here, s) \in Nat /\ Room(g, id, u) \in Nat /\ Room(g, id, u) < Room(g, here, s)
<1> DEFINE old == Places(g) \ (s.visited \cup {here})
           new == Places(g) \ (u.visited \cup {id})
<1>1. IsFiniteSet(Places(g))
  BY PlacesFinite
<1>2. old \in SUBSET Places(g) /\ new \in SUBSET old /\ id \in old /\ id \notin new
  OBVIOUS
<1>3. Room(g, here, s) = Cardinality(old) /\ Room(g, id, u) = Cardinality(new)
  BY DEF Room
<1> HIDE DEF old, new
<1>4. IsFiniteSet(old)
  BY <1>1, <1>2, FS_Subset
<1>5. /\ IsFiniteSet(new)
      /\ Cardinality(new) <= Cardinality(old) /\ Cardinality(new) # Cardinality(old)
  BY <1>2, <1>4, FS_Subset
<1>6. Cardinality(new) \in Nat /\ Cardinality(old) \in Nat
  BY <1>4, <1>5, FS_CardinalityType
<1> QED  BY <1>3, <1>5, <1>6

\* The recursion of dfs defines a function: with every level that is unfolded one
\* more id may be visited, so that as many levels as there are ids are enough.
LEMMA DfsDefined ==
  ASSUME NEW g, IsDrawn(g)
  PROVE  \E d : d = Body(g, d)
<1> DEFINE N == Cardinality(Places(g))
           S == Searches(g)
           step == [d \in S |-> Body(g, d)]
           idle == [here \in Places(g) |-> [s \in Marks(g) |-> s]]
<1>1. N \in Nat
  BY PlacesFinite, FS_CardinalityType
<1> HIDE DEF N
<1>2. idle \in S
  BY DEF Searches
<1>3. step \in [S -> S]
  BY BodySearches
<1>4. PICK h : Iterated(h, S, idle, step, N + 2)
  <2> HIDE DEF S, step, idle
  <2> QED  BY <1>1, <1>2, <1>3, Iterates
<1>5. \A k \in 1 .. N + 2 : h[k - 1] \in S /\ h[k] = Body(g, h[k - 1])
  <2>1. h \in [0 .. N + 2 -> S] /\ \A k \in 1 .. N + 2 : h[k] = step[h[k - 1]]
    BY <1>4 DEF Iterated
  <2>2. \A k \in 1 .. N + 2 : k - 1 \in 0 .. N + 2
    BY <1>1
  <2>3. \A k \in 1 .. N + 2 : h[k - 1] \in S
    BY <2>1, <2>2
  <2> HIDE DEF S, idle
  <2> QED  BY <2>1, <2>3
<1>6. \A k \in 0 .. N : h[k + 1] \in S /\ h[k + 2] \in S
  <2>1. h \in [0 .. N + 2 -> S]
    BY <1>4 DEF Iterated
  <2>2. \A k \in 0 .. N : k + 1 \in 0 .. N + 2 /\ k + 2 \in 0 .. N + 2
    BY <1>1
  <2> HIDE DEF S
  <2> QED  BY <2>1, <2>2
<1> DEFINE Alike(k) == \A here \in Places(g), s \in Marks(g) :
                        Room(g, here, s) <= k => h[k + 1][here][s] = h[k + 2][here][s]
           T == {k \in 0 .. N : Alike(k)}
<1>7. ASSUME NEW k \in 0 .. N, k # 0 => k - 1 \in T PROVE k \in T
  <2>1. SUFFICES ASSUME NEW here \in Places(g), NEW s \in Marks(g), Room(g, here, s) <= k
                 PROVE  h[k + 1][here][s] = h[k + 2][here][s]
    OBVIOUS
  <2> DEFINE d == h[k]
             e == h[k + 1]
             ids == Targets(g, here)
             entered == Entered(s, here)
  <2>2. d \in Searches(g) /\ e \in Searches(g) /\ e = Body(g, d) /\ h[k + 2] = Body(g, e)
    <3>1. k + 1 \in 1 .. N + 2 /\ k + 2 \in 1 .. N + 2 /\ (k + 1) - 1 = k /\ (k + 2) - 1 = k + 1
      BY <1>1
    <3> QED  BY <1>5, <3>1
  <2>3. entered \in Marks(g) /\ entered.visited = s.visited \cup {here}
    BY EnteredFacts
  <2>4. ASSUME NEW id \in Places(g), NEW u \in Marks(g),
               entered.visited \subseteq u.visited, id \notin u.visited
        PROVE  d[id][u] = e[id][u]
    <3>1. Room(g, id, u) \in Nat /\ Room(g, here, s) \in Nat /\ Room(g, id, u) < Room(g, here, s)
      BY <2>3, <2>4, LessRoom
    <3>2. k # 0 /\ Room(g, id, u) <= k - 1
      BY <2>1, <3>1
    <3>3. k - 1 \in T /\ (k - 1) + 1 = k /\ (k - 1) + 2 = k + 1
      BY <1>7, <3>2
    <3>4. Alike(k - 1)
      BY <3>3
    <3>5. h[(k - 1) + 1][id][u] = h[(k - 1) + 2][id][u]
      BY <3>2, <3>4
    <3> QED  BY <3>3, <3>5
  <2>5. Len(ids) \in Nat /\ \A i \in 1 .. Len(ids) : ids[i] \in Places(g)
    BY TargetsFacts
  <2>6. Through(d, ids, entered) = Through(e, ids, entered)
    <3> HIDE DEF d, e, ids, entered, S, step, idle, Alike, T
    <3>1. SameBeyond(g, d, e, entered)
      BY <2>4 DEF SameBeyond
    <3> QED  BY <2>2, <2>3, <2>5, <3>1, ThroughSame
  <2>7. Body(g, d)[here][s] = Body(g, e)[here][s]
    <3>1. Body(g, d)[here][s] = LET left == Through(d, ids, entered)
                                IN  IF left.found THEN left
                                    ELSE [left EXCEPT !.recStack = @ \ {here}]
      BY BodyAt
    <3>2. Body(g, e)[here][s] = LET left == Through(e, ids, entered)
                                IN  IF left.found THEN left
                                    ELSE [left EXCEPT !.recStack = @ \ {here}]
      BY BodyAt
    <3> HIDE DEF d, e, ids, entered
    <3> QED  BY <2>6, <3>1, <3>2
  <2> QED  BY <2>2, <2>7
<1>8. 0 .. N \subseteq T
  <2>1. 0 \in T
    BY <1>1, <1>7
  <2>2. \A k \in 1 .. N : k - 1 \in T => k \in T
    <3>1. \A k \in 1 .. N : k \in 0 .. N
      BY <1>1
    <3> HIDE DEF T
    <3> QED  BY <1>7, <3>1
  <2> HIDE DEF T
  <2> QED  BY <1>1, <2>1, <2>2, UpTo
<1> DEFINE d == h[N + 1]
           e == h[N + 2]
<1>9. d \in S /\ e \in S /\ e = Body(g, d)
  <2>1. N + 2 \in 1 .. N + 2 /\ (N + 2) - 1 = N + 1 /\ N \in 0 .. N
    BY <1>1
  <2> HIDE DEF S
  <2> QED  BY <1>5, <1>6, <2>1
<1>10. ASSUME NEW here \in Places(g), NEW s \in Marks(g) PROVE d[here][s] = e[here][s]
  <2>1. Alike(N)
    BY <1>1, <1>8
  <2>2. Room(g, here, s) <= N
    BY PlacesFinite, FS_Subset DEF Room, N
  <2> QED  BY <2>1, <2>2
<1> HIDE DEF d, e
<1>11. d \in [Places(g) -> [Marks(g) -> Marks(g)]] /\ e \in [Places(g) -> [Marks(g) -> Marks(g)]]
  BY <1>9 DEF Searches
<1>12. d = e
  BY <1>10, <1>11
<1> QED  BY <1>9, <1>12

-----------------------------------------------------------------------------
\* The search for a cycle: what it finds.

\* dfs is a fixed point of its recursion.
LEMMA DfsFixed ==
  ASSUME NEW g, IsDrawn(g)
  PROVE  Dfs(g) = Body(g, Dfs(g))
<1> DEFINE f == CHOOSE d : d = Body(g, d)
<1>1. f = Body(g, f)
  BY DfsDefined
<1>2. Dfs(g) = f
  BY DEF Dfs, Body
<1> QED  BY <1>1, <1>2

\* What lies behind an id, and whether some node lies behind itself.
Behind(g, id) == After(id, ToSet(g.edges))
Cyclic(g) == \E id \in Ids(g) : id \in Behind(g, id)

\* Ids the search is done with.
DoneWith(s) == s.visited \ s.recStack

\* The search is never done with an id on a cycle, nor with one before those that
\* its edges lead to.
Sound(g, s) ==
  /\ s \in Marks(g)
  /\ s.recStack \subseteq s.visited
  /\ \A x \in DoneWith(s) : x \notin Behind(g, x) /\ Out(ToSet(g.edges), {x}) \subseteq DoneWith(s)

\* A call as dfs makes it: what is on the stack leads to the id.
Called(g, here, s) ==
  /\ Sound(g, s) /\ ~s.found
  /\ here \notin s.visited
  /\ \A x \in s.recStack : here \in Behind(g, x)

\* What the call yields: a cycle, or the search is done with the id.
Searched(g, here, s, r) ==
  IF r.found THEN Cyclic(g)
  ELSE /\ Sound(g, r)
       /\ s.visited \cup {here} \subseteq r.visited
       /\ r.recStack = s.recStack

\* Behind, by its two rules, and what lies in every set that obeys them.
LEMMA BehindFacts ==
  ASSUME NEW g, IsDrawn(g), NEW x
  PROVE  /\ Out(ToSet(g.edges), {x}) \subseteq Behind(g, x)
         /\ \A y \in Behind(g, x) : Out(ToSet(g.edges), {y}) \subseteq Behind(g, x)
         /\ \A s : /\ Out(ToSet(g.edges), {x}) \subseteq s
                   /\ \A y \in s : Out(ToSet(g.edges), {y}) \subseteq s
                   => Behind(g, x) \subseteq s
<1> DEFINE E == ToSet(g.edges)
<1>1. IsFiniteSet(E)
  BY PlacesFinite
<1> HIDE DEF E
<1>2. /\ \A p \in E : p[1] = x => p[2] \in After(x, E)
      /\ ClosedUnder(E, After(x, E))
      /\ \A s : ClosedUnder(E, s) /\ Out(E, {x}) \subseteq s => After(x, E) \subseteq s
  BY <1>1, AfterFacts
<1>3. Out(E, {x}) \subseteq After(x, E)
  BY <1>2 DEF Out
<1>4. \A y \in After(x, E) : Out(E, {y}) \subseteq After(x, E)
  BY <1>2 DEF Out, ClosedUnder
<1>5. \A s : (\A y \in s : Out(E, {y}) \subseteq s) => ClosedUnder(E, s)
  BY DEF Out, ClosedUnder
<1> QED  BY <1>2, <1>3, <1>4, <1>5 DEF Behind, E

\* What lies behind itself is a node.
LEMMA CyclicNode ==
  ASSUME NEW g, IsDrawn(g), NEW id, id \in Behind(g, id)
  PROVE  Cyclic(g)
<1>1. id \in Ids(g)
  <2>1. SUFFICES ASSUME id \notin Ids(g) PROVE FALSE
    OBVIOUS
  <2>2. Out(ToSet(g.edges), {id}) = {}
    BY <2>1 DEF Out, IsDrawn
  <2>3. Behind(g, id) \subseteq {}
    BY <2>2, BehindFacts
  <2> QED  BY <2>3
<1> QED  BY <1>1 DEF Cyclic

\* Going through ids that lie behind all that is on the stack finds a cycle or is
\* done with all of them.
LEMMA ThroughCorrect ==
  ASSUME NEW g, IsDrawn(g), NEW d,
         NEW ids, Len(ids) \in Nat, \A i \in 1 .. Len(ids) : ids[i] \in Places(g),
         NEW marks, Sound(g, marks), ~marks.found,
         \A x \in marks.recStack : \A i \in 1 .. Len(ids) : ids[i] \in Behind(g, x),
         \A id \in Places(g), s \in Marks(g) :
           marks.visited \subseteq s.visited /\ Called(g, id, s) => Searched(g, id, s, d[id][s])
  PROVE  LET r == Through(d, ids, marks)
         IN  IF r.found THEN Cyclic(g)
             ELSE /\ Sound(g, r)
                  /\ marks.visited \subseteq r.visited
                  /\ r.recStack = marks.recStack
                  /\ \A i \in 1 .. Len(ids) : ids[i] \in DoneWith(r)
<1> DEFINE n == Len(ids)
           Good(r, k) == IF r.found THEN Cyclic(g)
                         ELSE /\ Sound(g, r)
                              /\ marks.visited \subseteq r.visited
                              /\ r.recStack = marks.recStack
                              /\ \A i \in 1 .. k : ids[i] \in DoneWith(r)
<1>1. PICK h : /\ h[0] = marks
               /\ \A i \in 1 .. n : h[i] = Stepped(d, ids[i], h[i - 1])
               /\ Through(d, ids, marks) = h[n]
  BY ThroughFacts
<1> DEFINE T == {k \in 0 .. n : Good(h[k], k)}
<1>2. 0 \in T
  BY <1>1
<1>3. ASSUME NEW k \in 1 .. n, k - 1 \in T PROVE k \in T
  <2> DEFINE s == h[k - 1]
             r == h[k]
             id == ids[k]
  <2>1. Good(s, k - 1) /\ id \in Places(g) /\ r = Stepped(d, id, s)
    BY <1>1, <1>3
  <2>2. \A x \in marks.recStack : id \in Behind(g, x)
    OBVIOUS
  <2>3. \A i \in 1 .. k : i = k \/ i \in 1 .. k - 1
    OBVIOUS
  <2> HIDE DEF s, r, id
  <2>4. CASE s.found
    BY <2>1, <2>4 DEF Stepped, r
  <2>5. CASE ~s.found /\ id \notin s.visited
    <3>1. r = d[id][s]
      BY <2>1, <2>5 DEF Stepped
    <3>2. Called(g, id, s) /\ s \in Marks(g)
      BY <2>1, <2>2, <2>5 DEF Called, Sound
    <3>3. Searched(g, id, s, r)
      BY <2>1, <2>5, <3>1, <3>2
    <3>4. CASE r.found
      BY <3>3, <3>4 DEF Searched, r
    <3>5. CASE ~r.found
      <4>1. Sound(g, r) /\ s.visited \cup {id} \subseteq r.visited /\ r.recStack = s.recStack
        BY <3>3, <3>5 DEF Searched
      <4>2. id \in DoneWith(r)
        BY <2>1, <2>5, <4>1 DEF Sound, DoneWith
      <4>3. DoneWith(s) \subseteq DoneWith(r)
        BY <4>1 DEF DoneWith
      <4>4. \A i \in 1 .. k : ids[i] \in DoneWith(r)
        BY <2>1, <2>3, <2>5, <4>2, <4>3 DEF id
      <4> QED  BY <2>1, <2>5, <3>5, <4>1, <4>4 DEF r
    <3> QED  BY <3>4, <3>5
  <2>6. CASE ~s.found /\ id \in s.visited /\ id \in s.recStack
    <3>1. Cyclic(g)
      BY <2>1, <2>2, <2>6, CyclicNode
    <3>2. r = [s EXCEPT !.found = TRUE]
      BY <2>1, <2>6 DEF Stepped
    <3>3. r.found
      BY <2>1, <2>6, <3>2 DEF Sound, Marks
    <3> QED  BY <3>1, <3>3 DEF r
  <2>7. CASE ~s.found /\ id \in s.visited /\ id \notin s.recStack
    <3> DEFINE on == id \in s.recStack
    <3>1. r = [s EXCEPT !.found = on] /\ ~on
      BY <2>1, <2>7 DEF Stepped
    <3>2. on = FALSE
      BY <2>7
    <3> HIDE DEF on
    <3>3. r = [s EXCEPT !.found = FALSE] /\ s \in Marks(g) /\ s.found = FALSE
      BY <2>1, <2>7, <3>1, <3>2 DEF Sound, Marks
    <3>4. r = s
      BY <3>3 DEF Marks
    <3>5. id \in DoneWith(r)
      BY <2>7, <3>4 DEF DoneWith
    <3>6. \A i \in 1 .. k : ids[i] \in DoneWith(r)
      BY <2>1, <2>3, <2>7, <3>4, <3>5 DEF id
    <3> QED  BY <2>1, <2>7, <3>4, <3>6 DEF r
  <2> QED  BY <2>4, <2>5, <2>6, <2>7
<1>4. 0 .. n \subseteq T
  <2> HIDE DEF T
  <2> QED  BY <1>2, <1>3, UpTo
<1>5. Good(h[n], n)
  BY <1>4
<1> QED  BY <1>1, <1>5

\* A call does what it should if the calls it makes do.
LEMMA CallCorrect ==
  ASSUME NEW g, IsDrawn(g), NEW d, NEW here \in Places(g), NEW s, Called(g, here, s),
         \A id \in Places(g), u \in Marks(g) :
           s.visited \cup {here} \subseteq u.visited /\ Called(g, id, u)
             => Searched(g, id, u, d[id][u])
  PROVE  Searched(g, here, s, Body(g, d)[here][s])
<1> DEFINE E == ToSet(g.edges)
           ids == Targets(g, here)
           entered == Entered(s, here)
           left == Through(d, ids, entered)
           after == [left EXCEPT !.recStack = @ \ {here}]
<1>1. s \in Marks(g) /\ Sound(g, s) /\ ~s.found /\ here \notin s.visited
      /\ \A x \in s.recStack : here \in Behind(g, x)
  BY DEF Called, Sound
<1>2. Body(g, d)[here][s] = IF left.found THEN left ELSE after
  BY <1>1, BodyAt
<1>3. /\ Len(ids) \in Nat /\ \A i \in 1 .. Len(ids) : ids[i] \in Places(g)
      /\ {ids[i] : i \in 1 .. Len(ids)} = Out(E, {here})
  BY TargetsFacts
<1>4. /\ entered \in Marks(g) /\ entered.visited = s.visited \cup {here}
      /\ entered.recStack = s.recStack \cup {here} /\ entered.found = s.found
  BY <1>1, EnteredFacts
<1> HIDE DEF ids, entered
<1>5. Sound(g, entered) /\ ~entered.found
  <2>1. DoneWith(entered) = DoneWith(s)
    BY <1>1, <1>4 DEF DoneWith, Sound
  <2> QED  BY <1>1, <1>4, <2>1 DEF Sound
<1>6. ASSUME NEW x \in entered.recStack, NEW i \in 1 .. Len(ids) PROVE ids[i] \in Behind(g, x)
  <2>1. ids[i] \in Out(E, {here})
    BY <1>3
  <2>2. here = x \/ here \in Behind(g, x)
    BY <1>1, <1>4
  <2> QED  BY <2>1, <2>2, BehindFacts
<1>7. IF left.found THEN Cyclic(g)
      ELSE /\ Sound(g, left)
           /\ entered.visited \subseteq left.visited
           /\ left.recStack = entered.recStack
           /\ \A i \in 1 .. Len(ids) : ids[i] \in DoneWith(left)
  BY <1>3, <1>4, <1>5, <1>6, ThroughCorrect
<1> HIDE DEF left
<1>8. CASE left.found
  BY <1>2, <1>7, <1>8 DEF Searched
<1>9. CASE ~left.found
  <2>1. /\ left \in Marks(g) /\ left.recStack = s.recStack \cup {here}
        /\ s.visited \cup {here} \subseteq left.visited /\ Sound(g, left)
    BY <1>4, <1>7, <1>9 DEF Sound
  <2>2. Out(E, {here}) \subseteq DoneWith(left)
    BY <1>3, <1>7, <1>9
  <2>3. here \notin DoneWith(left)
    BY <2>1 DEF DoneWith
  <2>4. Behind(g, here) \subseteq DoneWith(left)
    BY <2>1, <2>2, BehindFacts DEF Sound
  <2>5. /\ after \in Marks(g) /\ after.visited = left.visited
        /\ after.recStack = left.recStack \ {here} /\ after.found = left.found
    BY <2>1 DEF Marks
  <2> HIDE DEF after
  <2>6. after.recStack = s.recStack
    BY <1>1, <2>1, <2>5 DEF Sound
  <2>7. DoneWith(after) = DoneWith(left) \cup {here}
    BY <2>1, <2>5 DEF DoneWith
  <2>8. Sound(g, after)
    BY <2>1, <2>2, <2>3, <2>4, <2>5, <2>7 DEF Sound
  <2> QED  BY <1>2, <1>9, <2>1, <2>5, <2>6, <2>8 DEF Searched
<1> QED  BY <1>8, <1>9

\* Every call does what it should: the calls it makes have less room.
LEMMA DfsCorrect ==
  ASSUME NEW g, IsDrawn(g), NEW here \in Places(g), NEW s \in Marks(g), Called(g, here, s)
  PROVE  Searched(g, here, s, Dfs(g)[here][s])
<1> DEFINE d == Dfs(g)
           T == {k \in Nat : \A id \in Places(g), u \in Marks(g) :
                   Room(g, id, u) = k /\ Called(g, id, u) => Searched(g, id, u, d[id][u])}
<1>1. d = Body(g, d)
  BY DfsFixed
<1> HIDE DEF d
<1>2. ASSUME NEW k \in Nat, \A m \in Nat : m < k => m \in T PROVE k \in T
  <2>1. SUFFICES ASSUME NEW id \in Places(g), NEW u \in Marks(g),
                        Room(g, id, u) = k, Called(g, id, u)
                 PROVE  Searched(g, id, u, d[id][u])
    OBVIOUS
  <2>2. ASSUME NEW id2 \in Places(g), NEW u2 \in Marks(g),
               u.visited \cup {id} \subseteq u2.visited, Called(g, id2, u2)
        PROVE  Searched(g, id2, u2, d[id2][u2])
    <3>1. id2 \notin u2.visited
      BY <2>2 DEF Called
    <3>2. Room(g, id2, u2) \in Nat /\ Room(g, id2, u2) < k
      BY <2>1, <2>2, <3>1, LessRoom
    <3>3. Room(g, id2, u2) \in T
      BY <1>2, <3>2
    <3> QED  BY <2>2, <3>3
  <2>3. Searched(g, id, u, Body(g, d)[id][u])
    BY <2>1, <2>2, CallCorrect
  <2> QED  BY <1>1, <2>3
<1>3. Nat \subseteq T
  <2> HIDE DEF T
  <2> QED  BY <1>2, Everywhere
<1>4. Room(g, here, s) \in Nat
  BY PlacesFinite, FS_Subset, FS_CardinalityType DEF Room
<1>5. Room(g, here, s) \in T
  BY <1>3, <1>4
<1> QED  BY <1>5 DEF d

\* hasCycle is exact on every graph that can be drawn.
LEMMA HasCycleExact ==
  ASSUME NEW g, IsDrawn(g)
  PROVE  HasCycle(g) <=> Cyclic(g)
<1> DEFINE ids == [i \in DOMAIN g.nodes |-> g.nodes[i].id]
           r == Through(Dfs(g), ids, Unmarked)
<1>1. Len(g.nodes) \in Nat /\ DOMAIN g.nodes = 1 .. Len(g.nodes)
  BY LenProperties DEF IsDrawn
<1>2. Len(ids) = Len(g.nodes)
  BY <1>1
<1>3. \A i \in 1 .. Len(ids) : ids[i] \in Ids(g)
  BY <1>1, <1>2 DEF Ids
<1>4. \A id \in Ids(g) : \E i \in 1 .. Len(ids) : ids[i] = id
  BY <1>1, <1>2 DEF Ids
<1> HIDE DEF ids
<1>5. Sound(g, Unmarked) /\ ~Unmarked.found /\ Unmarked.recStack = {}
  BY DEF Sound, Unmarked, Marks, DoneWith
<1>6. IF r.found THEN Cyclic(g)
      ELSE Sound(g, r) /\ \A i \in 1 .. Len(ids) : ids[i] \in DoneWith(r)
  <2>1. Len(ids) \in Nat /\ \A i \in 1 .. Len(ids) : ids[i] \in Places(g)
    BY <1>1, <1>2, <1>3 DEF Places
  <2>2. \A id \in Places(g), s \in Marks(g) : Called(g, id, s) => Searched(g, id, s, Dfs(g)[id][s])
    BY DfsCorrect
  <2>3. \A x \in Unmarked.recStack : \A i \in 1 .. Len(ids) : ids[i] \in Behind(g, x)
    BY <1>5
  <2> QED  BY <1>5, <2>1, <2>2, <2>3, ThroughCorrect
<1>7. HasCycle(g) = r.found
  BY DEF HasCycle, ids
<1> HIDE DEF r
<1>8. ASSUME ~r.found, NEW id \in Ids(g) PROVE id \notin Behind(g, id)
  BY <1>4, <1>6, <1>8 DEF Sound
<1> QED  BY <1>6, <1>7, <1>8 DEF Cyclic

\* A graph that is drawn edge by edge is such a graph.
LEMMA DrawnInductive == GraphSpec => []IsDrawn(graph)
<1>1. GraphInit => IsDrawn(graph)
  <2> SUFFICES ASSUME GraphInit PROVE IsDrawn(graph)
    OBVIOUS
  <2>1. PICK palette \in Palettes :
          graph = [id |-> "w", nodes |-> palette.nodes, edges |-> <<>>,
                   entry |-> palette.nodes[1].id, gone |-> palette.gone]
    BY DEF GraphInit
  <2>2. graph.nodes = palette.nodes /\ graph.edges = <<>>
    BY <2>1
  <2>3. palette.nodes \in Seq(ToSet(palette.nodes))
    BY PalettesAssumption DEF PalettesAssumption
  <2>4. ToSet(<<>>) = {} /\ <<>> \in Seq({})
    BY DEF ToSet
  <2> QED  BY <2>2, <2>3, <2>4 DEF IsDrawn
<1>2. IsDrawn(graph) /\ [GraphNext]_graph => IsDrawn(graph)'
  <2> SUFFICES ASSUME IsDrawn(graph), [GraphNext]_graph PROVE IsDrawn(graph')
    BY DEF IsDrawn, Ids
  <2>1. CASE UNCHANGED graph
    BY <2>1
  <2>2. CASE GraphNext
    <3>1. PICK source \in Ids(graph) : \E target : Draw(source, target)
      BY <2>2 DEF GraphNext
    <3>2. PICK target : graph' = [graph EXCEPT !.edges = Append(@, <<source, target>>)]
      BY <3>1 DEF Draw
    <3> DEFINE longer == Append(graph.edges, <<source, target>>)
    <3>3. /\ longer \in Seq(ToSet(longer))
          /\ ToSet(longer) = ToSet(graph.edges) \cup {<<source, target>>}
      BY AppendElements DEF IsDrawn
    <3>4. graph'.nodes = graph.nodes /\ graph'.edges = longer
      BY <3>2
    <3> HIDE DEF longer
    <3>5. Ids(graph') = Ids(graph)
      BY <3>4 DEF Ids
    <3>6. \A e \in ToSet(longer) : e[1] \in Ids(graph)
      BY <3>1, <3>3 DEF IsDrawn
    <3> QED  BY <3>3, <3>4, <3>5, <3>6 DEF IsDrawn
  <2> QED  BY <2>1, <2>2
<1> QED  BY <1>1, <1>2, PTL DEF GraphSpec

\* hasCycle finds a cycle exactly if there is one.
THEOREM CyclesFound == GraphSpec => []CycleCheckExact
<1>1. IsDrawn(graph) => CycleCheckExact
  BY HasCycleExact DEF CycleCheckExact, Cyclic, Behind
<1> QED  BY <1>1, DrawnInductive, PTL

-----------------------------------------------------------------------------
\* Lookups in a graph.

\* What is left of a list is empty if nothing is to be left, and else begins with
\* something that is.
LEMMA FirstKept ==
  ASSUME NEW S, NEW s \in Seq(S), NEW some
  PROVE  /\ Filter(s, some) = <<>> => ToSet(s) \cap some = {}
         /\ Filter(s, some) # <<>> => Filter(s, some)[1] \in ToSet(s) \cap some
         /\ \A i \in DOMAIN Filter(s, some) : Filter(s, some)[i] \in ToSet(s) \cap some
<1> DEFINE kept == Filter(s, some)
<1>1. kept \in Seq(S) /\ ToSet(kept) = ToSet(s) \cap some
  BY FilterFacts
<1> HIDE DEF kept
<1>2. Len(kept) \in Nat /\ DOMAIN kept = 1 .. Len(kept)
  BY <1>1, LenProperties
<1>3. kept = <<>> => ToSet(kept) = {}
  BY DEF ToSet
<1>4. kept # <<>> => 1 \in DOMAIN kept
  <2>1. kept # <<>> => Len(kept) # 0
    BY <1>1, EmptySeq
  <2> QED  BY <1>2, <2>1
<1>5. \A i \in DOMAIN kept : kept[i] \in ToSet(kept)
  BY DEF ToSet
<1> QED  BY <1>1, <1>3, <1>4, <1>5 DEF kept

\* find of a node's id finds a node with it.
LEMMA NodeOfFacts ==
  ASSUME NEW g, IsDrawn(g), NEW id \in Ids(g)
  PROVE  NodeOf(g, id) \in ToSet(g.nodes) /\ NodeOf(g, id).id = id
<1> DEFINE those == {n \in ToSet(g.nodes) : n.id = id}
<1>1. those # {} /\ ToSet(g.nodes) \cap those = those
  BY DEF Ids, ToSet
<1>2. g.nodes \in Seq(ToSet(g.nodes))
  BY DEF IsDrawn
<1>3. Filter(g.nodes, those)[1] \in those
  <2> HIDE DEF those
  <2> QED  BY <1>1, <1>2, FirstKept
<1> QED  BY <1>3 DEF NodeOf

\* The nodes behind a list of ids.
LEMMA NodesFacts ==
  ASSUME NEW g, IsDrawn(g), NEW S, NEW ids \in Seq(S)
  PROVE  /\ Nodes(g, ids) \in Seq(ToSet(g.nodes))
         /\ \A i \in DOMAIN Nodes(g, ids) : Nodes(g, ids)[i].id \in S
<1> DEFINE known == Filter(ids, Ids(g))
<1>1. known \in Seq(S)
  BY FilterFacts
<1>2. \A i \in DOMAIN known : known[i] \in Ids(g) /\ known[i] \in ToSet(ids)
  BY FirstKept
<1>3. ToSet(ids) \subseteq S
  BY SeqOfElements
<1> HIDE DEF known
<1>4. Len(known) \in Nat /\ DOMAIN known = 1 .. Len(known)
  BY <1>1, LenProperties
<1>5. Nodes(g, ids) = [i \in 1 .. Len(known) |-> NodeOf(g, known[i])]
  BY <1>4 DEF Nodes, known
<1>6. \A i \in 1 .. Len(known) :
        NodeOf(g, known[i]) \in ToSet(g.nodes) /\ NodeOf(g, known[i]).id \in S
  BY <1>2, <1>3, <1>4, NodeOfFacts
<1> QED  BY <1>4, <1>5, <1>6

\* A function on the places of a list is a list.
LEMMA IsSeq ==
  ASSUME NEW S, NEW n \in Nat, NEW f \in [1 .. n -> S]
  PROVE  f \in Seq(S)
OBVIOUS

\* The targets of a node are ids behind it, the sources are nodes.
LEMMA EndsFacts ==
  ASSUME NEW g, IsDrawn(g), NEW id
  PROVE  Targets(g, id) \in Seq(Out(ToSet(g.edges), {id})) /\ Sources(g, id) \in Seq(Ids(g))
<1> DEFINE E == ToSet(g.edges)
<1>1. ASSUME NEW some, NEW end, NEW S, \A e \in E \cap some : e[end] \in S
      PROVE  EndsOf(Filter(g.edges, some), end) \in Seq(S)
  <2> DEFINE drawn == Filter(g.edges, some)
  <2>1. drawn \in Seq(E) /\ \A i \in DOMAIN drawn : drawn[i] \in E \cap some
    BY FilterFacts, FirstKept DEF IsDrawn
  <2> HIDE DEF drawn
  <2>2. Len(drawn) \in Nat /\ DOMAIN drawn = 1 .. Len(drawn)
    BY <2>1, LenProperties
  <2>3. EndsOf(drawn, end) = [i \in 1 .. Len(drawn) |-> drawn[i][end]]
    BY <2>2 DEF EndsOf
  <2>4. [i \in 1 .. Len(drawn) |-> drawn[i][end]] \in [1 .. Len(drawn) -> S]
    BY <1>1, <2>1, <2>2
  <2> QED  BY <2>2, <2>3, <2>4, IsSeq DEF drawn
<1>2. Targets(g, id) \in Seq(Out(E, {id}))
  <2> DEFINE some == {e \in E : e[1] = id}
  <2>1. \A e \in E \cap some : e[2] \in Out(E, {id})
    BY DEF Out
  <2> QED  BY <1>1, <2>1 DEF Targets
<1>3. Sources(g, id) \in Seq(Ids(g))
  <2> DEFINE some == {e \in E : e[2] = id}
  <2>1. \A e \in E \cap some : e[1] \in Ids(g)
    BY DEF IsDrawn
  <2> QED  BY <1>1, <2>1 DEF Sources
<1> QED  BY <1>2, <1>3

-----------------------------------------------------------------------------
\* The matcher of a node: its recursion defines a function.

\* What calls for the nodes below a gate yield, if a call yields what d says.
Below(g, d, n, above) ==
  LET children == Nodes(g, Targets(g, n.id))
  IN  [i \in DOMAIN children |-> d[children[i]][above \cup {n.id}]]

\* What a call of nodeToMatcher yields.
MatcherOf(g, d, n, above) ==
  CASE n.type \in DOMAIN Matchers -> [ok |-> TRUE, matchers |-> <<Matcher(n)>>]
    [] n.type \in Gates /\ n.id \notin above -> Gather(n, Below(g, d, n, above))
    [] n.type \in Gates /\ n.id \in above -> Thrown
    [] OTHER -> [ok |-> TRUE, matchers |-> <<>>]

MatcherBody(g, d) ==
  [n \in ToSet(g.nodes) |-> [above \in SUBSET Ids(g) |-> MatcherOf(g, d, n, above)]]

\* The levels of the recursion.
Levels(h, g, k) == h = [i \in 0 .. k |-> IF i = 0 THEN <<>> ELSE MatcherBody(g, h[i - 1])]

\* There are any number of them.
LEMMA LevelsDefined ==
  ASSUME NEW g, NEW n \in Nat
  PROVE  \E h : Levels(h, g, n)
<1> DEFINE T == {k \in Nat : \E h : Levels(h, g, k)}
<1>1. 0 \in T
  <2> DEFINE h == [i \in 0 .. 0 |-> <<>>]
  <2>1. h = [i \in 0 .. 0 |-> IF i = 0 THEN <<>> ELSE MatcherBody(g, h[i - 1])]
    <3> \A i \in 0 .. 0 : i = 0
      OBVIOUS
    <3> QED  OBVIOUS
  <2> HIDE DEF h
  <2> QED  BY <2>1 DEF Levels
<1>2. ASSUME NEW k \in 1 .. n, k - 1 \in T PROVE k \in T
  <2>1. PICK r : Levels(r, g, k - 1)
    BY <1>2
  <2> DEFINE last == MatcherBody(g, r[k - 1])
             h == [i \in 0 .. k |-> IF i = k THEN last ELSE r[i]]
  <2>2. h[k] = last /\ DOMAIN h = 0 .. k /\ h = [i \in 0 .. k |-> h[i]]
    OBVIOUS
  <2>3. \A i \in 0 .. k - 1 : h[i] = r[i]
    OBVIOUS
  <2> HIDE DEF h
  <2>4. ASSUME NEW i \in 0 .. k
        PROVE  h[i] = IF i = 0 THEN <<>> ELSE MatcherBody(g, h[i - 1])
    <3>1. CASE i = k
      <4>1. i # 0 /\ i - 1 \in 0 .. k - 1
        BY <3>1
      <4> QED  BY <2>2, <2>3, <3>1, <4>1
    <3>2. CASE i # k
      <4>1. i \in 0 .. k - 1
        BY <3>2
      <4>2. r[i] = IF i = 0 THEN <<>> ELSE MatcherBody(g, r[i - 1])
        BY <2>1, <4>1 DEF Levels
      <4>3. i # 0 => i - 1 \in 0 .. k - 1
        BY <4>1
      <4> QED  BY <2>3, <4>1, <4>2, <4>3
    <3> QED  BY <3>1, <3>2
  <2>5. Levels(h, g, k)
    BY <2>2, <2>4 DEF Levels
  <2> QED  BY <2>5
<1>3. 0 .. n \subseteq T
  <2> HIDE DEF T
  <2> QED  BY <1>1, <1>2, UpTo
<1>4. n \in T
  BY <1>3
<1> QED  BY <1>4

\* How many ids may still be added to those above a gate.
Height(g, above) == Cardinality(Ids(g) \ above)

\* A call has one less than the call it is made in.
LEMMA LessHeight ==
  ASSUME NEW g, IsDrawn(g), NEW above, NEW id \in Ids(g), id \notin above
  PROVE  /\ Height(g, above) \in Nat /\ Height(g, above \cup {id}) \in Nat
         /\ Height(g, above \cup {id}) < Height(g, above)
         /\ Height(g, above) <= Cardinality(Ids(g))
<1> DEFINE old == Ids(g) \ above
           new == Ids(g) \ (above \cup {id})
<1>1. IsFiniteSet(Ids(g))
  <2>1. Ids(g) \in SUBSET Places(g)
    BY DEF Places
  <2> QED  BY <2>1, PlacesFinite, FS_Subset
<1>2. old \in SUBSET Ids(g) /\ new \in SUBSET old /\ id \in old /\ id \notin new
  OBVIOUS
<1>3. Height(g, above) = Cardinality(old) /\ Height(g, above \cup {id}) = Cardinality(new)
  BY DEF Height
<1> HIDE DEF old, new
<1>4. IsFiniteSet(old) /\ Cardinality(old) <= Cardinality(Ids(g))
  BY <1>1, <1>2, FS_Subset
<1>5. /\ IsFiniteSet(new)
      /\ Cardinality(new) <= Cardinality(old) /\ Cardinality(new) # Cardinality(old)
  BY <1>2, <1>4, FS_Subset
<1>6. Cardinality(new) \in Nat /\ Cardinality(old) \in Nat
  BY <1>4, <1>5, FS_CardinalityType
<1> QED  BY <1>3, <1>4, <1>5, <1>6

\* A matcher depends on nothing but the calls that are made for it.
LEMMA MatcherSame ==
  ASSUME NEW g, IsDrawn(g), NEW d, NEW e, NEW n, NEW above,
         \A c \in ToSet(g.nodes) :
           n.id \notin above => d[c][above \cup {n.id}] = e[c][above \cup {n.id}]
  PROVE  MatcherOf(g, d, n, above) = MatcherOf(g, e, n, above)
<1>1. CASE n.id \notin above
  <2> DEFINE children == Nodes(g, Targets(g, n.id))
  <2>1. children \in Seq(ToSet(g.nodes))
    BY EndsFacts, NodesFacts
  <2> HIDE DEF children
  <2>2. \A i \in DOMAIN children : children[i] \in ToSet(g.nodes)
    BY <2>1, LenProperties, ElementOfSeq
  <2>3. \A i \in DOMAIN children :
          d[children[i]][above \cup {n.id}] = e[children[i]][above \cup {n.id}]
    BY <1>1, <2>2
  <2>4. Below(g, d, n, above) = Below(g, e, n, above)
    BY <2>3 DEF Below, children
  <2> QED  BY <2>4 DEF MatcherOf
<1>2. CASE n.id \in above
  BY <1>2 DEF MatcherOf
<1> QED  BY <1>1, <1>2

\* A call of MatcherBody.
LEMMA MatcherAt ==
  ASSUME NEW g, NEW d, NEW n \in ToSet(g.nodes), NEW above \in SUBSET Ids(g)
  PROVE  MatcherBody(g, d)[n][above] = MatcherOf(g, d, n, above)
BY DEF MatcherBody

\* Two of them which are the same at each place are the same.
LEMMA MatcherEqual ==
  ASSUME NEW g, NEW d, NEW e,
         \A n \in ToSet(g.nodes), above \in SUBSET Ids(g) :
           MatcherOf(g, d, n, above) = MatcherOf(g, e, n, above)
  PROVE  MatcherBody(g, d) = MatcherBody(g, e)
<1>1. \A n \in ToSet(g.nodes) : [above \in SUBSET Ids(g) |-> MatcherOf(g, d, n, above)]
                                  = [above \in SUBSET Ids(g) |-> MatcherOf(g, e, n, above)]
  OBVIOUS
<1> QED  BY <1>1 DEF MatcherBody

\* The recursion of nodeToMatcher defines a function: a gate is not below itself, so
\* that as many levels as there are ids are enough.
LEMMA MatcherDefined ==
  ASSUME NEW g, IsDrawn(g)
  PROVE  \E d : d = MatcherBody(g, d)
<1> DEFINE N == Cardinality(Ids(g))
<1>1. N \in Nat /\ IsFiniteSet(Ids(g))
  <2>1. Ids(g) \in SUBSET Places(g)
    BY DEF Places
  <2> QED  BY <2>1, PlacesFinite, FS_Subset, FS_CardinalityType
<1> HIDE DEF N
<1>2. PICK h : Levels(h, g, N + 2)
  BY <1>1, LevelsDefined
<1>3. \A k \in 1 .. N + 2 : h[k] = MatcherBody(g, h[k - 1])
  <2>1. \A k \in 1 .. N + 2 : k \in 0 .. N + 2 /\ k # 0
    BY <1>1
  <2> QED  BY <1>2, <2>1 DEF Levels
<1>4. \A k \in 0 .. N : h[k + 1] = MatcherBody(g, h[k]) /\ h[k + 2] = MatcherBody(g, h[k + 1])
  <2>1. \A k \in 0 .. N : /\ k + 1 \in 1 .. N + 2 /\ k + 2 \in 1 .. N + 2
                          /\ (k + 1) - 1 = k /\ (k + 2) - 1 = k + 1
    BY <1>1
  <2> QED  BY <1>3, <2>1
<1> DEFINE Alike(k) == \A n \in ToSet(g.nodes), above \in SUBSET Ids(g) :
                        Height(g, above) <= k =>
                          MatcherOf(g, h[k], n, above) = MatcherOf(g, h[k + 1], n, above)
           T == {k \in 0 .. N : Alike(k)}
<1>5. ASSUME NEW k \in 0 .. N, k # 0 => k - 1 \in T PROVE k \in T
  <2>1. SUFFICES ASSUME NEW n \in ToSet(g.nodes), NEW above \in SUBSET Ids(g), Height(g, above) <= k
                 PROVE  MatcherOf(g, h[k], n, above) = MatcherOf(g, h[k + 1], n, above)
    OBVIOUS
  <2>2. n.id \in Ids(g)
    BY DEF Ids, ToSet
  <2>3. ASSUME NEW c \in ToSet(g.nodes), n.id \notin above
        PROVE  h[k][c][above \cup {n.id}] = h[k + 1][c][above \cup {n.id}]
    <3> DEFINE more == above \cup {n.id}
    <3>1. more \in SUBSET Ids(g)
      BY <2>2
    <3>2. /\ Height(g, more) \in Nat /\ Height(g, above) \in Nat
          /\ Height(g, more) < Height(g, above)
      BY <2>2, <2>3, LessHeight
    <3> HIDE DEF more
    <3>3. k # 0 /\ Height(g, more) <= k - 1
      BY <2>1, <3>2
    <3>4. k - 1 \in 0 .. N /\ (k - 1) + 1 = k /\ (k - 1) + 2 = k + 1
      <4>1. N \in Nat /\ k \in 0 .. N /\ k # 0
        BY <1>1, <3>3
      <4> HIDE DEF Alike
      <4> QED  BY <4>1
    <3>5. MatcherOf(g, h[k - 1], c, more) = MatcherOf(g, h[k], c, more)
      <4>1. Alike(k - 1)
        BY <1>5, <3>3
      <4> QED  BY <3>1, <3>3, <3>4, <4>1
    <3>6. h[k] = MatcherBody(g, h[k - 1]) /\ h[k + 1] = MatcherBody(g, h[k])
      BY <1>4, <3>4
    <3> QED  BY <3>1, <3>5, <3>6, MatcherAt DEF more
  <2> QED  BY <2>3, MatcherSame
<1>6. 0 .. N \subseteq T
  <2>1. 0 \in T
    BY <1>1, <1>5
  <2>2. \A k \in 1 .. N : k - 1 \in T => k \in T
    <3>1. \A k \in 1 .. N : k \in 0 .. N
      BY <1>1
    <3> HIDE DEF T
    <3> QED  BY <1>5, <3>1
  <2> HIDE DEF T
  <2> QED  BY <1>1, <2>1, <2>2, UpTo
<1>7. ASSUME NEW n \in ToSet(g.nodes), NEW above \in SUBSET Ids(g)
      PROVE  MatcherOf(g, h[N], n, above) = MatcherOf(g, h[N + 1], n, above)
  <2>1. Alike(N)
    BY <1>1, <1>6
  <2>2. Height(g, above) <= N
    <3>1. Ids(g) \ above \in SUBSET Ids(g)
      OBVIOUS
    <3> QED  BY <1>1, <3>1, FS_Subset DEF Height, N
  <2> QED  BY <2>1, <2>2
<1>8. MatcherBody(g, h[N]) = MatcherBody(g, h[N + 1])
  BY <1>7, MatcherEqual
<1>9. h[N + 1] = MatcherBody(g, h[N])
  BY <1>1, <1>4
<1> QED  BY <1>8, <1>9

\* nodeToMatcher is a fixed point of it.
LEMMA MatcherFixed ==
  ASSUME NEW g, IsDrawn(g)
  PROVE  \E d : d = MatcherBody(g, d) /\ \A n : NodeToMatcher(g, n) = d[n][{}]
<1> DEFINE f == CHOOSE d : d = MatcherBody(g, d)
<1>1. f = MatcherBody(g, f)
  BY MatcherDefined
<1>2. \A n : NodeToMatcher(g, n) = f[n][{}]
  BY DEF NodeToMatcher, MatcherBody, MatcherOf, Below
<1> QED  BY <1>1, <1>2

\* If there is no cycle, every node has a matcher: no gate is below itself.
LEMMA MatcherOk ==
  ASSUME NEW g, IsDrawn(g), ~Cyclic(g), NEW node \in ToSet(g.nodes)
  PROVE  NodeToMatcher(g, node).ok
<1>1. PICK d : d = MatcherBody(g, d) /\ \A n : NodeToMatcher(g, n) = d[n][{}]
  BY MatcherFixed
<1> DEFINE T == {k \in Nat : \A n \in ToSet(g.nodes), above \in SUBSET Ids(g) :
                   Height(g, above) = k /\ (\A x \in above : n.id \in Behind(g, x))
                     => d[n][above].ok}
<1>2. ASSUME NEW k \in Nat, \A m \in Nat : m < k => m \in T PROVE k \in T
  <2>1. SUFFICES ASSUME NEW n \in ToSet(g.nodes), NEW above \in SUBSET Ids(g),
                        Height(g, above) = k, \A x \in above : n.id \in Behind(g, x)
                 PROVE  d[n][above].ok
    OBVIOUS
  <2>2. n.id \in Ids(g)
    BY DEF Ids, ToSet
  <2>3. n.id \notin above
    BY <2>1, CyclicNode
  <2> DEFINE children == Nodes(g, Targets(g, n.id))
             more == above \cup {n.id}
  <2>4. /\ \A i \in DOMAIN children : children[i] \in ToSet(g.nodes)
        /\ \A i \in DOMAIN children : children[i].id \in Out(ToSet(g.edges), {n.id})
    <3>1. Targets(g, n.id) \in Seq(Out(ToSet(g.edges), {n.id}))
      BY EndsFacts
    <3>2. children \in Seq(ToSet(g.nodes))
      BY <3>1, NodesFacts
    <3>3. \A i \in DOMAIN children : children[i].id \in Out(ToSet(g.edges), {n.id})
      BY <3>1, NodesFacts
    <3> HIDE DEF children
    <3> QED  BY <3>2, <3>3, LenProperties, ElementOfSeq
  <2> HIDE DEF children
  <2>5. ASSUME NEW i \in DOMAIN children PROVE d[children[i]][more].ok
    <3>1. \A x \in more : children[i].id \in Behind(g, x)
      BY <2>1, <2>4, BehindFacts
    <3>2. more \in SUBSET Ids(g)
      BY <2>2
    <3>3. Height(g, more) \in Nat /\ Height(g, more) < k
      BY <2>1, <2>2, <2>3, LessHeight
    <3>4. Height(g, more) \in T
      BY <1>2, <3>3
    <3> HIDE DEF more
    <3> QED  BY <2>4, <3>1, <3>2, <3>4
  <2>6. Gather(n, Below(g, d, n, above)).ok
    <3>1. Below(g, d, n, above) = [i \in DOMAIN children |-> d[children[i]][more]]
      BY DEF Below, children
    <3>2. ~Failed(Below(g, d, n, above))
      BY <2>5, <3>1 DEF Failed
    <3> QED  BY <3>2 DEF Gather
  <2>7. MatcherOf(g, d, n, above).ok
    BY <2>3, <2>6 DEF MatcherOf
  <2>8. d[n][above] = MatcherOf(g, d, n, above)
    BY <1>1, MatcherAt
  <2> QED  BY <2>7, <2>8
<1>3. Nat \subseteq T
  <2> HIDE DEF T
  <2> QED  BY <1>2, Everywhere
<1>4. Height(g, {}) \in Nat
  <2>1. Ids(g) \in SUBSET Places(g) /\ Ids(g) \ {} = Ids(g)
    BY DEF Places
  <2> QED  BY <2>1, PlacesFinite, FS_Subset, FS_CardinalityType DEF Height
<1>5. d[node][{}].ok
  <2>1. Height(g, {}) \in T
    BY <1>3, <1>4
  <2> QED  BY <2>1
<1> QED  BY <1>1, <1>5

-----------------------------------------------------------------------------
\* What validateGraph accepts compiles.

\* The states of a graph are among its nodes, the initial ones among its states.
LEMMA StatesFacts ==
  ASSUME NEW g, IsDrawn(g)
  PROVE  /\ States(g) \in Seq(ToSet(g.nodes))
         /\ Len(States(g)) \in Nat /\ DOMAIN States(g) = 1 .. Len(States(g))
         /\ ToSet(States(g)) \subseteq ToSet(g.nodes)
         /\ Initials(g) # <<>> => Initials(g)[1] \in ToSet(States(g))
<1>1. g.nodes \in Seq(ToSet(g.nodes))
  BY DEF IsDrawn
<1>2. States(g) \in Seq(ToSet(g.nodes))
  BY <1>1, FilterFacts DEF States
<1>3. Len(States(g)) \in Nat /\ DOMAIN States(g) = 1 .. Len(States(g))
  BY <1>2, LenProperties
<1>4. ToSet(States(g)) \subseteq ToSet(g.nodes)
  BY <1>2, SeqOfElements
<1>5. Initials(g) # <<>> => Initials(g)[1] \in ToSet(States(g))
  BY <1>2, FirstKept DEF Initials
<1> QED  BY <1>2, <1>3, <1>4, <1>5

\* A transition leads to the name of a state that an edge leads to.
LEMMA TransitionFacts ==
  ASSUME NEW g, IsDrawn(g), NEW n, TransitionFrom(g, n) # <<>>
  PROVE  \E m \in ToSet(States(g)) :
           m.id \in Out(ToSet(g.edges), {n.id}) /\ TransitionFrom(g, n) = <<m.name>>
<1> DEFINE states == ToSet(States(g))
           after == Filter(Targets(g, n.id), {s.id : s \in states})
           same == {s \in states : s.id = after[1]}
           first == Filter(States(g), same)[1]
<1>1. TransitionFrom(g, n) = <<first.name>> /\ after # <<>>
  BY DEF TransitionFrom
<1>2. after[1] \in Out(ToSet(g.edges), {n.id}) /\ after[1] \in {s.id : s \in states}
  <2>1. Targets(g, n.id) \in Seq(Out(ToSet(g.edges), {n.id}))
    BY EndsFacts
  <2>2. after[1] \in ToSet(Targets(g, n.id)) \cap {s.id : s \in states}
    <3> HIDE DEF states
    <3> QED  BY <1>1, <2>1, FirstKept
  <2>3. ToSet(Targets(g, n.id)) \subseteq Out(ToSet(g.edges), {n.id})
    BY <2>1, SeqOfElements
  <2> HIDE DEF after, states
  <2> QED  BY <2>2, <2>3
<1>3. first \in states \cap same
  <2>1. States(g) \in Seq(ToSet(g.nodes))
    BY StatesFacts
  <2>2. states \cap same # {}
    <3> HIDE DEF after, states
    <3> QED  BY <1>2
  <2>3. ToSet(States(g)) \cap same # {}
    BY <2>2
  <2> HIDE DEF same
  <2> QED  BY <2>1, <2>3, FirstKept
<1> HIDE DEF after, first
<1> QED  BY <1>1, <1>2, <1>3

\* Without a cycle, a state compiles.
LEMMA StateCompiles ==
  ASSUME NEW g, IsDrawn(g), ~Cyclic(g), NEW n
  PROVE  /\ CompileState(g, n).ok
         /\ CompileState(g, n).id = n.name
         /\ CompileState(g, n).onMatch.transition = TransitionFrom(g, n)
<1> DEFINE into == Nodes(g, Sources(g, n.id))
           kinds == {m \in ToSet(g.nodes) : m.type \notin {"state", "timeout_matcher"}}
           events == Filter(into, kinds)
           built == [i \in DOMAIN events |-> NodeToMatcher(g, events[i])]
<1>1. into \in Seq(ToSet(g.nodes))
  BY EndsFacts, NodesFacts
<1>2. \A i \in DOMAIN events : events[i] \in ToSet(g.nodes)
  <2> HIDE DEF into
  <2>1. \A i \in DOMAIN events : events[i] \in ToSet(into) \cap kinds
    <3> HIDE DEF kinds
    <3> QED  BY <1>1, FirstKept
  <2> HIDE DEF events
  <2> QED  BY <2>1
<1>3. \A i \in DOMAIN events : NodeToMatcher(g, events[i]).ok
  <2> HIDE DEF events
  <2> QED  BY <1>2, MatcherOk
<1>4. ~Failed(built)
  <2> HIDE DEF events
  <2> QED  BY <1>3 DEF Failed
<1> QED  BY <1>4 DEF CompileState

\* A graph with states compiles to a machine of them.
LEMMA MachineCompiles ==
  ASSUME NEW g, IsDrawn(g), Validates(g), States(g) # <<>>
  PROVE  /\ CompileV2(g).ok
         /\ CompileV2(g).initial = Initials(g)[1].name
         /\ CompileV2(g).states = [i \in DOMAIN States(g) |-> CompileState(g, States(g)[i])]
         /\ Initials(g)[1] \in ToSet(States(g))
<1>1. ~Cyclic(g) /\ Len(Initials(g)) = 1
  BY HasCycleExact DEF Validates
<1>2. Initials(g) # <<>>
  BY <1>1
<1> DEFINE states == [i \in DOMAIN States(g) |-> CompileState(g, States(g)[i])]
<1>3. ~Failed(states)
  BY <1>1, StateCompiles DEF Failed
<1>4. CompileV2(g) = [ok |-> TRUE, id |-> g.id, initial |-> Initials(g)[1].name, states |-> states]
  BY <1>2, <1>3 DEF CompileV2
<1> HIDE DEF states
<1>5. /\ CompileV2(g).ok
      /\ CompileV2(g).initial = Initials(g)[1].name
      /\ CompileV2(g).states = states
  BY <1>4
<1> QED  BY <1>2, <1>5, StatesFacts DEF states

\* A graph without states compiles to a machine of one.
LEMMA OneStateCompiles ==
  ASSUME NEW g, IsDrawn(g), Validates(g), States(g) = <<>>
  PROVE  /\ CompileV2(g).ok
         /\ CompileV2(g).initial = "default"
         /\ DOMAIN CompileV2(g).states = {1}
         /\ CompileV2(g).states[1].id = "default"
         /\ CompileV2(g).states[1].onMatch.transition = <<>>
<1>1. ~Cyclic(g) /\ g.entry \in Ids(g)
  BY HasCycleExact DEF Validates
<1>2. NodeOf(g, g.entry) \in ToSet(g.nodes)
  BY <1>1, NodeOfFacts
<1> DEFINE built == NodeToMatcher(g, NodeOf(g, g.entry))
           result == [actions |-> BuildActionsV2(g), transition |-> <<>>]
           only == [ok |-> TRUE, id |-> "default", matchers |-> built.matchers,
                    onMatch |-> result, onTimeout |-> <<>>]
<1>3. built.ok
  BY <1>1, <1>2, MatcherOk
<1>4. CompileV2(g) = [ok |-> TRUE, id |-> g.id, initial |-> "default", states |-> <<only>>]
  BY <1>1, <1>3 DEF CompileV2
<1>5. only.id = "default" /\ only.onMatch.transition = <<>>
  OBVIOUS
<1> HIDE DEF only
<1> QED  BY <1>4, <1>5

\* Along the transitions of a machine whose states have different names, one comes
\* to states behind the one where one starts.
LEMMA MovesFollowEdges ==
  ASSUME NEW g, IsDrawn(g), Validates(g), States(g) # <<>>,
         NEW v2, v2 = CompileV2(g),
         \A i, j \in DOMAIN v2.states : v2.states[i].id = v2.states[j].id => i = j,
         NEW i \in DOMAIN v2.states
  PROVE  v2.states[i].id \notin After(v2.states[i].id, Moves(v2))
<1> DEFINE states == States(g)
           n == states[i]
           behind == {m.name : m \in {s \in ToSet(states) : s.id \in Behind(g, n.id)}}
<1>1. ~Cyclic(g)
  BY HasCycleExact DEF Validates
<1>2. /\ DOMAIN v2.states = DOMAIN states
      /\ \A j \in DOMAIN states : /\ v2.states[j].id = states[j].name
                                  /\ v2.states[j].onMatch.transition = TransitionFrom(g, states[j])
  <2>1. v2.states = [j \in DOMAIN states |-> CompileState(g, states[j])]
    BY MachineCompiles
  <2> HIDE DEF states
  <2>2. \A j \in DOMAIN states : v2.states[j] = CompileState(g, states[j])
    BY <2>1
  <2>3. \A j \in DOMAIN states : /\ CompileState(g, states[j]).id = states[j].name
                                 /\ CompileState(g, states[j]).onMatch.transition
                                      = TransitionFrom(g, states[j])
    BY <1>1, StateCompiles
  <2> QED  BY <2>1, <2>2, <2>3
<1>3. /\ Len(states) \in Nat /\ DOMAIN states = 1 .. Len(states)
      /\ ToSet(states) \subseteq ToSet(g.nodes)
  BY StatesFacts
<1> HIDE DEF states
<1>4. ToSet(states) = {states[j] : j \in DOMAIN states}
  BY DEF ToSet
<1>5. \A m, s \in ToSet(states) : m.name = s.name => m = s
  BY <1>2, <1>4
<1>6. ASSUME NEW p \in Moves(v2), NEW s \in ToSet(states), p[1] = s.name
      PROVE  \E m \in ToSet(states) : m.id \in Out(ToSet(g.edges), {s.id}) /\ p[2] = m.name
  <2>1. PICK j \in DOMAIN v2.states :
          /\ v2.states[j].onMatch.transition # <<>>
          /\ p = <<v2.states[j].id, v2.states[j].onMatch.transition[1]>>
    BY DEF Moves
  <2>2. j \in DOMAIN states /\ states[j] \in ToSet(states) /\ p[1] = states[j].name
    BY <1>2, <1>4, <2>1
  <2>3. states[j] = s
    BY <1>5, <1>6, <2>2
  <2>4. TransitionFrom(g, s) # <<>> /\ p[2] = TransitionFrom(g, s)[1]
    BY <1>2, <2>1, <2>2, <2>3
  <2>5. PICK m \in ToSet(states) :
          m.id \in Out(ToSet(g.edges), {s.id}) /\ TransitionFrom(g, s) = <<m.name>>
    <3>1. TransitionFrom(g, s) # <<>>
      BY <2>4
    <3>2. \E m \in ToSet(States(g)) :
            m.id \in Out(ToSet(g.edges), {s.id}) /\ TransitionFrom(g, s) = <<m.name>>
      BY <3>1, TransitionFacts
    <3> QED  BY <3>2 DEF states
  <2> QED  BY <2>4, <2>5
<1>7. i \in DOMAIN states /\ n \in ToSet(states) /\ v2.states[i].id = n.name
  BY <1>2, <1>4
<1> HIDE DEF n
<1>8. ClosedUnder(Moves(v2), behind) /\ Out(Moves(v2), {n.name}) \subseteq behind
  <2>1. ASSUME NEW p \in Moves(v2), p[1] \in behind PROVE p[2] \in behind
    <3>1. PICK s \in ToSet(states) : s.id \in Behind(g, n.id) /\ s.name = p[1]
      BY <2>1
    <3>2. PICK m \in ToSet(states) : m.id \in Out(ToSet(g.edges), {s.id}) /\ p[2] = m.name
      BY <1>6, <3>1
    <3>3. m.id \in Behind(g, n.id)
      BY <3>1, <3>2, BehindFacts
    <3> QED  BY <3>2, <3>3
  <2>2. ASSUME NEW p \in Moves(v2), p[1] = n.name PROVE p[2] \in behind
    <3>1. PICK m \in ToSet(states) : m.id \in Out(ToSet(g.edges), {n.id}) /\ p[2] = m.name
      BY <1>6, <1>7, <2>2
    <3>2. m.id \in Behind(g, n.id)
      BY <3>1, BehindFacts
    <3> QED  BY <3>1, <3>2
  <2> HIDE DEF behind
  <2> QED  BY <2>1, <2>2 DEF ClosedUnder, Out
<1>9. IsFiniteSet(Moves(v2))
  <2> DEFINE all == [j \in 1 .. Len(states) |->
                       <<v2.states[j].id, v2.states[j].onMatch.transition[1]>>]
  <2>1. all \in [1 .. Len(states) -> Range(all)]
    BY DEF Range
  <2>2. Moves(v2) \in SUBSET Range(all)
    BY <1>2, <1>3 DEF Moves, Range
  <2> HIDE DEF all
  <2>3. IsFiniteSet(Range(all))
    BY <1>3, <2>1, FiniteRange
  <2> QED  BY <2>2, <2>3, FS_Subset
<1>10. After(n.name, Moves(v2)) \subseteq behind
  <2> HIDE DEF behind
  <2> QED  BY <1>8, <1>9, AfterFacts
<1>11. n.name \notin behind
  <2>1. SUFFICES ASSUME NEW m \in ToSet(states), m.id \in Behind(g, n.id), m.name = n.name
                 PROVE  FALSE
    OBVIOUS
  <2>2. m = n
    BY <1>5, <1>7, <2>1
  <2> QED  BY <1>1, <2>1, <2>2, CyclicNode
<1> HIDE DEF behind
<1> QED  BY <1>7, <1>10, <1>11

\* What validateGraph accepts the v2 compiler compiles, to a machine that starts in
\* one of its states and leads only to those; unless two of them have the same name,
\* never back to one it has left.
THEOREM ValidatedPoliciesCompile == GraphSpec => []ValidatedCompiles
<1>1. ASSUME IsDrawn(graph) PROVE ValidatedCompiles
  <2> DEFINE v2 == CompileV2(graph)
             names == {v2.states[i].id : i \in DOMAIN v2.states}
             unique == \A i, j \in DOMAIN v2.states : v2.states[i].id = v2.states[j].id => i = j
  <2>1. SUFFICES ASSUME Validates(graph)
                 PROVE  /\ v2.ok
                        /\ {v2.initial} \cup {m[2] : m \in Moves(v2)} \subseteq names
                        /\ unique => \A name \in names : name \notin After(name, Moves(v2))
    BY DEF ValidatedCompiles
  <2>2. CASE States(graph) = <<>>
    <3>1. /\ v2.ok /\ v2.initial = "default" /\ DOMAIN v2.states = {1}
          /\ v2.states[1].id = "default" /\ v2.states[1].onMatch.transition = <<>>
      BY <1>1, <2>1, <2>2, OneStateCompiles
    <3> HIDE DEF v2
    <3>2. names = {"default"} /\ Moves(v2) = {}
      BY <3>1 DEF Moves
    <3>3. \A name : After(name, Moves(v2)) \subseteq {}
      <4>1. IsFiniteSet({}) /\ \A name : ClosedUnder({}, {}) /\ Out({}, {name}) \subseteq {}
        BY FS_EmptySet DEF ClosedUnder, Out
      <4> QED  BY <3>2, <4>1, AfterFacts
    <3> HIDE DEF names
    <3> QED  BY <3>1, <3>2, <3>3
  <2>3. CASE States(graph) # <<>>
    <3> DEFINE states == States(graph)
    <3>1. /\ v2.ok /\ v2.initial = Initials(graph)[1].name
          /\ v2.states = [i \in DOMAIN states |-> CompileState(graph, states[i])]
          /\ Initials(graph)[1] \in ToSet(states)
      BY <1>1, <2>1, <2>3, MachineCompiles
    <3>2. \A i \in DOMAIN states :
            /\ CompileState(graph, states[i]).id = states[i].name
            /\ CompileState(graph, states[i]).onMatch.transition
                 = TransitionFrom(graph, states[i])
      <4>1. ~Cyclic(graph)
        BY <1>1, <2>1, HasCycleExact DEF Validates
      <4> QED  BY <1>1, <4>1, StateCompiles
    <3>3. unique => \A name \in names : name \notin After(name, Moves(v2))
      <4>1. SUFFICES ASSUME unique, NEW i \in DOMAIN v2.states
                     PROVE  v2.states[i].id \notin After(v2.states[i].id, Moves(v2))
        OBVIOUS
      <4> QED  BY <1>1, <2>1, <2>3, <4>1, MovesFollowEdges
    <3>4. ASSUME NEW m \in Moves(v2) PROVE m[2] \in {s.name : s \in ToSet(states)}
      <4> HIDE DEF v2, states
      <4>1. PICK i \in DOMAIN v2.states :
              v2.states[i].onMatch.transition # <<>> /\ m[2] = v2.states[i].onMatch.transition[1]
        BY DEF Moves
      <4>2. TransitionFrom(graph, states[i]) # <<>> /\ m[2] = TransitionFrom(graph, states[i])[1]
        BY <3>1, <3>2, <4>1
      <4>3. PICK s \in ToSet(States(graph)) : TransitionFrom(graph, states[i]) = <<s.name>>
        BY <1>1, <4>2, TransitionFacts
      <4> QED  BY <4>2, <4>3 DEF states
    <3>5. names = {s.name : s \in ToSet(states)}
      <4> HIDE DEF v2, states
      <4>1. ToSet(states) = {states[i] : i \in DOMAIN states}
        BY DEF ToSet
      <4>2. \A i \in DOMAIN v2.states : i \in DOMAIN states /\ v2.states[i].id = states[i].name
        BY <3>1, <3>2
      <4>3. DOMAIN v2.states = DOMAIN states
        BY <3>1
      <4> QED  BY <4>1, <4>2, <4>3
    <3> HIDE DEF v2, states, names, unique
    <3> QED  BY <3>1, <3>3, <3>4, <3>5
  <2> QED  BY <2>2, <2>3
<1> QED  BY <1>1, DrawnInductive, PTL
=============================================================================
