----------------------------- MODULE Acceptance -----------------------------
(***************************************************************************)
(* The two scripts that run the control plane end to end on a developer's  *)
(* machine: boot.mjs (gateway, dev server of the UI, Playwright) and       *)
(* real-device-android.mjs (gateway, demo app on an emulator).  Both spawn *)
(* processes that outlive the steps which need them, on fixed ports, and   *)
(* the second one edits two files of another repository which it has to    *)
(* put back.                                                               *)
(*                                                                         *)
(* A script may be ended at any time: Ctrl-C goes to it and to everything  *)
(* it spawned, but its own handler runs only where the script awaits       *)
(* something; a kill runs no handler at all.  A file is copied or written  *)
(* in one step.  Left out are the databases, which are named by the clock, *)
(* and Playwright and logcat, which hold nothing another run could need.   *)
(***************************************************************************)
EXTENDS Naturals, Sequences, FiniteSets

CONSTANTS
  MaxRuns,              \* how many scripts are run, one after the other (bound)
  Original, Texts,      \* what is in the two files, and what the developer may write
  Deaf,                 \* names of processes that ignore SIGTERM
  MaxEdits,             \* how often the developer edits a file (bound)
  MaxDelay,             \* how many ticks a line of the device's log is under way
  Grace,                \* the 500 ms after the publish, in ticks
  Patience              \* four poll intervals, in ticks

ASSUME RunsAssumption == MaxRuns \in Nat
ASSUME DelayAssumption == MaxDelay \in Nat /\ Grace \in Nat /\ MaxDelay <= Grace

VARIABLES
  pc,          \* of a run: the step it is in, or how it ended
  interrupted, \* of a run: Ctrl-C was pressed
  proc,        \* of <<run, name>>: the process of that name the run spawned
  port,        \* of a name: the process that listens on the port of that name
  file,        \* the two files of the demo app
  backup,      \* their copies, next to them
  todo,        \* what the device run has still to do to the files
  cleanup,     \* cleanupTargets
  lines,       \* log lines under way: of a fetch after the publish, and since when
  published,   \* the gateway that has the policy the device run published
  since,       \* ticks since publishTimestamp
  confirmed,   \* the line the device run took for the confirmation
  edits,       \* how often the files were edited
  found,       \* history: the files when the device run started
  undisturbed, \* history: and it found no backup and no restoring failed
  owned        \* history: what the developer last wrote while no backup was there

scriptVars == <<pc, interrupted, proc, port>>
diskVars == <<file, backup, edits, owned>>
workVars == <<todo, cleanup, found, undisturbed>>
fileVars == <<diskVars, workVars>>
deviceVars == <<lines, published, since, confirmed>>
vars == <<scriptVars, fileVars, deviceVars>>

Absent == "absent"
Generated == "generated"
NoOne == <<>>
Files == {"config", "template"}
Runs == 1 .. MaxRuns
Servers == {"gateway", "ui"}
BootSteps == {"building", "gateway", "ui", "testing"}

\* Where a script awaits something, so that the handler of a signal can run.
Awaits == BootSteps \cup {"waiting", "settling", "publishing", "listening"}

Running(r) == pc[r] \in Awaits \cup {"preparing", "setup", "restoring", "catching"}

Init ==
  /\ pc = [r \in Runs |-> "idle"]
  /\ interrupted = {}
  /\ proc = [p \in Runs \X Servers |-> "none"]
  /\ port = [s \in Servers |-> NoOne]
  /\ file \in [Files -> {Original, Absent}] /\ file.template = Original
  /\ backup = [f \in Files |-> Absent]
  /\ edits = 0 /\ owned = file
  /\ todo = <<>> /\ cleanup = {} /\ found = file /\ undisturbed = TRUE
  /\ lines = {} /\ published = NoOne /\ since = 0 /\ confirmed = {}

-----------------------------------------------------------------------------
\* The processes.

\* spawnLogged.  The server listens on its port in a step of its own.
Spawn(r, name) == proc' = [proc EXCEPT ![<<r, name>>] = "starting"]

\* Mutation: only a process that listens is told to end.
KillListening(r) ==
  proc' = [p \in DOMAIN proc |-> IF p[1] = r /\ proc[p] = "up" THEN "asked" ELSE proc[p]]

\* killAll: SIGTERM to everything the run spawned.  The timer that would send
\* SIGKILL two seconds later never fires, for every caller exits at once.
KillAll(r) ==
  proc' = [p \in DOMAIN proc |->
             IF p[1] = r /\ proc[p] \in {"starting", "up"} THEN "asked" ELSE proc[p]]

\* Whoever answers on the port, waitFor is content.
Answers(name) == port[name] # NoOne

\* A server finds its port free, or ends.
Listen(p) ==
  /\ proc[p] = "starting"
  /\ IF Answers(p[2])
     THEN proc' = [proc EXCEPT ![p] = "none"] /\ UNCHANGED port
     ELSE proc' = [proc EXCEPT ![p] = "up"] /\ port' = [port EXCEPT ![p[2]] = p]
  /\ UNCHANGED <<pc, interrupted, fileVars, deviceVars>>

\* A process that was told to end does so.
Obey(p) ==
  /\ proc[p] = "asked" /\ p[2] \notin Deaf
  /\ proc' = [proc EXCEPT ![p] = "none"]
  /\ port' = [s \in Servers |-> IF port[s] = p THEN NoOne ELSE port[s]]
  /\ UNCHANGED <<pc, interrupted, fileVars, deviceVars>>

\* With a script ends what it remembers.
Forget(r) ==
  /\ interrupted' = interrupted \ {r}
  /\ todo' = <<>> /\ cleanup' = {} /\ found' = file /\ undisturbed' = TRUE
  /\ lines' = {} /\ published' = NoOne /\ since' = 0 /\ confirmed' = {}

-----------------------------------------------------------------------------
\* Signals.

Step(r, from, to) == pc[r] = from /\ pc' = [pc EXCEPT ![r] = to]

\* Ctrl-C reaches the script and, as they share its terminal, what it spawned.
Interrupt(r) ==
  /\ Running(r) /\ r \notin interrupted
  /\ interrupted' = interrupted \cup {r}
  /\ KillAll(r)
  /\ UNCHANGED <<pc, port, fileVars, deviceVars>>

\* Mutation: the handler of SIGINT leaves the processes alone.
HandleQuietly(r) ==
  /\ r \in interrupted /\ pc[r] \in Awaits
  /\ pc' = [pc EXCEPT ![r] = "ended"]
  /\ Forget(r)
  /\ UNCHANGED <<proc, port, diskVars>>

\* The handler of SIGINT, which puts no file back.
HandleInterrupt(r) ==
  /\ r \in interrupted /\ pc[r] \in Awaits
  /\ pc' = [pc EXCEPT ![r] = "ended"]
  /\ KillAll(r) /\ Forget(r)
  /\ UNCHANGED <<port, diskVars>>

\* SIGTERM, for which boot.mjs has a handler ...
Terminate(r) ==
  /\ pc[r] \in BootSteps
  /\ pc' = [pc EXCEPT ![r] = "ended"]
  /\ KillAll(r) /\ Forget(r)
  /\ UNCHANGED <<port, diskVars>>

\* ... and what ends a script without any.
Kill(r) ==
  /\ Running(r)
  /\ pc' = [pc EXCEPT ![r] = "killed"]
  /\ Forget(r)
  /\ UNCHANGED <<proc, port, diskVars>>

-----------------------------------------------------------------------------
\* boot.mjs, all of whose steps are awaited.

\* The scripts use the same port and are run one after the other; the next one may
\* be started before the processes of the last have ended.
Turn(r) == \A earlier \in 1 .. r - 1 : pc[earlier] \in {"ended", "killed"}

BootStart(r) ==
  /\ Turn(r)
  /\ Step(r, "idle", "building")
  /\ UNCHANGED <<interrupted, proc, port, fileVars, deviceVars>>

\* The gateway is built and spawned; it answers, and the UI is spawned; it
\* answers, and the tests are.
BootNext(r, from, to) ==
  /\ Step(r, from, to) /\ (from \in Servers => Answers(from))
  /\ IF to \in Servers THEN Spawn(r, to) ELSE UNCHANGED proc
  /\ UNCHANGED <<interrupted, port, fileVars, deviceVars>>

\* The tests end, or one of the steps before them fails: exit with their code or 1.
BootEnd(r) ==
  /\ pc[r] \in BootSteps
  /\ pc' = [pc EXCEPT ![r] = "ended"]
  /\ KillAll(r) /\ Forget(r)
  /\ UNCHANGED <<port, diskVars>>

Boot(r) ==
  \/ BootStart(r)
  \/ BootNext(r, "building", "gateway") \/ BootNext(r, "gateway", "ui") \/ BootNext(r, "ui", "testing")
  \/ BootEnd(r)

-----------------------------------------------------------------------------
\* real-device-android.mjs.

Op(kind, f) == <<kind, f>>

\* Mutation: the targets are registered only when the files have been written.
RegistersLast ==
  <<Op("save", "config"), Op("save", "template"), Op("write", "template"),
    Op("write", "config"), Op("register", "config"), Op("register", "template")>>

SetUp ==
  <<Op("save", "config"), Op("save", "template"), Op("register", "config"),
    Op("register", "template"), Op("write", "template"), Op("write", "config")>>

\* restoreBackups: what it does for each of the targets.
PutBackOne(f) == IF f \in cleanup THEN <<Op("restore", f), Op("remove", f)>> ELSE <<>>
PutBack == PutBackOne("config") \o PutBackOne("template")

DeviceStart(r) ==
  /\ Turn(r)
  /\ Step(r, "idle", "preparing")
  /\ found' = file
  /\ undisturbed' = (\A f \in Files : backup[f] = Absent)
  /\ UNCHANGED <<interrupted, proc, port, diskVars, todo, cleanup, deviceVars>>

\* The emulator and the demo app are there, the gateway is built and spawned.
Prepared(r) ==
  /\ Step(r, "preparing", "waiting")
  /\ Spawn(r, "gateway")
  /\ UNCHANGED <<interrupted, port, fileVars, deviceVars>>

DeviceGateway(r) ==
  /\ Step(r, "waiting", "setup") /\ Answers("gateway")
  /\ todo' = SetUp
  /\ UNCHANGED <<interrupted, proc, port, file, backup, cleanup, edits, found, undisturbed,
                 owned, deviceVars>>

\* Mutation: a backup is made whether or not there is one.
SaveAlways(f) == backup' = [backup EXCEPT ![f] = file[f]]

\* A file is copied unless it has a backup already: that one is of a run which
\* did not put it back.
Save(f) == backup' = [backup EXCEPT ![f] = IF @ = Absent THEN file[f] ELSE @]

\* Restoring copies the backup if there is one and then removes it; an error
\* ends the work on this target and is not reported.
RestoreFile(f) ==
  \/ /\ todo' = Tail(todo)
     /\ file' = [file EXCEPT ![f] = IF backup[f] = Absent THEN @ ELSE backup[f]]
     /\ UNCHANGED undisturbed
  \/ /\ todo' = Tail(Tail(todo)) /\ undisturbed' = FALSE
     /\ UNCHANGED file

\* The next step on the files.
FileStep(r) ==
  LET op == Head(todo)
      f  == op[2]
  IN  /\ pc[r] \in {"setup", "restoring", "catching"} /\ todo # <<>>
      /\ \/ /\ op[1] = "save" /\ Save(f) /\ todo' = Tail(todo)
            /\ UNCHANGED <<file, cleanup, undisturbed>>
         \/ /\ op[1] = "register" /\ cleanup' = cleanup \cup {f} /\ todo' = Tail(todo)
            /\ UNCHANGED <<file, backup, undisturbed>>
         \/ /\ op[1] = "write" /\ file' = [file EXCEPT ![f] = Generated] /\ todo' = Tail(todo)
            /\ UNCHANGED <<backup, cleanup, undisturbed>>
         \/ /\ op[1] = "restore" /\ RestoreFile(f)
            /\ UNCHANGED <<backup, cleanup>>
         \/ /\ op[1] = "remove" /\ todo' = Tail(todo)
            /\ \/ backup' = [backup EXCEPT ![f] = Absent] /\ UNCHANGED undisturbed
               \/ undisturbed' = FALSE /\ UNCHANGED backup
            /\ UNCHANGED <<file, cleanup>>
      /\ UNCHANGED <<scriptVars, edits, found, owned, deviceVars>>

\* The app is built, which makes the config from the template, installed and
\* launched, and its log is followed.
Launch(r) ==
  /\ Step(r, "setup", "settling") /\ todo = <<>>
  /\ file' = [file EXCEPT !.config = file.template]
  /\ UNCHANGED <<interrupted, proc, port, backup, todo, cleanup, edits, found, undisturbed, owned,
                 deviceVars>>

\* The app has had the time of one poll.
Settled(r) ==
  /\ Step(r, "settling", "publishing")
  /\ UNCHANGED <<interrupted, proc, port, fileVars, deviceVars>>

\* The gateway serves the publish ...
ServePublish(r) ==
  /\ pc[r] = "publishing" /\ published = NoOne /\ Answers("gateway")
  /\ published' = port["gateway"]
  /\ UNCHANGED <<scriptVars, fileVars, lines, since, confirmed>>

\* ... and the script has its answer.
Published(r) ==
  /\ Step(r, "publishing", "listening") /\ published # NoOne
  /\ since' = 0
  /\ UNCHANGED <<interrupted, proc, port, fileVars, lines, published, confirmed>>

\* The app fetches its configuration and logs it.
Poll(r) ==
  /\ pc[r] \in {"settling", "publishing", "listening"} /\ Answers("gateway")
  /\ lines = {} \* bound: one line under way
  /\ lines' = {[fresh |-> port["gateway"] = published, age |-> 0]}
  /\ UNCHANGED <<scriptVars, fileVars, published, since, confirmed>>

Tick(r) ==
  /\ pc[r] \in {"publishing", "listening"} /\ since < Patience
  /\ \A line \in lines : line.age < MaxDelay
  /\ lines' = {[line EXCEPT !.age = @ + 1] : line \in lines}
  /\ since' = IF pc[r] = "listening" THEN since + 1 ELSE since
  /\ UNCHANGED <<scriptVars, fileVars, published, confirmed>>

\* Mutation: a line counts as soon as the publish has been answered.
CountsAtOnce == TRUE

Counts == since > Grace

\* A line arrives, and counts unless it comes too soon after the publish.
Arrive(r, line) ==
  /\ pc[r] \in {"settling", "publishing", "listening"}
  /\ lines' = lines \ {line}
  /\ IF pc[r] = "listening" /\ Counts
     THEN /\ confirmed' = {line}
          /\ pc' = [pc EXCEPT ![r] = "restoring"]
          /\ KillAll(r)
          /\ todo' = PutBack
     ELSE UNCHANGED <<confirmed, pc, proc, todo>>
  /\ UNCHANGED <<interrupted, port, file, backup, cleanup, edits, found, undisturbed, owned,
                 published, since>>

\* A step fails, a wait takes too long or a child was interrupted: the rejection
\* reaches the catch at the end of the script, whatever the step.
Catch(r) ==
  /\ pc[r] \in {"preparing", "waiting", "setup", "publishing", "listening"}
  /\ pc' = [pc EXCEPT ![r] = "catching"]
  /\ todo' = PutBack
  /\ UNCHANGED <<interrupted, proc, port, file, backup, cleanup, edits, found, undisturbed,
                 owned, deviceVars>>

DeviceEnd(r) ==
  /\ pc[r] \in {"restoring", "catching"} /\ todo = <<>>
  /\ pc' = [pc EXCEPT ![r] = "ended"]
  /\ KillAll(r) /\ Forget(r)
  /\ UNCHANGED <<port, diskVars>>

Device(r) ==
  \/ DeviceStart(r) \/ Prepared(r) \/ DeviceGateway(r) \/ FileStep(r) \/ Launch(r)
  \/ Settled(r) \/ ServePublish(r) \/ Published(r) \/ Poll(r) \/ Tick(r)
  \/ \E line \in lines : Arrive(r, line)
  \/ Catch(r) \/ DeviceEnd(r)

\* The developer edits a file, between two runs.
Edit(f, text) ==
  /\ \A r \in Runs : ~Running(r)
  /\ edits < MaxEdits /\ edits' = edits + 1
  /\ file' = [file EXCEPT ![f] = text]
  /\ owned' = [owned EXCEPT ![f] = IF backup[f] = Absent THEN text ELSE @]
  /\ UNCHANGED <<scriptVars, backup, todo, cleanup, found, undisturbed, deviceVars>>

-----------------------------------------------------------------------------
Next ==
  \/ \E r \in Runs : Boot(r) \/ Device(r)
  \/ \E r \in Runs : Interrupt(r) \/ HandleInterrupt(r) \/ Terminate(r) \/ Kill(r)
  \/ \E p \in Runs \X Servers : Listen(p) \/ Obey(p)
  \/ \E f \in Files, text \in Texts : Edit(f, text)

\* The operating system delivers signals, and who heeds them ends.
Spec == Init /\ [][Next]_vars /\ \A p \in Runs \X Servers : WF_vars(Obey(p))
-----------------------------------------------------------------------------
\* What the developer wrote into a file while no backup of it lay there is in the
\* file or in its backup, however runs were interrupted, killed or failed, and
\* whatever the next run found: "so the user doesn't have unexpected diffs".
OriginalsRecoverable ==
  \A f \in Files : owned[f] # Absent => owned[f] \in {file[f], backup[f]}

\* A device run that comes to its end or to its catch leaves the files with the
\* contents it found: "failures anywhere downstream still revert" them.  Excepted
\* are a file that was absent (it has no backup, so that the generated one stays), a
\* run that found backups of an earlier one, and one in which restoring a file failed,
\* which the script swallows.
FilesRestored ==
  [][\A r \in Runs, f \in Files :
       /\ pc[r] \in {"restoring", "catching"} /\ pc[r]' = "ended"
       /\ undisturbed /\ found[f] # Absent
       => file[f]' = found[f]]_vars

\* The line a device run takes for the confirmation is of a fetch that the
\* gateway served after the publish, provided the gateway is the run's own.
ConfirmedFetchedNew ==
  \A r \in Runs \ interrupted :
    pc[r] = "restoring" /\ published = <<r, "gateway">> => \A line \in confirmed : line.fresh

\* Whichever way a script ends itself, what it spawned and heeds SIGTERM is
\* gone some time later, the processes it spawned last included.
TornDown ==
  \A p \in Runs \X Servers :
    p[2] \notin Deaf =>
      (pc[p[1]] = "ended" ~> proc[p] = "none")
=============================================================================
