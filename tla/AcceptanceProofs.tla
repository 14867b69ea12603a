-------------------------- MODULE AcceptanceProofs --------------------------
(***************************************************************************)
(* The acceptance scripts for any number of runs: no text the developer    *)
(* wrote is lost however runs are interrupted or killed, a device run that *)
(* ends itself has put the files back, and what it takes for the           *)
(* confirmation is of the policy it published.  One run is active at a     *)
(* time; what makes the rest inductive is what the list of steps that are  *)
(* still to be done says about the files, and that a log line which was    *)
(* under way at the publish is at least as old as the wait for it.         *)
(***************************************************************************)
EXTENDS Acceptance, SequenceTheorems, FiniteSetTheorems, TLAPS

Contents == {Original, Absent, Generated} \cup Texts
Over == {"ended", "killed"}
DeviceSteps == {"setup", "settling", "publishing", "listening", "restoring", "catching"}
Labels == BootSteps \cup DeviceSteps \cup Over \cup {"idle", "preparing", "waiting"}

\* What may be left of setting up and of putting back.
SetUps ==
  {SetUp,
   <<Op("save", "template"), Op("register", "config"), Op("register", "template"),
     Op("write", "template"), Op("write", "config")>>,
   <<Op("register", "config"), Op("register", "template"),
     Op("write", "template"), Op("write", "config")>>,
   <<Op("register", "template"), Op("write", "template"), Op("write", "config")>>,
   <<Op("write", "template"), Op("write", "config")>>,
   <<Op("write", "config")>>,
   <<>>}
PutBacks ==
  {<<Op("restore", "config"), Op("remove", "config"),
     Op("restore", "template"), Op("remove", "template")>>,
   <<Op("remove", "config"), Op("restore", "template"), Op("remove", "template")>>,
   <<Op("restore", "template"), Op("remove", "template")>>,
   <<Op("remove", "template")>>,
   <<Op("restore", "config"), Op("remove", "config")>>,
   <<Op("remove", "config")>>,
   <<>>}

\* An operation is in a list; it is still to be done.
In(list, kind, f) == \E i \in 1 .. Len(list) : list[i] = Op(kind, f)
Left(kind, f) == In(todo, kind, f)

TypeInv ==
  /\ pc \in [Runs -> Labels]
  /\ proc \in [Runs \X Servers -> {"none", "starting", "up", "asked"}]
  /\ port \in [Servers -> {NoOne} \cup (Runs \X Servers)]
  /\ file \in [Files -> Contents] /\ backup \in [Files -> Contents]
  /\ owned \in [Files -> Contents]
  /\ cleanup \subseteq Files /\ todo \in SetUps \cup PutBacks
  /\ lines \subseteq [fresh : BOOLEAN, age : 0 .. MaxDelay] /\ since \in Nat

\* A run that was started comes after all the earlier ones.
OneAtATime == \A r \in Runs : pc[r] # "idle" => \A earlier \in 1 .. r - 1 : pc[earlier] \in Over

\* With a run in the given step: what is to be done fits the step, and cleanup what has been done.
TodoAt(step) ==
  /\ step = "setup" => todo \in SetUps /\ \A f \in Files : f \in cleanup <=> ~Left("register", f)
  /\ step \in {"restoring", "catching"} => todo \in PutBacks
  /\ step \in {"settling", "publishing", "listening"} => cleanup = Files
  /\ step \notin {"setup", "restoring", "catching"} => todo = <<>>
  /\ step \notin DeviceSteps => cleanup = {}

\* The developer's text is in the backup if there is one; a file is overwritten only after
\* it has been saved, and its backup removed only after it has been restored.
TextsAt(step) ==
  \A f \in Files : owned[f] # Absent =>
    /\ owned[f] = IF backup[f] = Absent THEN file[f] ELSE backup[f]
    /\ step = "setup" /\ ~Left("save", f) => backup[f] # Absent
    /\ todo # <<>> /\ Head(todo) = Op("remove", f) => file[f] = owned[f]

\* Where a device run that nothing disturbs has what it found.
FoundAt(step) ==
  \A f \in Files : undisturbed /\ found[f] # Absent =>
    /\ step \in {"preparing", "waiting"} => file[f] = found[f] /\ backup[f] = Absent
    /\ step = "setup" =>
         /\ f \notin cleanup => file[f] = found[f]
         /\ backup[f] = IF Left("save", f) THEN Absent ELSE found[f]
    /\ step \in {"settling", "publishing", "listening"} => backup[f] = found[f]
    /\ step \in {"restoring", "catching"} =>
         found[f] = IF Left("restore", f) THEN backup[f] ELSE file[f]

FilesAt(step) == TodoAt(step) /\ TextsAt(step) /\ FoundAt(step)

Asleep(r) == pc[r] \in {"idle"} \cup Over

FilesInv ==
  /\ \A r \in Runs : ~Asleep(r) => FilesAt(pc[r])
  /\ (\A r \in Runs : Asleep(r)) => FilesAt("idle")

\* Who listens has not ended.
PortsServed ==
  \A s \in Servers : port[s] # NoOne => port[s][2] = s /\ proc[port[s]] \in {"up", "asked"}

\* A run spawns each process once, and tells it to end only when it is interrupted or over.
SpawnsOf(r) ==
  /\ pc[r] \in {"idle", "building", "preparing"} => \A s \in Servers : proc[<<r, s>>] = "none"
  /\ pc[r] = "gateway" => proc[<<r, "ui">>] = "none"
  /\ \A s \in Servers :
       proc[<<r, s>>] = "asked" /\ pc[r] \notin Over \cup {"restoring", "catching"}
         => r \in interrupted

\* While a run waits for its confirmation, its gateway serves; a line from before the
\* publish is as old as that, and the line it takes is none of those.
LinesOf(r) ==
  r \notin interrupted /\ published = <<r, "gateway">> =>
    /\ pc[r] \in {"publishing", "listening"} =>
         port["gateway"] = published /\ proc[published] = "up"
    /\ pc[r] = "listening" => \A line \in lines : ~line.fresh => line.age >= since
    /\ pc[r] = "restoring" => \A line \in confirmed : line.fresh

\* What a run published is forgotten with the run.
PublishedHeld ==
  published # NoOne =>
    \E r \in Runs : pc[r] \in {"publishing", "listening", "restoring", "catching"}

GateInv ==
  /\ PortsServed /\ PublishedHeld
  /\ \A r \in Runs : SpawnsOf(r) /\ LinesOf(r)

IInv == TypeInv /\ OneAtATime /\ FilesInv /\ GateInv

-----------------------------------------------------------------------------
\* Operations are told apart by kind and file.
LEMMA OpsDiffer ==
  ASSUME NEW k, NEW f, NEW l, NEW g
  PROVE  Op(k, f) = Op(l, g) <=> k = l /\ f = g
BY DEF Op

\* The members of the lists of operations, by their length.
LEMMA Members0 ==
  ASSUME NEW k, NEW f
  PROVE  In(<<>>, k, f) <=> Op(k, f) \in {}
BY DEF In

LEMMA Members1 ==
  ASSUME NEW a, NEW k, NEW f
  PROVE  In(<<a>>, k, f) <=> Op(k, f) \in {a}
BY DEF In

LEMMA Members2 ==
  ASSUME NEW a, NEW b, NEW k, NEW f
  PROVE  In(<<a, b>>, k, f) <=> Op(k, f) \in {a, b}
BY DEF In

LEMMA Members3 ==
  ASSUME NEW a, NEW b, NEW c, NEW k, NEW f
  PROVE  In(<<a, b, c>>, k, f) <=> Op(k, f) \in {a, b, c}
BY DEF In

LEMMA Members4 ==
  ASSUME NEW a, NEW b, NEW c, NEW d, NEW k, NEW f
  PROVE  In(<<a, b, c, d>>, k, f) <=> Op(k, f) \in {a, b, c, d}
BY DEF In

LEMMA Members5 ==
  ASSUME NEW a, NEW b, NEW c, NEW d, NEW e, NEW k, NEW f
  PROVE  In(<<a, b, c, d, e>>, k, f) <=> Op(k, f) \in {a, b, c, d, e}
BY DEF In

LEMMA Members6 ==
  ASSUME NEW a, NEW b, NEW c, NEW d, NEW e, NEW g, NEW k, NEW f
  PROVE  In(<<a, b, c, d, e, g>>, k, f) <=> Op(k, f) \in {a, b, c, d, e, g}
BY DEF In

\* What is left of setting up, after its first operation: a file is saved and registered
\* once, before any is registered and before any is written respectively.
LEMMA SetUpParts ==
  ASSUME NEW s \in SetUps, s # <<>>
  PROVE  /\ Tail(s) \in SetUps
         /\ \/ \E f \in Files :
                 /\ Head(s) = Op("save", f) /\ In(s, "save", f)
                 /\ \A g \in Files : In(Tail(s), "save", g) <=> In(s, "save", g) /\ g # f
                 /\ \A g \in Files : In(Tail(s), "register", g) /\ In(s, "register", g)
            \/ \E f \in Files :
                 /\ Head(s) = Op("register", f)
                 /\ \A g \in Files : ~In(s, "save", g) /\ ~In(Tail(s), "save", g)
                 /\ \A g \in Files : In(Tail(s), "register", g) <=> In(s, "register", g) /\ g # f
            \/ \E f \in Files :
                 /\ Head(s) = Op("write", f)
                 /\ \A g \in Files : ~In(s, "save", g) /\ ~In(Tail(s), "save", g)
                 /\ \A g \in Files : ~In(s, "register", g) /\ ~In(Tail(s), "register", g)
<1>0. Files = {"config", "template"}
  BY DEF Files
<1>1. CASE s = SetUp
  <2>1. /\ Head(s) = Op("save", "config")
        /\ Tail(s) = <<Op("save", "template"), Op("register", "config"), Op("register", "template"),
                       Op("write", "template"), Op("write", "config")>>
    BY <1>1 DEF SetUp
  <2> QED  BY <1>0, <1>1, <2>1, Members5, Members6, OpsDiffer DEF SetUps, SetUp
<1>2. CASE s = <<Op("save", "template"), Op("register", "config"), Op("register", "template"),
                 Op("write", "template"), Op("write", "config")>>
  <2>1. /\ Head(s) = Op("save", "template")
        /\ Tail(s) = <<Op("register", "config"), Op("register", "template"),
                       Op("write", "template"), Op("write", "config")>>
    BY <1>2
  <2> QED  BY <1>0, <1>2, <2>1, Members4, Members5, OpsDiffer DEF SetUps
<1>3. CASE s = <<Op("register", "config"), Op("register", "template"),
                 Op("write", "template"), Op("write", "config")>>
  <2>1. /\ Head(s) = Op("register", "config")
        /\ Tail(s) = <<Op("register", "template"), Op("write", "template"), Op("write", "config")>>
    BY <1>3
  <2> QED  BY <1>0, <1>3, <2>1, Members3, Members4, OpsDiffer DEF SetUps
<1>4. CASE s = <<Op("register", "template"), Op("write", "template"), Op("write", "config")>>
  <2>1. /\ Head(s) = Op("register", "template")
        /\ Tail(s) = <<Op("write", "template"), Op("write", "config")>>
    BY <1>4
  <2> QED  BY <1>0, <1>4, <2>1, Members2, Members3, OpsDiffer DEF SetUps
<1>5. CASE s = <<Op("write", "template"), Op("write", "config")>>
  <2>1. Head(s) = Op("write", "template") /\ Tail(s) = <<Op("write", "config")>>
    BY <1>5
  <2> QED  BY <1>0, <1>5, <2>1, Members1, Members2, OpsDiffer DEF SetUps
<1>6. CASE s = <<Op("write", "config")>>
  <2>1. Head(s) = Op("write", "config") /\ Tail(s) = <<>>
    BY <1>6
  <2> QED  BY <1>0, <1>6, <2>1, Members0, Members1, OpsDiffer DEF SetUps
<1> QED  BY <1>1, <1>2, <1>3, <1>4, <1>5, <1>6 DEF SetUps

\* What is left of putting back: each backup is removed right after it was restored.
LEMMA PutBackParts ==
  ASSUME NEW s \in PutBacks, s # <<>>
  PROVE  /\ Tail(s) \in PutBacks
         /\ \/ \E f \in Files :
                 /\ Head(s) = Op("restore", f) /\ In(s, "restore", f)
                 /\ Head(Tail(s)) = Op("remove", f)
                 /\ Tail(Tail(s)) \in PutBacks
                 /\ \A g \in Files : Tail(Tail(s)) # <<>> => Head(Tail(Tail(s))) # Op("remove", g)
                 /\ \A g \in Files : In(Tail(s), "restore", g) <=> In(s, "restore", g) /\ g # f
            \/ \E f \in Files :
                 /\ Head(s) = Op("remove", f) /\ ~In(s, "restore", f)
                 /\ \A g \in Files : Tail(s) # <<>> => Head(Tail(s)) # Op("remove", g)
                 /\ \A g \in Files : In(Tail(s), "restore", g) <=> In(s, "restore", g)
<1> DEFINE rc == Op("restore", "config")
           mc == Op("remove", "config")
           rt == Op("restore", "template")
           mt == Op("remove", "template")
<1>0. /\ Files = {"config", "template"}
      /\ PutBacks = {<<rc, mc, rt, mt>>, <<mc, rt, mt>>, <<rt, mt>>, <<mt>>,
                     <<rc, mc>>, <<mc>>, <<>>}
  BY DEF Files, PutBacks
<1>1. CASE s = <<rc, mc, rt, mt>>
  <2>1. /\ Head(s) = rc /\ Tail(s) = <<mc, rt, mt>> /\ Head(<<mc, rt, mt>>) = mc
        /\ Tail(<<mc, rt, mt>>) = <<rt, mt>> /\ Head(<<rt, mt>>) = rt
    BY <1>1
  <2> HIDE DEF rc, mc, rt, mt
  <2>2. \A k, f : /\ In(s, k, f) <=> Op(k, f) \in {rc, mc, rt, mt}
                  /\ In(Tail(s), k, f) <=> Op(k, f) \in {mc, rt, mt}
    BY <1>1, <2>1, Members3, Members4
  <2>3. /\ Head(s) = Op("restore", "config") /\ In(s, "restore", "config")
        /\ Head(Tail(s)) = Op("remove", "config")
    BY <2>1, <2>2 DEF rc, mc
  <2>4. Tail(s) \in PutBacks /\ Tail(Tail(s)) \in PutBacks
    BY <1>0, <2>1
  <2>5. \A g \in Files : Head(Tail(Tail(s))) # Op("remove", g)
    <3>1. Head(Tail(Tail(s))) = rt
      BY <2>1
    <3>2. \A g \in Files : rt # Op("remove", g)
      BY OpsDiffer DEF rt
    <3> QED  BY <3>1, <3>2
  <2>6. \A g \in Files : In(Tail(s), "restore", g) <=> In(s, "restore", g) /\ g # "config"
    <3> SUFFICES ASSUME NEW g \in Files
                 PROVE  In(Tail(s), "restore", g) <=> In(s, "restore", g) /\ g # "config"
      OBVIOUS
    <3>1. /\ Op("restore", g) = rc <=> g = "config"
          /\ Op("restore", g) # mc /\ Op("restore", g) # mt
      BY OpsDiffer DEF rc, mc, mt
    <3>2. rt = Op("restore", "template")
      BY DEF rt
    <3>3. Op("restore", g) = rt => g # "config"
      BY <3>2, OpsDiffer
    <3> QED  BY <2>2, <3>1, <3>3
  <2> QED  BY <1>0, <2>3, <2>4, <2>5, <2>6
<1>2. CASE s = <<mc, rt, mt>>
  <2>1. /\ Head(s) = mc /\ Tail(s) = <<rt, mt>> /\ Head(<<rt, mt>>) = rt
    BY <1>2
  <2> HIDE DEF rc, mc, rt, mt
  <2>2. \A k, f : /\ In(s, k, f) <=> Op(k, f) \in {mc, rt, mt}
                  /\ In(Tail(s), k, f) <=> Op(k, f) \in {rt, mt}
    BY <1>2, <2>1, Members2, Members3
  <2> QED  BY <1>0, <2>1, <2>2, OpsDiffer DEF rc, mc, rt, mt
<1>3. CASE s = <<rt, mt>>
  <2>1. /\ Head(s) = rt /\ Tail(s) = <<mt>> /\ Head(<<mt>>) = mt /\ Tail(<<mt>>) = <<>>
    BY <1>3
  <2> HIDE DEF rc, mc, rt, mt
  <2>2. \A k, f : /\ In(s, k, f) <=> Op(k, f) \in {rt, mt}
                  /\ In(Tail(s), k, f) <=> Op(k, f) \in {mt}
    BY <1>3, <2>1, Members1, Members2
  <2> QED  BY <1>0, <2>1, <2>2, OpsDiffer DEF rc, mc, rt, mt
<1>4. CASE s = <<rc, mc>>
  <2>1. /\ Head(s) = rc /\ Tail(s) = <<mc>> /\ Head(<<mc>>) = mc /\ Tail(<<mc>>) = <<>>
    BY <1>4
  <2> HIDE DEF rc, mc, rt, mt
  <2>2. \A k, f : /\ In(s, k, f) <=> Op(k, f) \in {rc, mc}
                  /\ In(Tail(s), k, f) <=> Op(k, f) \in {mc}
    BY <1>4, <2>1, Members1, Members2
  <2> QED  BY <1>0, <2>1, <2>2, OpsDiffer DEF rc, mc, rt, mt
<1>5. CASE s = <<mt>> \/ s = <<mc>>
  <2>1. PICK f \in Files : s = <<Op("remove", f)>>
    BY <1>0, <1>5
  <2>2. Head(s) = Op("remove", f) /\ Tail(s) = <<>>
    BY <2>1
  <2>3. \A g : ~In(s, "restore", g) /\ ~In(<<>>, "restore", g)
    BY <2>1, Members0, Members1, OpsDiffer
  <2> QED  BY <1>0, <2>2, <2>3
<1> QED  BY <1>0, <1>1, <1>2, <1>3, <1>4, <1>5

\* Two lists of two operations make one of four.
LEMMA TwoAndTwo ==
  ASSUME NEW a, NEW b, NEW c, NEW d
  PROVE  <<a, b>> \o <<c, d>> = <<a, b, c, d>>
<1> DEFINE S == {a, b, c, d}
           p == <<a, b>>
           q == <<c, d>>
           s == p \o q
           t == <<a, b, c, d>>
<1>1. /\ p \in Seq(S) /\ q \in Seq(S) /\ t \in Seq(S) /\ Len(p) = 2 /\ Len(q) = 2 /\ Len(t) = 4
      /\ p[1] = a /\ p[2] = b /\ q[1] = c /\ q[2] = d
      /\ t[1] = a /\ t[2] = b /\ t[3] = c /\ t[4] = d
  OBVIOUS
<1> HIDE DEF p, q, S, t
<1>2. /\ s \in Seq(S) /\ Len(s) = Len(p) + Len(q)
      /\ \A i \in 1 .. Len(p) + Len(q) : s[i] = IF i <= Len(p) THEN p[i] ELSE q[i - Len(p)]
  BY <1>1, ConcatProperties
<1> HIDE DEF s
<1>3. Len(s) = 4 /\ \A i \in 1 .. 4 : s[i] = t[i]
  BY <1>1, <1>2
<1>4. s = t
  BY <1>1, <1>2, <1>3, SeqEqual
<1> QED  BY <1>4 DEF p, q, s, t

\* restoreBackups restores what is in cleanup.
LEMMA PutBackFits ==
  ASSUME cleanup \subseteq Files
  PROVE  /\ PutBack \in PutBacks
         /\ \A f \in Files : In(PutBack, "restore", f) <=> f \in cleanup
         /\ \A f \in Files : PutBack # <<>> => Head(PutBack) # Op("remove", f)
<1> DEFINE rc == Op("restore", "config")
           mc == Op("remove", "config")
           rt == Op("restore", "template")
           mt == Op("remove", "template")
<1>0. /\ Files = {"config", "template"}
      /\ PutBacks = {<<rc, mc, rt, mt>>, <<mc, rt, mt>>, <<rt, mt>>, <<mt>>,
                     <<rc, mc>>, <<mc>>, <<>>}
  BY DEF Files, PutBacks
<1>1. CASE "config" \in cleanup /\ "template" \in cleanup
  <2>1. PutBack = <<rc, mc, rt, mt>>
    BY <1>1, TwoAndTwo DEF PutBack, PutBackOne
  <2>2. Head(<<rc, mc, rt, mt>>) = rc
    OBVIOUS
  <2> HIDE DEF rc, mc, rt, mt
  <2>3. \A f : In(PutBack, "restore", f) <=> Op("restore", f) \in {rc, mc, rt, mt}
    BY <2>1, Members4
  <2> QED  BY <1>0, <1>1, <2>1, <2>2, <2>3, OpsDiffer DEF rc, mc, rt, mt
<1>2. CASE "config" \in cleanup /\ "template" \notin cleanup
  <2>1. PutBack = <<rc, mc>>
    BY <1>2 DEF PutBack, PutBackOne
  <2>2. Head(<<rc, mc>>) = rc
    OBVIOUS
  <2> HIDE DEF rc, mc, rt, mt
  <2>3. \A f : In(PutBack, "restore", f) <=> Op("restore", f) \in {rc, mc}
    BY <2>1, Members2
  <2> QED  BY <1>0, <1>2, <2>1, <2>2, <2>3, OpsDiffer DEF rc, mc, rt, mt
<1>3. CASE "config" \notin cleanup /\ "template" \in cleanup
  <2>1. PutBack = <<rt, mt>>
    BY <1>3 DEF PutBack, PutBackOne
  <2>2. Head(<<rt, mt>>) = rt
    OBVIOUS
  <2> HIDE DEF rc, mc, rt, mt
  <2>3. \A f : In(PutBack, "restore", f) <=> Op("restore", f) \in {rt, mt}
    BY <2>1, Members2
  <2> QED  BY <1>0, <1>3, <2>1, <2>2, <2>3, OpsDiffer DEF rc, mc, rt, mt
<1>4. CASE "config" \notin cleanup /\ "template" \notin cleanup
  <2>1. PutBack = <<>>
    BY <1>4 DEF PutBack, PutBackOne
  <2> QED  BY <1>0, <1>4, <2>1, Members0
<1> QED  BY <1>1, <1>2, <1>3, <1>4

-----------------------------------------------------------------------------
\* One run at a time.

\* While a run is active, and when it starts, all the others are not.
LEMMA OthersAsleep ==
  ASSUME TypeInv, OneAtATime, NEW r \in Runs, ~Asleep(r) \/ (pc[r] = "idle" /\ Turn(r))
  PROVE  \A q \in Runs : q # r => Asleep(q)
<1> SUFFICES ASSUME NEW q \in Runs, q # r PROVE Asleep(q)
  OBVIOUS
<1>1. r \in Int /\ q \in Int /\ r >= 1 /\ q >= 1
  BY RunsAssumption DEF Runs
<1>2. CASE q < r
  <2>1. q \in 1 .. r - 1
    BY <1>1, <1>2
  <2> QED  BY <2>1 DEF OneAtATime, Asleep, Turn, Over
<1>3. CASE q > r
  <2>1. r \in 1 .. q - 1
    BY <1>1, <1>3
  <2> QED  BY <2>1 DEF OneAtATime, Asleep, Over
<1> QED  BY <1>1, <1>2, <1>3

\* Moving the active run, or the one whose turn it is, keeps that.
LEMMA ControlStep ==
  ASSUME TypeInv, OneAtATime, NEW r \in Runs, ~Asleep(r) \/ (pc[r] = "idle" /\ Turn(r)),
         NEW to \in Labels \ {"idle"}, pc' = [pc EXCEPT ![r] = to]
  PROVE  OneAtATime' /\ pc' \in [Runs -> Labels]
<1>0. pc \in [Runs -> Labels]
  BY DEF TypeInv
<1>1. pc' \in [Runs -> Labels] /\ pc'[r] = to /\ \A q \in Runs : q # r => pc'[q] = pc[q]
  BY <1>0
<1>2. SUFFICES ASSUME NEW q \in Runs, pc'[q] # "idle", NEW earlier \in 1 .. q - 1
               PROVE  pc'[earlier] \in Over
  BY <1>1 DEF OneAtATime
<1>3. earlier \in Runs /\ earlier # q
  BY RunsAssumption DEF Runs
<1>4. CASE q = r
  BY <1>1, <1>2, <1>3, <1>4 DEF OneAtATime, Asleep, Turn, Over
<1>5. CASE q # r
  <2>1. pc[earlier] \in Over
    BY <1>1, <1>2, <1>5 DEF OneAtATime
  <2>2. earlier # r
    BY <2>1 DEF Asleep, Over
  <2> QED  BY <1>1, <1>3, <2>1, <2>2
<1> QED  BY <1>4, <1>5

-----------------------------------------------------------------------------
\* The files.

\* With all the other runs asleep, it is the step of this one that counts, before ...
LEMMA FilesOfRun ==
  ASSUME FilesInv, NEW r \in Runs, \A q \in Runs : q # r => Asleep(q)
  PROVE  FilesAt(IF Asleep(r) THEN "idle" ELSE pc[r])
<1>1. CASE Asleep(r)
  BY <1>1 DEF FilesInv
<1>2. CASE ~Asleep(r)
  BY <1>2 DEF FilesInv
<1> QED  BY <1>1, <1>2

\* ... and after a step that moves it.
LEMMA FilesMoved ==
  ASSUME TypeInv, NEW r \in Runs, \A q \in Runs : q # r => Asleep(q),
         NEW to \in Labels, pc' = [pc EXCEPT ![r] = to],
         FilesAt(IF to \in {"idle"} \cup Over THEN "idle" ELSE to)'
  PROVE  FilesInv'
<1>0. pc \in [Runs -> Labels]
  BY DEF TypeInv
<1>1. pc'[r] = to /\ \A q \in Runs : q # r => Asleep(q)'
  BY <1>0 DEF Asleep
<1>2. CASE to \in {"idle"} \cup Over
  <2>1. FilesAt("idle")'
    BY <1>2
  <2>2. \A q \in Runs : Asleep(q)'
    BY <1>1, <1>2 DEF Asleep
  <2> QED  BY <2>1, <2>2 DEF FilesInv
<1>3. CASE to \notin {"idle"} \cup Over
  <2>1. FilesAt(to)'
    BY <1>3
  <2>2. ~Asleep(r)' /\ \A q \in Runs : ~Asleep(q)' => q = r
    BY <1>1, <1>3 DEF Asleep
  <2>3. FilesAt(pc[r])'
    BY <1>1, <2>1 DEF FilesAt, TodoAt, TextsAt, FoundAt
  <2> QED  BY <2>2, <2>3 DEF FilesInv
<1> QED  BY <1>2, <1>3

\* Whoever leaves the files and the steps alone.
LEMMA FilesHold ==
  ASSUME FilesInv, pc' = pc, UNCHANGED fileVars
  PROVE  FilesInv'
BY DEF FilesInv, FilesAt, TodoAt, TextsAt, FoundAt, Left, Asleep, fileVars, diskVars, workVars

\* The steps that need the same of the files.
Alike(from, to) ==
  \/ from \in BootSteps \cup {"idle"} /\ to \in BootSteps
  \/ from \in {"preparing", "waiting"} /\ to \in {"preparing", "waiting"}
  \/ /\ from \in {"settling", "publishing", "listening"}
     /\ to \in {"settling", "publishing", "listening"}

\* A step that passes from one of them to another.
LEMMA FilesPassed ==
  ASSUME TypeInv, FilesInv, NEW r \in Runs, \A q \in Runs : q # r => Asleep(q),
         NEW to \in Labels, Alike(pc[r], to), pc' = [pc EXCEPT ![r] = to], UNCHANGED fileVars
  PROVE  FilesInv'
<1>0. /\ to \notin {"idle"} \cup Over
      /\ (IF Asleep(r) THEN "idle" ELSE pc[r]) = pc[r]
  BY DEF Alike, Asleep, Over, BootSteps
<1>1. FilesAt(pc[r])
  BY <1>0, FilesOfRun
<1>2. FilesAt(to)'
  BY <1>1 DEF Alike, FilesAt, TodoAt, TextsAt, FoundAt, Left, BootSteps, DeviceSteps,
              fileVars, diskVars, workVars
<1>3. FilesAt(IF to \in {"idle"} \cup Over THEN "idle" ELSE to)'
  BY <1>0, <1>2
<1> QED  BY <1>3, FilesMoved

\* The end of a run, however it comes.
LEMMA FilesEnded ==
  ASSUME TypeInv, FilesInv, NEW r \in Runs, \A q \in Runs : q # r => Asleep(q),
         NEW to \in Over, pc' = [pc EXCEPT ![r] = to], Forget(r), UNCHANGED diskVars
  PROVE  FilesInv'
<1>1. PICK step : FilesAt(step)
  BY FilesOfRun
<1>2. FilesAt("idle")'
  BY <1>1 DEF FilesAt, TodoAt, TextsAt, FoundAt, DeviceSteps, Forget, diskVars
<1>3. FilesAt(IF to \in {"idle"} \cup Over THEN "idle" ELSE to)'
  BY <1>2
<1> QED  BY <1>3, FilesMoved DEF Labels

\* In what is left of setting up, whatever is still to be saved is still to be registered,
\* and nothing is removed.
LEMMA SetUpKinds ==
  ASSUME NEW s \in SetUps, NEW f \in Files
  PROVE  /\ In(s, "save", f) => In(s, "register", f)
         /\ s # <<>> => Head(s) # Op("remove", f)
<1>1. CASE s = <<>>
  BY <1>1, Members0
<1>2. CASE s # <<>>
  <2>1. \E k \in {"save", "register", "write"}, g \in Files : Head(s) = Op(k, g)
    BY <1>2, SetUpParts
  <2>2. Head(s) # Op("remove", f)
    BY <2>1, OpsDiffer
  <2>3. In(s, "save", f) => In(s, "register", f)
    BY <1>2, SetUpParts
  <2> QED  BY <2>2, <2>3
<1> QED  BY <1>1, <1>2

\* The next step of setting up: it saves a file that has no backup of this run yet, registers
\* one, or writes one that is saved and registered.
LEMMA SetUpStep ==
  ASSUME TypeInv, FilesAt("setup"), NEW r \in Runs, FileStep(r)
  PROVE  FilesAt("setup")'
<1> DEFINE
     Kept ==
       /\ cleanup' \subseteq Files
       /\ \A f \in Files : f \in cleanup' <=> ~In(todo', "register", f)
       /\ \A f \in Files : owned[f] # Absent =>
            /\ owned[f] = IF backup'[f] = Absent THEN file'[f] ELSE backup'[f]
            /\ ~In(todo', "save", f) => backup'[f] # Absent
       /\ \A f \in Files : undisturbed /\ found[f] # Absent =>
            /\ In(todo', "register", f) => file'[f] = found[f]
            /\ backup'[f] = IF In(todo', "save", f) THEN Absent ELSE found[f]
<1>1. /\ todo \in SetUps /\ todo # <<>> /\ owned' = owned /\ found' = found
      /\ file \in [Files -> Contents] /\ backup \in [Files -> Contents] /\ cleanup \subseteq Files
      /\ \A f \in Files : f \in cleanup <=> ~In(todo, "register", f)
  BY DEF FilesAt, TodoAt, Left, FileStep, TypeInv
<1>2. Tail(todo) \in SetUps
  BY <1>1, SetUpParts
<1>3. \A f \in Files : owned[f] # Absent =>
        /\ owned[f] = IF backup[f] = Absent THEN file[f] ELSE backup[f]
        /\ ~In(todo, "save", f) => backup[f] # Absent
  BY DEF FilesAt, TextsAt, Left
<1>4. \A f \in Files : undisturbed /\ found[f] # Absent =>
        /\ In(todo, "register", f) => file[f] = found[f]
        /\ backup[f] = IF In(todo, "save", f) THEN Absent ELSE found[f]
  BY <1>1 DEF FilesAt, FoundAt, Left
<1>5. SUFFICES ASSUME todo' = Tail(todo), undisturbed' = undisturbed
               PROVE  Kept
  <2>1. todo' = Tail(todo) /\ undisturbed' = undisturbed
    <3>1. \E k \in {"save", "register", "write"}, g \in Files : Head(todo) = Op(k, g)
      BY <1>1, SetUpParts
    <3> QED  BY <3>1 DEF FileStep, Op
  <2>2. Kept
    BY <1>5, <2>1
  <2>3. \A f \in Files : todo' # <<>> => Head(todo') # Op("remove", f)
    BY <1>2, <2>1, SetUpKinds
  <2>4. TodoAt("setup")'
    BY <1>2, <2>1, <2>2 DEF TodoAt, Left, DeviceSteps
  <2>5. TextsAt("setup")'
    BY <1>1, <2>2, <2>3 DEF TextsAt, Left
  <2>6. FoundAt("setup")'
    BY <1>1, <2>1, <2>2 DEF FoundAt, Left
  <2> QED  BY <2>4, <2>5, <2>6 DEF FilesAt
<1>6. ASSUME NEW f \in Files, Head(todo) = Op("save", f), In(todo, "save", f),
             \A g \in Files : In(Tail(todo), "save", g) <=> In(todo, "save", g) /\ g # f,
             \A g \in Files : In(Tail(todo), "register", g) /\ In(todo, "register", g)
      PROVE  Kept
  <2>1. /\ file' = file /\ cleanup' = cleanup
        /\ backup' = [backup EXCEPT ![f] = IF @ = Absent THEN file[f] ELSE @]
    BY <1>6 DEF FileStep, Op, Save
  <2>2. backup'[f] = (IF backup[f] = Absent THEN file[f] ELSE backup[f])
    BY <1>1, <2>1
  <2>3. \A g \in Files : g # f => backup'[g] = backup[g]
    BY <1>1, <2>1
  <2> QED  BY <1>1, <1>3, <1>4, <1>5, <1>6, <2>1, <2>2, <2>3
<1>7. ASSUME NEW f \in Files, Head(todo) = Op("register", f),
             \A g \in Files : ~In(todo, "save", g) /\ ~In(Tail(todo), "save", g),
             \A g \in Files : In(Tail(todo), "register", g) <=> In(todo, "register", g) /\ g # f
      PROVE  Kept
  <2>1. file' = file /\ backup' = backup /\ cleanup' = cleanup \cup {f}
    BY <1>7 DEF FileStep, Op
  <2> QED  BY <1>1, <1>3, <1>4, <1>5, <1>7, <2>1
<1>8. ASSUME NEW f \in Files, Head(todo) = Op("write", f),
             \A g \in Files : ~In(todo, "save", g) /\ ~In(Tail(todo), "save", g),
             \A g \in Files : ~In(todo, "register", g) /\ ~In(Tail(todo), "register", g)
      PROVE  Kept
  <2>1. backup' = backup /\ cleanup' = cleanup
    BY <1>8 DEF FileStep, Op
  <2> QED  BY <1>1, <1>3, <1>4, <1>5, <1>8, <2>1
<1> QED  BY <1>1, <1>6, <1>7, <1>8, SetUpParts

\* The next step of putting back: it restores a file and then removes its backup, or fails
\* on the one or the other.
LEMMA PutBackStep ==
  ASSUME TypeInv, NEW step \in {"restoring", "catching"}, FilesAt(step),
         NEW r \in Runs, FileStep(r)
  PROVE  FilesAt(step)'
<1> DEFINE
     Kept ==
       /\ todo' \in PutBacks
       /\ \A f \in Files : owned[f] # Absent =>
            /\ owned[f] = IF backup'[f] = Absent THEN file'[f] ELSE backup'[f]
            /\ todo' # <<>> /\ Head(todo') = Op("remove", f) => file'[f] = owned[f]
       /\ \A f \in Files : undisturbed' /\ found[f] # Absent =>
            found[f] = IF In(todo', "restore", f) THEN backup'[f] ELSE file'[f]
<1>1. /\ todo \in PutBacks /\ todo # <<>> /\ owned' = owned /\ found' = found
      /\ file \in [Files -> Contents] /\ backup \in [Files -> Contents]
  BY DEF FilesAt, TodoAt, FileStep, TypeInv
<1>2. \A f \in Files : owned[f] # Absent =>
        /\ owned[f] = IF backup[f] = Absent THEN file[f] ELSE backup[f]
        /\ Head(todo) = Op("remove", f) => file[f] = owned[f]
  BY <1>1 DEF FilesAt, TextsAt
<1>3. \A f \in Files : undisturbed /\ found[f] # Absent =>
        found[f] = IF In(todo, "restore", f) THEN backup[f] ELSE file[f]
  BY DEF FilesAt, FoundAt, Left
<1>4. SUFFICES Kept
  BY <1>1 DEF FilesAt, TodoAt, TextsAt, FoundAt, Left, DeviceSteps
<1>5. ASSUME NEW f \in Files, Head(todo) = Op("restore", f), In(todo, "restore", f),
             Head(Tail(todo)) = Op("remove", f), Tail(todo) \in PutBacks,
             Tail(Tail(todo)) \in PutBacks,
             \A g \in Files : Tail(Tail(todo)) # <<>> => Head(Tail(Tail(todo))) # Op("remove", g),
             \A g \in Files : In(Tail(todo), "restore", g) <=> In(todo, "restore", g) /\ g # f
      PROVE  Kept
  <2>1. RestoreFile(f) /\ backup' = backup
    BY <1>5 DEF FileStep, Op
  <2>2. CASE /\ todo' = Tail(todo) /\ undisturbed' = undisturbed
             /\ file' = [file EXCEPT ![f] = IF backup[f] = Absent THEN @ ELSE backup[f]]
    <3>1. /\ file'[f] = IF backup[f] = Absent THEN file[f] ELSE backup[f]
          /\ \A g \in Files : g # f => file'[g] = file[g]
      BY <1>1, <2>2
    <3>2. \A g \in Files : Head(todo') = Op("remove", g) => g = f
      <4>1. Head(todo') = Op("remove", f)
        BY <1>5, <2>2
      <4>2. \A g \in Files : Op("remove", f) = Op("remove", g) => g = f
        BY OpsDiffer
      <4> QED  BY <4>1, <4>2
    <3> QED  BY <1>2, <1>3, <1>5, <2>1, <2>2, <3>1, <3>2
  <2>3. CASE todo' = Tail(Tail(todo)) /\ ~undisturbed' /\ file' = file
    BY <1>2, <1>5, <2>1, <2>3
  <2> QED  BY <2>1, <2>2, <2>3 DEF RestoreFile
<1>6. ASSUME NEW f \in Files, Head(todo) = Op("remove", f), ~In(todo, "restore", f),
             Tail(todo) \in PutBacks,
             \A g \in Files : Tail(todo) # <<>> => Head(Tail(todo)) # Op("remove", g),
             \A g \in Files : In(Tail(todo), "restore", g) <=> In(todo, "restore", g)
      PROVE  Kept
  <2>1. /\ todo' = Tail(todo) /\ file' = file
        /\ \/ backup' = [backup EXCEPT ![f] = Absent] /\ undisturbed' = undisturbed
           \/ ~undisturbed' /\ backup' = backup
    BY <1>6 DEF FileStep, Op
  <2>2. CASE backup' = [backup EXCEPT ![f] = Absent] /\ undisturbed' = undisturbed
    <3>1. backup'[f] = Absent /\ \A g \in Files : g # f => backup'[g] = backup[g]
      BY <1>1, <2>2
    <3>2. \A g \in Files : owned[g] # Absent =>
            owned[g] = IF backup'[g] = Absent THEN file[g] ELSE backup'[g]
      BY <1>2, <1>6, <3>1
    <3>3. \A g \in Files : undisturbed /\ found[g] # Absent =>
            found[g] = IF In(Tail(todo), "restore", g) THEN backup'[g] ELSE file[g]
      BY <1>3, <1>6, <3>1
    <3> QED  BY <1>6, <2>1, <2>2, <3>2, <3>3
  <2>3. CASE ~undisturbed' /\ backup' = backup
    BY <1>2, <1>6, <2>1, <2>3
  <2> QED  BY <2>1, <2>2, <2>3
<1> HIDE DEF Kept
<1> QED  BY <1>1, <1>5, <1>6, PutBackParts

\* A step on the files.
LEMMA FilesStep ==
  ASSUME TypeInv, OneAtATime, FilesInv, NEW r \in Runs, FileStep(r)
  PROVE  FilesInv'
<1>1. pc' = pc /\ ~Asleep(r) /\ pc[r] \in {"setup", "restoring", "catching"}
  BY DEF FileStep, Asleep, Over, scriptVars
<1>2. \A q \in Runs : q # r => Asleep(q)
  BY <1>1, OthersAsleep
<1>3. FilesAt(pc[r])
  BY <1>1 DEF FilesInv
<1>4. PICK step : step = pc[r]
  OBVIOUS
<1>5. FilesAt(step)'
  <2>1. FilesAt(step)
    BY <1>3, <1>4
  <2>2. CASE step = "setup"
    <3>1. FilesAt("setup")
      BY <2>1, <2>2
    <3>2. FilesAt("setup")'
      BY <3>1, SetUpStep
    <3> QED  BY <2>2, <3>2
  <2>3. CASE step \in {"restoring", "catching"}
    BY <2>1, <2>3, PutBackStep
  <2> QED  BY <1>1, <1>4, <2>2, <2>3
<1>6. step \in Labels \ ({"idle"} \cup Over) /\ pc' = [pc EXCEPT ![r] = step]
  BY <1>1, <1>4 DEF TypeInv, Labels, DeviceSteps, Over
<1>7. FilesAt(IF step \in {"idle"} \cup Over THEN "idle" ELSE step)'
  BY <1>5, <1>6
<1> QED  BY <1>2, <1>6, <1>7, FilesMoved

\* A device run starts, and finds what is there.
LEMMA FilesFound ==
  ASSUME TypeInv, OneAtATime, FilesInv, NEW r \in Runs, DeviceStart(r)
  PROVE  FilesInv'
<1>1. /\ pc[r] = "idle" /\ Turn(r) /\ Asleep(r) /\ pc' = [pc EXCEPT ![r] = "preparing"]
      /\ todo' = todo /\ cleanup' = cleanup /\ UNCHANGED diskVars
      /\ found' = file /\ undisturbed' = (\A f \in Files : backup[f] = Absent)
  BY DEF DeviceStart, Step, Asleep
<1>2. \A q \in Runs : q # r => Asleep(q)
  BY <1>1, OthersAsleep
<1>3. FilesAt("idle")
  BY <1>1, <1>2, FilesOfRun
<1>4. FilesAt("preparing")'
  BY <1>1, <1>3 DEF FilesAt, TodoAt, TextsAt, FoundAt, DeviceSteps, diskVars
<1>5. FilesAt(IF "preparing" \in {"idle"} \cup Over THEN "idle" ELSE "preparing")'
  BY <1>4 DEF Over
<1> QED  BY <1>1, <1>2, <1>5, FilesMoved DEF Labels

\* It begins to set the files up.
LEMMA FilesSetUp ==
  ASSUME TypeInv, OneAtATime, FilesInv, NEW r \in Runs, DeviceGateway(r)
  PROVE  FilesInv'
<1>1. /\ pc[r] = "waiting" /\ ~Asleep(r) /\ pc' = [pc EXCEPT ![r] = "setup"]
      /\ todo' = SetUp /\ cleanup' = cleanup /\ UNCHANGED diskVars
      /\ found' = found /\ undisturbed' = undisturbed
  BY DEF DeviceGateway, Step, Asleep, Over, diskVars
<1>2. \A q \in Runs : q # r => Asleep(q)
  BY <1>1, OthersAsleep
<1>3. FilesAt("waiting")
  BY <1>1 DEF FilesInv
<1>4. /\ SetUp \in SetUps /\ SetUp # <<>>
      /\ \A f \in Files : In(SetUp, "save", f) /\ In(SetUp, "register", f)
  <2>1. SetUp \in SetUps /\ SetUp # <<>>
    BY DEF SetUps, SetUp
  <2>2. \A f \in Files : In(SetUp, "save", f)
    BY Members6 DEF SetUp, Files
  <2> QED  BY <2>1, <2>2, SetUpKinds
<1>5. FilesAt("setup")'
  <2>1. TodoAt("setup")'
    BY <1>1, <1>3, <1>4 DEF FilesAt, TodoAt, Left, DeviceSteps
  <2>2. TextsAt("setup")'
    BY <1>1, <1>3, <1>4, SetUpKinds DEF FilesAt, TextsAt, Left, diskVars
  <2>3. FoundAt("setup")'
    BY <1>1, <1>3, <1>4 DEF FilesAt, FoundAt, Left, diskVars
  <2> QED  BY <2>1, <2>2, <2>3 DEF FilesAt
<1>6. FilesAt(IF "setup" \in {"idle"} \cup Over THEN "idle" ELSE "setup")'
  BY <1>5 DEF Over
<1> QED  BY <1>1, <1>2, <1>6, FilesMoved DEF Labels, DeviceSteps

\* The build of the app makes the config from the template.
LEMMA FilesBuilt ==
  ASSUME TypeInv, OneAtATime, FilesInv, NEW r \in Runs, Launch(r)
  PROVE  FilesInv'
<1>1. /\ pc[r] = "setup" /\ ~Asleep(r) /\ pc' = [pc EXCEPT ![r] = "settling"] /\ todo = <<>>
      /\ file' = [file EXCEPT !.config = file.template]
      /\ todo' = todo /\ cleanup' = cleanup /\ backup' = backup /\ owned' = owned
      /\ found' = found /\ undisturbed' = undisturbed
  BY DEF Launch, Step, Asleep, Over
<1>2. \A q \in Runs : q # r => Asleep(q)
  BY <1>1, OthersAsleep
<1>3. FilesAt("setup")
  BY <1>1 DEF FilesInv
<1>4. \A f \in Files : ~Left("save", f) /\ ~Left("register", f)
  BY <1>1, Members0 DEF Left
<1>5. FilesAt("settling")'
  <2>1. TodoAt("settling")'
    BY <1>1, <1>3, <1>4 DEF FilesAt, TodoAt, DeviceSteps, TypeInv
  <2>2. TextsAt("settling")'
    BY <1>1, <1>3, <1>4 DEF FilesAt, TextsAt
  <2>3. FoundAt("settling")'
    BY <1>1, <1>3, <1>4 DEF FilesAt, FoundAt
  <2> QED  BY <2>1, <2>2, <2>3 DEF FilesAt
<1>6. FilesAt(IF "settling" \in {"idle"} \cup Over THEN "idle" ELSE "settling")'
  BY <1>5 DEF Over
<1> QED  BY <1>1, <1>2, <1>6, FilesMoved DEF Labels, DeviceSteps

\* Putting back begins, after the confirmation or a failure.
LEMMA FilesPutBack ==
  ASSUME TypeInv, OneAtATime, FilesInv, NEW r \in Runs,
         pc[r] \in {"preparing", "waiting", "setup", "publishing", "listening"},
         NEW to \in {"restoring", "catching"}, pc' = [pc EXCEPT ![r] = to], todo' = PutBack,
         UNCHANGED <<file, backup, cleanup, edits, found, undisturbed, owned>>
  PROVE  FilesInv'
<1>1. ~Asleep(r)
  BY DEF Asleep, Over
<1>2. \A q \in Runs : q # r => Asleep(q)
  BY <1>1, OthersAsleep
<1>3. FilesAt(pc[r])
  BY <1>1 DEF FilesInv
<1>4. /\ PutBack \in PutBacks
      /\ \A f \in Files : In(PutBack, "restore", f) <=> f \in cleanup
      /\ \A f \in Files : PutBack # <<>> => Head(PutBack) # Op("remove", f)
  BY PutBackFits DEF TypeInv
<1>5. FilesAt(to)'
  <2>1. TodoAt(to)'
    BY <1>4 DEF TodoAt, DeviceSteps
  <2>2. TextsAt(to)'
    BY <1>3, <1>4 DEF FilesAt, TextsAt
  <2>3. \A f \in Files : undisturbed /\ found[f] # Absent =>
          found[f] = IF f \in cleanup THEN backup[f] ELSE file[f]
    <3> SUFFICES ASSUME NEW f \in Files, undisturbed, found[f] # Absent
                 PROVE  found[f] = IF f \in cleanup THEN backup[f] ELSE file[f]
      OBVIOUS
    <3>1. CASE pc[r] \in {"preparing", "waiting"}
      BY <1>3, <3>1 DEF FilesAt, TodoAt, FoundAt, DeviceSteps
    <3>2. CASE pc[r] = "setup"
      <4>1. f \in cleanup => ~Left("save", f)
        BY <1>3, <3>2, SetUpKinds DEF FilesAt, TodoAt, Left
      <4> QED  BY <1>3, <3>2, <4>1 DEF FilesAt, FoundAt
    <3>3. CASE pc[r] \in {"publishing", "listening"}
      BY <1>3, <3>3 DEF FilesAt, TodoAt, FoundAt
    <3> QED  BY <3>1, <3>2, <3>3
  <2>4. FoundAt(to)'
    BY <1>4, <2>3 DEF FoundAt, Left
  <2> QED  BY <2>1, <2>2, <2>4 DEF FilesAt
<1>6. FilesAt(IF to \in {"idle"} \cup Over THEN "idle" ELSE to)'
  BY <1>5 DEF Over
<1> QED  BY <1>2, <1>6, FilesMoved DEF Labels, DeviceSteps

\* The developer edits a file while no run is active.
LEMMA FilesEdited ==
  ASSUME TypeInv, FilesInv, NEW f \in Files, NEW text \in Texts, Edit(f, text)
  PROVE  FilesInv'
<1>1. /\ \A r \in Runs : Asleep(r)
      /\ pc' = pc /\ backup' = backup /\ todo' = todo /\ cleanup' = cleanup
      /\ file' = [file EXCEPT ![f] = text]
      /\ owned' = [owned EXCEPT ![f] = IF backup[f] = Absent THEN text ELSE @]
  BY DEF Edit, Running, Asleep, TypeInv, Labels, Awaits, DeviceSteps, scriptVars
<1>2. FilesAt("idle")
  BY <1>1 DEF FilesInv
<1>3. todo = <<>>
  BY <1>2 DEF FilesAt, TodoAt
<1>4. FilesAt("idle")'
  BY <1>1, <1>2, <1>3 DEF FilesAt, TodoAt, TextsAt, FoundAt, DeviceSteps, TypeInv
<1> QED  BY <1>1, <1>4 DEF FilesInv, Asleep

-----------------------------------------------------------------------------
\* The processes, the gateway and the log.

LEMMA PairIsSomeone ==
  ASSUME NEW a, NEW b
  PROVE  <<a, b>> # NoOne
BY DEF NoOne

\* What killAll does to the processes of its run, and that it leaves the others alone.
LEMMA KillAllFits ==
  ASSUME TypeInv, NEW r \in Runs, KillAll(r)
  PROVE  /\ proc' \in [Runs \X Servers -> {"none", "starting", "up", "asked"}]
         /\ \A q \in Runs, s \in Servers : q # r => proc'[<<q, s>>] = proc[<<q, s>>]
         /\ \A s \in Servers : proc[<<r, s>>] = "none" => proc'[<<r, s>>] = "none"
         /\ \A p \in Runs \X Servers : proc[p] \in {"up", "asked"} => proc'[p] \in {"up", "asked"}
<1>1. /\ DOMAIN proc = Runs \X Servers
      /\ \A p \in Runs \X Servers : proc[p] \in {"none", "starting", "up", "asked"}
  BY DEF TypeInv
<1>2. \A p \in Runs \X Servers :
        proc'[p] = IF p[1] = r /\ proc[p] \in {"starting", "up"} THEN "asked" ELSE proc[p]
  BY <1>1 DEF KillAll
<1>3. proc' \in [Runs \X Servers -> {"none", "starting", "up", "asked"}]
  BY <1>1, <1>2 DEF KillAll
<1>4. \A q \in Runs, s \in Servers : <<q, s>> \in Runs \X Servers /\ <<q, s>>[1] = q
  OBVIOUS
<1> QED  BY <1>1, <1>2, <1>3, <1>4

\* A process is spawned that was not there.
LEMMA SpawnFits ==
  ASSUME TypeInv, NEW r \in Runs, NEW name \in Servers, Spawn(r, name)
  PROVE  /\ proc' \in [Runs \X Servers -> {"none", "starting", "up", "asked"}]
         /\ proc'[<<r, name>>] = "starting"
         /\ \A q \in Runs, s \in Servers :
              q # r \/ s # name => proc'[<<q, s>>] = proc[<<q, s>>]
         /\ \A p \in Runs \X Servers : p # <<r, name>> => proc'[p] = proc[p]
<1>1. proc \in [Runs \X Servers -> {"none", "starting", "up", "asked"}]
  BY DEF TypeInv
<1>2. <<r, name>> \in Runs \X Servers
  OBVIOUS
<1>3. /\ proc'[<<r, name>>] = "starting"
      /\ \A p \in Runs \X Servers : p # <<r, name>> => proc'[p] = proc[p]
  BY <1>1, <1>2 DEF Spawn
<1>4. proc' \in [Runs \X Servers -> {"none", "starting", "up", "asked"}]
  BY <1>1, <1>2 DEF Spawn
<1>5. \A q \in Runs, s \in Servers :
        <<q, s>> \in Runs \X Servers /\ (q # r \/ s # name => <<q, s>> # <<r, name>>)
  OBVIOUS
<1> QED  BY <1>3, <1>4, <1>5

\* Whoever leaves the runs, the processes and the log alone.
LEMMA GateHolds ==
  ASSUME GateInv, UNCHANGED <<scriptVars, deviceVars>>
  PROVE  GateInv'
BY DEF GateInv, PortsServed, PublishedHeld, SpawnsOf, LinesOf, scriptVars, deviceVars

\* What holds of a run that is asleep goes on holding while another one works.
LEMMA AsleepHold ==
  ASSUME NEW q \in Runs, Asleep(q), SpawnsOf(q), pc'[q] = pc[q],
         \A s \in Servers : proc'[<<q, s>>] = proc[<<q, s>>],
         q \in interrupted => q \in interrupted'
  PROVE  SpawnsOf(q)' /\ LinesOf(q)'
BY DEF Asleep, Over, SpawnsOf, LinesOf

\* Before a run publishes, nothing is published.
LEMMA NotYetPublished ==
  ASSUME GateInv, NEW r \in Runs, \A q \in Runs : q # r => Asleep(q),
         pc[r] \notin {"publishing", "listening", "restoring", "catching"}
  PROVE  published = NoOne
BY DEF GateInv, PublishedHeld, Asleep, Over

\* A run moves on and leaves the processes alone.
LEMMA GateMoved ==
  ASSUME TypeInv, GateInv, NEW r \in Runs, \A q \in Runs : q # r => Asleep(q),
         pc[r] \notin Over \cup {"restoring", "catching"},
         NEW to \in Labels \ (Over \cup {"idle", "gateway", "listening", "restoring"}),
         to \in {"building", "preparing"} => pc[r] = "idle",
         pc[r] \in {"publishing", "listening"} => to = "catching",
         pc' = [pc EXCEPT ![r] = to], UNCHANGED <<interrupted, proc, port, deviceVars>>
  PROVE  GateInv'
<1>1. pc'[r] = to /\ \A q \in Runs : q # r => pc'[q] = pc[q]
  BY DEF TypeInv
<1>2. \A q \in Runs : SpawnsOf(q) /\ LinesOf(q)
  BY DEF GateInv
<1>3. PortsServed'
  BY DEF GateInv, PortsServed
<1>4. PublishedHeld'
  <2>1. CASE pc[r] \in {"publishing", "listening"}
    BY <1>1, <2>1 DEF PublishedHeld
  <2>2. CASE pc[r] \notin {"publishing", "listening"}
    <3>1. published' = NoOne
      BY <2>2, NotYetPublished DEF deviceVars
    <3> QED  BY <3>1 DEF PublishedHeld
  <2> QED  BY <2>1, <2>2
<1>5. SpawnsOf(r)'
  BY <1>1, <1>2 DEF SpawnsOf
<1>6. LinesOf(r)'
  <2>1. CASE to = "publishing"
    <3>1. published' = NoOne
      BY <2>1, NotYetPublished DEF deviceVars
    <3> QED  BY <3>1, PairIsSomeone DEF LinesOf
  <2>2. CASE to # "publishing"
    BY <1>1, <2>2 DEF LinesOf
  <2> QED  BY <2>1, <2>2
<1>7. \A q \in Runs : q # r => SpawnsOf(q)' /\ LinesOf(q)'
  BY <1>1, <1>2, AsleepHold
<1> QED  BY <1>3, <1>4, <1>5, <1>6, <1>7 DEF GateInv

\* A run moves on and spawns a process.
LEMMA GateSpawned ==
  ASSUME TypeInv, GateInv, NEW r \in Runs, \A q \in Runs : q # r => Asleep(q),
         NEW name \in Servers, NEW to,
         \/ pc[r] = "building" /\ to = "gateway" /\ name = "gateway"
         \/ pc[r] = "preparing" /\ to = "waiting" /\ name = "gateway"
         \/ pc[r] = "gateway" /\ to = "ui" /\ name = "ui",
         pc' = [pc EXCEPT ![r] = to], Spawn(r, name), UNCHANGED <<interrupted, port, deviceVars>>
  PROVE  GateInv'
<1>1. pc'[r] = to /\ \A q \in Runs : q # r => pc'[q] = pc[q]
  BY DEF TypeInv
<1>2. \A q \in Runs : SpawnsOf(q) /\ LinesOf(q)
  BY DEF GateInv
<1>3. proc[<<r, name>>] = "none"
  BY <1>2 DEF SpawnsOf
<1>4. PortsServed'
  <2>1. \A s \in Servers : port[s] # NoOne =>
          port[s] \in Runs \X Servers /\ port[s] # <<r, name>>
    BY <1>3 DEF TypeInv, GateInv, PortsServed
  <2> QED  BY <2>1, SpawnFits DEF GateInv, PortsServed
<1>5. published = NoOne
  BY NotYetPublished
<1>6. PublishedHeld'
  BY <1>5 DEF PublishedHeld, deviceVars
<1>7. SpawnsOf(r)'
  <2>1. /\ proc'[<<r, name>>] = "starting"
        /\ \A s \in Servers : s # name => proc'[<<r, s>>] = proc[<<r, s>>]
    BY SpawnFits
  <2>2. to = "gateway" => proc'[<<r, "ui">>] = "none"
    BY <1>2, <2>1 DEF SpawnsOf, Servers
  <2>3. \A s \in Servers : proc'[<<r, s>>] = "asked" => r \in interrupted'
    <3> SUFFICES ASSUME NEW s \in Servers, proc'[<<r, s>>] = "asked" PROVE r \in interrupted
      OBVIOUS
    <3>1. proc[<<r, s>>] = "asked"
      BY <2>1
    <3>2. pc[r] \notin Over \cup {"restoring", "catching"}
      BY DEF Over
    <3> QED  BY <1>2, <3>1, <3>2 DEF SpawnsOf
  <2> QED  BY <1>1, <2>2, <2>3 DEF SpawnsOf
<1>8. LinesOf(r)'
  BY <1>5, PairIsSomeone DEF LinesOf, deviceVars
<1>9. \A q \in Runs : q # r => SpawnsOf(q)' /\ LinesOf(q)'
  BY <1>1, <1>2, AsleepHold, SpawnFits
<1> QED  BY <1>4, <1>6, <1>7, <1>8, <1>9 DEF GateInv

\* A run ends, and forgets what it published and confirmed.
LEMMA GateEnded ==
  ASSUME TypeInv, GateInv, NEW r \in Runs, \A q \in Runs : q # r => Asleep(q),
         NEW to \in Over, pc' = [pc EXCEPT ![r] = to], KillAll(r) \/ proc' = proc,
         Forget(r), port' = port
  PROVE  GateInv'
<1>1. pc'[r] = to /\ \A q \in Runs : q # r => pc'[q] = pc[q]
  BY DEF TypeInv
<1>2. \A q \in Runs : SpawnsOf(q)
  BY DEF GateInv
<1>3. /\ \A q \in Runs, s \in Servers : q # r => proc'[<<q, s>>] = proc[<<q, s>>]
      /\ \A p \in Runs \X Servers : proc[p] \in {"up", "asked"} => proc'[p] \in {"up", "asked"}
  BY KillAllFits
<1>4. PortsServed'
  <2>1. \A s \in Servers : port[s] # NoOne => port[s] \in Runs \X Servers
    BY DEF TypeInv
  <2> QED  BY <1>3, <2>1 DEF GateInv, PortsServed
<1>5. PublishedHeld'
  BY DEF PublishedHeld, Forget
<1>6. SpawnsOf(r)' /\ LinesOf(r)'
  BY <1>1 DEF SpawnsOf, LinesOf, Over
<1>7. \A q \in Runs : q # r => SpawnsOf(q)' /\ LinesOf(q)'
  BY <1>1, <1>2, <1>3, AsleepHold DEF Forget
<1> QED  BY <1>4, <1>5, <1>6, <1>7 DEF GateInv

\* A server listens where nobody does, or ends: a run's own gateway goes on serving.
LEMMA GateListen ==
  ASSUME TypeInv, GateInv, NEW p \in Runs \X Servers, Listen(p)
  PROVE  GateInv'
<1>1. PICK r \in Runs, name \in Servers : p = <<r, name>>
  OBVIOUS
<1>2. /\ proc[p] = "starting" /\ pc' = pc /\ interrupted' = interrupted
      /\ lines' = lines /\ published' = published /\ since' = since /\ confirmed' = confirmed
      /\ proc \in [Runs \X Servers -> {"none", "starting", "up", "asked"}]
      /\ port \in [Servers -> {NoOne} \cup (Runs \X Servers)]
  BY DEF Listen, TypeInv, deviceVars
<1>3. /\ PortsServed /\ PublishedHeld /\ \A q \in Runs : SpawnsOf(q) /\ LinesOf(q)
      /\ \A s \in Servers : port[s] # NoOne => port[s] \in Runs \X Servers /\ port[s] # p
  BY <1>2 DEF GateInv, PortsServed
<1>4. /\ proc'[p] \in {"none", "up"}
      /\ \A q \in Runs \X Servers : q # p => proc'[q] = proc[q]
      /\ \A s \in Servers : port[s] # NoOne => port'[s] = port[s]
      /\ \A s \in Servers : port'[s] # port[s] => s = name /\ port'[s] = p /\ proc'[p] = "up"
  <2>1. CASE Answers(name)
    BY <1>1, <1>2, <2>1 DEF Listen
  <2>2. CASE ~Answers(name)
    <3>1. proc' = [proc EXCEPT ![p] = "up"] /\ port' = [port EXCEPT ![name] = p]
      BY <1>1, <2>2 DEF Listen
    <3>2. port[name] = NoOne
      BY <2>2 DEF Answers
    <3>3. /\ proc'[p] = "up"
          /\ \A q \in Runs \X Servers : q # p => proc'[q] = proc[q]
      BY <1>2, <3>1
    <3>4. port'[name] = p /\ \A s \in Servers : s # name => port'[s] = port[s]
      BY <1>2, <3>1
    <3> QED  BY <3>2, <3>3, <3>4
  <2> QED  BY <2>1, <2>2
<1>5. PortsServed'
  <2> SUFFICES ASSUME NEW s \in Servers, port'[s] # NoOne
               PROVE  port'[s][2] = s /\ proc'[port'[s]] \in {"up", "asked"}
    BY DEF PortsServed
  <2>1. CASE port'[s] = port[s]
    BY <1>3, <1>4, <2>1 DEF PortsServed
  <2>2. CASE port'[s] # port[s]
    BY <1>1, <1>4, <2>2
  <2> QED  BY <2>1, <2>2
<1>6. PublishedHeld'
  BY <1>2, <1>3 DEF PublishedHeld
<1>7. ASSUME NEW q \in Runs PROVE SpawnsOf(q)' /\ LinesOf(q)'
  <2>1. \A s \in Servers : <<q, s>> \in Runs \X Servers
    OBVIOUS
  <2>2. \A s \in Servers : /\ proc[<<q, s>>] = "none" => proc'[<<q, s>>] = "none"
                           /\ proc'[<<q, s>>] = "asked" => proc[<<q, s>>] = "asked"
    BY <1>2, <1>4, <2>1
  <2>3. SpawnsOf(q)'
    BY <1>2, <1>3, <2>2 DEF SpawnsOf, Servers
  <2>4. /\ <<q, "gateway">> \in Runs \X Servers
        /\ proc[<<q, "gateway">>] = "up" => proc'[<<q, "gateway">>] = "up"
    BY <1>2, <1>4 DEF Servers
  <2>5. port["gateway"] = <<q, "gateway">> => port'["gateway"] = <<q, "gateway">>
    BY <1>4, PairIsSomeone DEF Servers
  <2>6. LinesOf(q)'
    BY <1>2, <1>3, <2>4, <2>5 DEF LinesOf
  <2> QED  BY <2>3, <2>6
<1> QED  BY <1>5, <1>6, <1>7 DEF GateInv

\* A process that was told to end ends: it is nobody's confirmed gateway.
LEMMA GateObey ==
  ASSUME TypeInv, GateInv, NEW p \in Runs \X Servers, Obey(p)
  PROVE  GateInv'
<1>1. /\ proc[p] = "asked" /\ pc' = pc /\ interrupted' = interrupted
      /\ lines' = lines /\ published' = published /\ since' = since /\ confirmed' = confirmed
      /\ proc \in [Runs \X Servers -> {"none", "starting", "up", "asked"}]
      /\ port \in [Servers -> {NoOne} \cup (Runs \X Servers)]
  BY DEF Obey, TypeInv, deviceVars
<1>2. PortsServed /\ PublishedHeld /\ \A q \in Runs : SpawnsOf(q) /\ LinesOf(q)
  BY DEF GateInv
<1>3. /\ proc'[p] = "none"
      /\ \A q \in Runs \X Servers : q # p => proc'[q] = proc[q]
      /\ \A s \in Servers : port'[s] = IF port[s] = p THEN NoOne ELSE port[s]
  BY <1>1 DEF Obey
<1>4. PortsServed'
  <2>1. \A s \in Servers : port'[s] # NoOne =>
          port'[s] = port[s] /\ port[s] # p /\ port[s] \in Runs \X Servers
    BY <1>1, <1>3
  <2> QED  BY <1>2, <1>3, <2>1 DEF PortsServed
<1>5. PublishedHeld'
  BY <1>1, <1>2 DEF PublishedHeld
<1>6. ASSUME NEW q \in Runs PROVE SpawnsOf(q)' /\ LinesOf(q)'
  <2>1. \A s \in Servers : <<q, s>> \in Runs \X Servers
    OBVIOUS
  <2>2. \A s \in Servers : /\ proc[<<q, s>>] = "none" => proc'[<<q, s>>] = "none"
                           /\ proc'[<<q, s>>] = "asked" => proc[<<q, s>>] = "asked"
    BY <1>1, <1>3, <2>1
  <2>3. SpawnsOf(q)'
    BY <1>1, <1>2, <2>2 DEF SpawnsOf, Servers
  <2>4. proc[<<q, "gateway">>] = "up" =>
          <<q, "gateway">> # p /\ proc'[<<q, "gateway">>] = "up"
    BY <1>1, <1>3, <2>1 DEF Servers
  <2>5. port["gateway"] = <<q, "gateway">> /\ <<q, "gateway">> # p
          => port'["gateway"] = <<q, "gateway">>
    BY <1>3 DEF Servers
  <2>6. LinesOf(q)'
    BY <1>1, <1>2, <2>4, <2>5 DEF LinesOf
  <2> QED  BY <2>3, <2>6
<1> QED  BY <1>4, <1>5, <1>6 DEF GateInv

\* Ctrl-C: what the run was told to hold, it need not hold any more.
LEMMA GateInterrupt ==
  ASSUME TypeInv, OneAtATime, GateInv, NEW r \in Runs, Interrupt(r)
  PROVE  GateInv'
<1>1. /\ ~Asleep(r) /\ pc' = pc /\ port' = port /\ interrupted' = interrupted \cup {r}
      /\ lines' = lines /\ published' = published /\ since' = since /\ confirmed' = confirmed
  BY DEF Interrupt, Running, Asleep, Over, Awaits, BootSteps, deviceVars
<1>2. \A q \in Runs : q # r => Asleep(q)
  BY <1>1, OthersAsleep
<1>3. PortsServed /\ PublishedHeld /\ \A q \in Runs : SpawnsOf(q) /\ LinesOf(q)
  BY DEF GateInv
<1>4. /\ \A q \in Runs, s \in Servers : q # r => proc'[<<q, s>>] = proc[<<q, s>>]
      /\ \A s \in Servers : proc[<<r, s>>] = "none" => proc'[<<r, s>>] = "none"
      /\ \A p \in Runs \X Servers : proc[p] \in {"up", "asked"} => proc'[p] \in {"up", "asked"}
  BY KillAllFits DEF Interrupt
<1>5. PortsServed'
  <2>1. \A s \in Servers : port[s] # NoOne => port[s] \in Runs \X Servers
    BY DEF TypeInv
  <2> QED  BY <1>1, <1>3, <1>4, <2>1 DEF PortsServed
<1>6. PublishedHeld'
  BY <1>1, <1>3 DEF PublishedHeld
<1>7. SpawnsOf(r)' /\ LinesOf(r)'
  BY <1>1, <1>3, <1>4 DEF SpawnsOf, LinesOf, Servers
<1>8. \A q \in Runs : q # r => SpawnsOf(q)' /\ LinesOf(q)'
  BY <1>1, <1>2, <1>3, <1>4, AsleepHold
<1> QED  BY <1>5, <1>6, <1>7, <1>8 DEF GateInv

\* The steps of a device run between its publish and its confirmation.
LEMMA GateServe ==
  ASSUME TypeInv, OneAtATime, GateInv, NEW r \in Runs,
         ServePublish(r) \/ Published(r) \/ Poll(r) \/ Tick(r)
  PROVE  GateInv'
<1>1. /\ pc[r] \in {"settling", "publishing", "listening"} /\ ~Asleep(r)
      /\ pc \in [Runs -> Labels]
      /\ proc' = proc /\ port' = port /\ interrupted' = interrupted /\ confirmed' = confirmed
      /\ pc' = pc \/ Published(r)
  BY DEF ServePublish, Published, Poll, Tick, Step, Asleep, Over, TypeInv, scriptVars
<1>2. \A q \in Runs : q # r => Asleep(q)
  BY <1>1, OthersAsleep
<1>3. PortsServed /\ PublishedHeld /\ \A q \in Runs : SpawnsOf(q) /\ LinesOf(q)
  BY DEF GateInv
<1>4. /\ \A q \in Runs : q # r => pc'[q] = pc[q]
      /\ pc'[r] \in {"settling", "publishing", "listening"}
  BY <1>1 DEF Published, Step
<1>5. PortsServed'
  BY <1>1, <1>3 DEF PortsServed
<1>6. SpawnsOf(r)'
  BY <1>1, <1>3, <1>4 DEF SpawnsOf, Over
<1>7. \A q \in Runs : q # r => SpawnsOf(q)' /\ LinesOf(q)'
  BY <1>1, <1>2, <1>3, <1>4, AsleepHold
<1>8. PublishedHeld' /\ LinesOf(r)'
  <2>1. CASE ServePublish(r)
    <3>1. /\ pc' = pc /\ pc[r] = "publishing" /\ published' = port["gateway"]
          /\ lines' = lines /\ since' = since
      BY <2>1 DEF ServePublish, scriptVars
    <3>2. PublishedHeld'
      BY <3>1 DEF PublishedHeld
    <3>3. ASSUME r \notin interrupted, port["gateway"] = <<r, "gateway">>
          PROVE  proc[<<r, "gateway">>] = "up"
      <4>1. proc[<<r, "gateway">>] \in {"up", "asked"}
        BY <1>3, <3>3, PairIsSomeone DEF PortsServed, Servers
      <4> QED  BY <1>3, <3>1, <3>3, <4>1 DEF SpawnsOf, Servers, Over
    <3>4. LinesOf(r)'
      BY <1>1, <3>1, <3>3 DEF LinesOf
    <3> QED  BY <3>2, <3>4
  <2>2. CASE Published(r)
    <3>1. /\ pc'[r] = "listening" /\ pc[r] = "publishing" /\ published' = published
          /\ lines' = lines /\ since' = 0
      BY <1>1, <2>2 DEF Published, Step
    <3>2. PublishedHeld'
      BY <3>1 DEF PublishedHeld
    <3>3. \A line \in lines : line.age \in Nat
      BY DelayAssumption DEF TypeInv
    <3>4. LinesOf(r)'
      BY <1>1, <1>3, <3>1, <3>3 DEF LinesOf
    <3> QED  BY <3>2, <3>4
  <2>3. CASE Poll(r)
    <3>1. /\ pc' = pc /\ published' = published /\ since' = since
          /\ lines' = {[fresh |-> port["gateway"] = published, age |-> 0]}
      BY <2>3 DEF Poll, scriptVars
    <3>2. PublishedHeld'
      BY <1>3, <3>1 DEF PublishedHeld
    <3>3. port["gateway"] = published => \A line \in lines' : line.fresh
      <4> DEFINE own == port["gateway"] = published
      <4>1. lines' = {[fresh |-> own, age |-> 0]}
        BY <3>1
      <4>2. own \in BOOLEAN
        OBVIOUS
      <4> HIDE DEF own
      <4>3. own => \A line \in lines' : line.fresh
        BY <4>1, <4>2
      <4> QED  BY <4>3 DEF own
    <3>4. LinesOf(r)'
      BY <1>1, <1>3, <3>1, <3>3 DEF LinesOf
    <3> QED  BY <3>2, <3>4
  <2>4. CASE Tick(r)
    <3>1. /\ pc' = pc /\ published' = published /\ since \in Nat
          /\ lines' = {[line EXCEPT !.age = @ + 1] : line \in lines}
          /\ pc[r] = "listening" => since' = since + 1
          /\ lines \subseteq [fresh : BOOLEAN, age : 0 .. MaxDelay]
      BY <2>4 DEF Tick, TypeInv, scriptVars
    <3>2. PublishedHeld'
      BY <1>3, <3>1 DEF PublishedHeld
    <3>3. ASSUME NEW line \in lines', \A old \in lines : ~old.fresh => old.age >= since
          PROVE  ~line.fresh => line.age >= since + 1
      <4>1. PICK old \in lines : line = [old EXCEPT !.age = @ + 1]
        BY <3>1
      <4>2. line.fresh = old.fresh /\ line.age = old.age + 1 /\ old.age \in Nat
        BY <3>1, <4>1, DelayAssumption
      <4> QED  BY <3>1, <3>3, <4>2
    <3>4. LinesOf(r)'
      BY <1>1, <1>3, <3>1, <3>3 DEF LinesOf
    <3> QED  BY <3>2, <3>4
  <2> QED  BY <2>1, <2>2, <2>3, <2>4
<1> QED  BY <1>5, <1>6, <1>7, <1>8 DEF GateInv

\* A line arrives.  One that counts is no older than the grace, so it is not from before
\* the publish.
LEMMA GateArrive ==
  ASSUME TypeInv, OneAtATime, GateInv, NEW r \in Runs, NEW line \in lines, Arrive(r, line)
  PROVE  GateInv'
<1>1. /\ pc[r] \in {"settling", "publishing", "listening"} /\ ~Asleep(r)
      /\ pc \in [Runs -> Labels] /\ lines' = lines \ {line}
      /\ port' = port /\ interrupted' = interrupted /\ published' = published /\ since' = since
  BY DEF Arrive, Asleep, Over, TypeInv
<1>2. \A q \in Runs : q # r => Asleep(q)
  BY <1>1, OthersAsleep
<1>3. PortsServed /\ PublishedHeld /\ \A q \in Runs : SpawnsOf(q) /\ LinesOf(q)
  BY DEF GateInv
<1>4. CASE pc[r] = "listening" /\ Counts
  <2>1. /\ confirmed' = {line} /\ pc' = [pc EXCEPT ![r] = "restoring"] /\ KillAll(r)
    BY <1>4 DEF Arrive
  <2>2. pc'[r] = "restoring" /\ \A q \in Runs : q # r => pc'[q] = pc[q]
    BY <1>1, <2>1
  <2>3. /\ \A q \in Runs, s \in Servers : q # r => proc'[<<q, s>>] = proc[<<q, s>>]
        /\ \A p \in Runs \X Servers : proc[p] \in {"up", "asked"} => proc'[p] \in {"up", "asked"}
    BY <2>1, KillAllFits
  <2>4. PortsServed'
    <3>1. \A s \in Servers : port[s] # NoOne => port[s] \in Runs \X Servers
      BY DEF TypeInv
    <3> QED  BY <1>1, <1>3, <2>3, <3>1 DEF PortsServed
  <2>5. PublishedHeld'
    BY <2>2 DEF PublishedHeld
  <2>6. SpawnsOf(r)'
    BY <2>2 DEF SpawnsOf
  <2>7. LinesOf(r)'
    <3>1. line.age \in 0 .. MaxDelay /\ since \in Nat /\ since > Grace
      BY <1>4 DEF TypeInv, Counts
    <3>2. ~(line.age >= since)
      BY <3>1, DelayAssumption
    <3> QED  BY <1>1, <1>3, <1>4, <2>1, <2>2, <3>2 DEF LinesOf
  <2>8. \A q \in Runs : q # r => SpawnsOf(q)' /\ LinesOf(q)'
    BY <1>1, <1>2, <1>3, <2>2, <2>3, AsleepHold
  <2> QED  BY <2>4, <2>5, <2>6, <2>7, <2>8 DEF GateInv
<1>5. CASE ~(pc[r] = "listening" /\ Counts)
  <2>1. confirmed' = confirmed /\ pc' = pc /\ proc' = proc
    BY <1>5 DEF Arrive
  <2> QED  BY <1>1, <1>3, <2>1 DEF GateInv, PortsServed, PublishedHeld, SpawnsOf, LinesOf
<1> QED  BY <1>4, <1>5

-----------------------------------------------------------------------------
\* The inductive invariant.

LEMMA InitInv == Init => IInv
<1> SUFFICES ASSUME Init PROVE IInv
  OBVIOUS
<1>1. TypeInv
  <2>1. pc \in [Runs -> Labels]
    BY DEF Init, Labels
  <2>2. /\ proc \in [Runs \X Servers -> {"none", "starting", "up", "asked"}]
        /\ port \in [Servers -> {NoOne} \cup (Runs \X Servers)]
    BY DEF Init
  <2>3. /\ file \in [Files -> Contents] /\ backup \in [Files -> Contents]
        /\ owned \in [Files -> Contents]
    BY DEF Init, Contents
  <2>4. /\ cleanup \subseteq Files /\ todo \in SetUps \cup PutBacks /\ since \in Nat
        /\ lines \subseteq [fresh : BOOLEAN, age : 0 .. MaxDelay]
    BY DEF Init, SetUps
  <2> QED  BY <2>1, <2>2, <2>3, <2>4 DEF TypeInv
<1>2. OneAtATime
  BY DEF Init, OneAtATime
<1>3. FilesInv
  <2>1. FilesAt("idle")
    BY DEF Init, FilesAt, TodoAt, TextsAt, FoundAt, DeviceSteps
  <2> QED  BY <2>1 DEF Init, FilesInv, Asleep
<1>4. GateInv
  <2>1. PortsServed /\ PublishedHeld
    BY DEF Init, PortsServed, PublishedHeld
  <2>2. ASSUME NEW r \in Runs PROVE SpawnsOf(r) /\ LinesOf(r)
    <3>1. \A s \in Servers : proc[<<r, s>>] = "none"
      BY DEF Init
    <3> QED  BY <3>1, PairIsSomeone DEF Init, SpawnsOf, LinesOf
  <2> QED  BY <2>1, <2>2 DEF GateInv
<1> QED  BY <1>1, <1>2, <1>3, <1>4 DEF IInv

\* A run passes from one step to another that needs the same of the files.
LEMMA PassedInv ==
  ASSUME IInv, NEW r \in Runs, ~Asleep(r) \/ (pc[r] = "idle" /\ Turn(r)),
         NEW to \in Labels \ {"idle"}, Alike(pc[r], to), pc' = [pc EXCEPT ![r] = to],
         proc' \in [Runs \X Servers -> {"none", "starting", "up", "asked"}],
         UNCHANGED <<port, fileVars>>, lines' = lines, since' \in Nat, GateInv'
  PROVE  IInv'
<1>1. TypeInv /\ OneAtATime /\ FilesInv
  BY DEF IInv
<1>2. OneAtATime' /\ pc' \in [Runs -> Labels]
  BY <1>1, ControlStep
<1>3. TypeInv'
  BY <1>1, <1>2 DEF TypeInv, fileVars, diskVars, workVars
<1>4. \A q \in Runs : q # r => Asleep(q)
  BY <1>1, OthersAsleep
<1>5. FilesInv'
  BY <1>1, <1>4, FilesPassed
<1> QED  BY <1>2, <1>3, <1>5 DEF IInv

\* A run ends.
LEMMA EndedInv ==
  ASSUME IInv, NEW r \in Runs, ~Asleep(r), NEW to \in Over, pc' = [pc EXCEPT ![r] = to],
         KillAll(r) \/ proc' = proc, Forget(r), UNCHANGED <<port, diskVars>>
  PROVE  IInv'
<1>1. TypeInv /\ OneAtATime /\ FilesInv /\ GateInv
  BY DEF IInv
<1>2. OneAtATime' /\ pc' \in [Runs -> Labels]
  BY <1>1, ControlStep DEF Labels, Over
<1>3. proc' \in [Runs \X Servers -> {"none", "starting", "up", "asked"}]
  BY <1>1, KillAllFits DEF TypeInv
<1>4. TypeInv'
  BY <1>1, <1>2, <1>3 DEF TypeInv, Forget, diskVars, SetUps
<1>5. \A q \in Runs : q # r => Asleep(q)
  BY <1>1, OthersAsleep
<1>6. FilesInv'
  BY <1>1, <1>5, FilesEnded
<1>7. GateInv'
  BY <1>1, <1>5, GateEnded
<1> QED  BY <1>2, <1>4, <1>6, <1>7 DEF IInv

\* A device run takes a step of its own, whatever it does to the files.
LEMMA DeviceInv ==
  ASSUME IInv, NEW r \in Runs, ~Asleep(r) \/ (pc[r] = "idle" /\ Turn(r)),
         NEW to \in Labels \ {"idle"}, pc' = [pc EXCEPT ![r] = to],
         proc' \in [Runs \X Servers -> {"none", "starting", "up", "asked"}],
         file' \in [Files -> Contents], UNCHANGED <<port, backup, owned, cleanup>>,
         todo' \in SetUps \cup PutBacks, lines' \subseteq lines, since' = since,
         FilesInv', GateInv'
  PROVE  IInv'
<1>1. TypeInv /\ OneAtATime
  BY DEF IInv
<1>2. OneAtATime' /\ pc' \in [Runs -> Labels]
  BY <1>1, ControlStep
<1>3. TypeInv'
  BY <1>1, <1>2 DEF TypeInv
<1> QED  BY <1>2, <1>3 DEF IInv

\* Nobody moves, but for what a process or a log line does.
LEMMA StayedInv ==
  ASSUME IInv, pc' = pc, UNCHANGED fileVars,
         proc' \in [Runs \X Servers -> {"none", "starting", "up", "asked"}],
         port' \in [Servers -> {NoOne} \cup (Runs \X Servers)],
         lines' \subseteq [fresh : BOOLEAN, age : 0 .. MaxDelay], since' \in Nat, GateInv'
  PROVE  IInv'
<1>1. TypeInv /\ OneAtATime /\ FilesInv
  BY DEF IInv
<1>2. TypeInv' /\ OneAtATime'
  BY <1>1 DEF TypeInv, OneAtATime, fileVars, diskVars, workVars
<1>3. FilesInv'
  BY <1>1, FilesHold
<1> QED  BY <1>2, <1>3 DEF IInv

LEMMA NextInv == IInv /\ [Next]_vars => IInv'
<1> SUFFICES ASSUME IInv, [Next]_vars PROVE IInv'
  OBVIOUS
<1>0. /\ TypeInv /\ OneAtATime /\ FilesInv /\ GateInv
      /\ proc \in [Runs \X Servers -> {"none", "starting", "up", "asked"}]
      /\ port \in [Servers -> {NoOne} \cup (Runs \X Servers)]
      /\ file \in [Files -> Contents] /\ since \in Nat /\ todo \in SetUps \cup PutBacks
      /\ lines \subseteq [fresh : BOOLEAN, age : 0 .. MaxDelay]
  BY DEF IInv, TypeInv
<1> USE DEF fileVars, diskVars, workVars, scriptVars, deviceVars
<1>1. ASSUME NEW r \in Runs, BootStart(r) PROVE IInv'
  <2>1. /\ pc[r] = "idle" /\ Turn(r) /\ pc' = [pc EXCEPT ![r] = "building"]
        /\ UNCHANGED <<interrupted, proc, port, fileVars, deviceVars>>
    BY <1>1 DEF BootStart, Step
  <2>2. GateInv'
    <3>1. pc[r] \notin Over \cup {"restoring", "catching"}
      BY <2>1 DEF Over
    <3>2. "building" \in Labels \ (Over \cup {"idle", "gateway", "listening", "restoring"})
      BY DEF Labels, BootSteps, Over
    <3> QED  BY <1>0, <2>1, <3>1, <3>2, OthersAsleep, GateMoved
  <2> QED  BY <1>0, <2>1, <2>2, PassedInv DEF Alike, Labels, BootSteps
<1>2. ASSUME NEW r \in Runs, NEW from, NEW to, BootNext(r, from, to),
             <<from, to>> \in {<<"building", "gateway">>, <<"gateway", "ui">>, <<"ui", "testing">>}
      PROVE  IInv'
  <2>1. /\ pc[r] = from /\ pc' = [pc EXCEPT ![r] = to] /\ ~Asleep(r)
        /\ UNCHANGED <<interrupted, port, fileVars, deviceVars>>
        /\ from \in BootSteps /\ to \in BootSteps
    BY <1>2 DEF BootNext, Step, Asleep, Over, BootSteps
  <2>2. \A q \in Runs : q # r => Asleep(q)
    BY <1>0, <2>1, OthersAsleep
  <2>3. CASE to \in Servers
    <3>1. Spawn(r, to)
      BY <1>2, <2>3 DEF BootNext
    <3>2. (from = "building" /\ to = "gateway") \/ (from = "gateway" /\ to = "ui")
      BY <1>2, <2>3 DEF Servers
    <3>3. GateInv'
      BY <1>0, <2>1, <2>2, <2>3, <3>1, <3>2, GateSpawned
    <3>4. proc' \in [Runs \X Servers -> {"none", "starting", "up", "asked"}]
      BY <1>0, <2>3, <3>1, SpawnFits
    <3> QED  BY <1>0, <2>1, <3>3, <3>4, PassedInv DEF Alike, Labels, BootSteps
  <2>4. CASE to \notin Servers
    <3>1. from = "ui" /\ to = "testing" /\ proc' = proc
      BY <1>2, <2>4 DEF BootNext, Servers
    <3>2. GateInv'
      <4>1. pc[r] \notin Over \cup {"restoring", "catching"}
        BY <2>1, <3>1 DEF Over
      <4>2. to \in Labels \ (Over \cup {"idle", "gateway", "listening", "restoring"})
        BY <3>1 DEF Labels, BootSteps, Over
      <4> QED  BY <1>0, <2>1, <2>2, <3>1, <4>1, <4>2, GateMoved
    <3> QED  BY <1>0, <2>1, <3>1, <3>2, PassedInv DEF Alike, Labels, BootSteps
  <2> QED  BY <2>3, <2>4
<1>3. ASSUME NEW r \in Runs, BootEnd(r) \/ Terminate(r) PROVE IInv'
  <2>1. ~Asleep(r) /\ pc' = [pc EXCEPT ![r] = "ended"]
    BY <1>3 DEF BootEnd, Terminate, BootSteps, Asleep, Over
  <2> QED  BY <1>3, <2>1, EndedInv DEF BootEnd, Terminate, Over
<1>4. ASSUME NEW r \in Runs, HandleInterrupt(r) PROVE IInv'
  <2>1. ~Asleep(r)
    BY <1>4 DEF HandleInterrupt, Awaits, BootSteps, Asleep, Over
  <2> QED  BY <1>4, <2>1, EndedInv DEF HandleInterrupt, Over
<1>5. ASSUME NEW r \in Runs, Kill(r) PROVE IInv'
  <2>1. ~Asleep(r)
    BY <1>5 DEF Kill, Running, Awaits, BootSteps, Asleep, Over
  <2> QED  BY <1>5, <2>1, EndedInv DEF Kill, Over
<1>6. ASSUME NEW r \in Runs, DeviceEnd(r) PROVE IInv'
  <2>1. ~Asleep(r)
    BY <1>6 DEF DeviceEnd, Asleep, Over
  <2> QED  BY <1>6, <2>1, EndedInv DEF DeviceEnd, Over
<1>7. ASSUME NEW r \in Runs, DeviceStart(r) PROVE IInv'
  <2>1. /\ pc[r] = "idle" /\ Turn(r) /\ pc' = [pc EXCEPT ![r] = "preparing"]
        /\ UNCHANGED <<interrupted, proc, port, file, backup, owned, todo, cleanup, deviceVars>>
    BY <1>7 DEF DeviceStart, Step
  <2>2. GateInv'
    <3>1. pc[r] \notin Over \cup {"restoring", "catching"}
      BY <2>1 DEF Over
    <3>2. "preparing" \in Labels \ (Over \cup {"idle", "gateway", "listening", "restoring"})
      BY DEF Labels, Over
    <3> QED  BY <1>0, <2>1, <3>1, <3>2, OthersAsleep, GateMoved
  <2>3. FilesInv'
    BY <1>0, <1>7, FilesFound
  <2> QED  BY <1>0, <2>1, <2>2, <2>3, DeviceInv DEF Labels
<1>8. ASSUME NEW r \in Runs, Prepared(r) PROVE IInv'
  <2>1. /\ pc[r] = "preparing" /\ ~Asleep(r) /\ pc' = [pc EXCEPT ![r] = "waiting"]
        /\ Spawn(r, "gateway") /\ UNCHANGED <<interrupted, port, fileVars, deviceVars>>
    BY <1>8 DEF Prepared, Step, Asleep, Over
  <2>2. "gateway" \in Servers
    BY DEF Servers
  <2>3. \A q \in Runs : q # r => Asleep(q)
    BY <1>0, <2>1, OthersAsleep
  <2>4. GateInv'
    BY <1>0, <2>1, <2>2, <2>3, GateSpawned
  <2>5. proc' \in [Runs \X Servers -> {"none", "starting", "up", "asked"}]
    BY <1>0, <2>1, <2>2, SpawnFits
  <2> QED  BY <1>0, <2>1, <2>4, <2>5, PassedInv DEF Alike, Labels
<1>9. ASSUME NEW r \in Runs, DeviceGateway(r) PROVE IInv'
  <2>1. /\ pc[r] = "waiting" /\ ~Asleep(r) /\ pc' = [pc EXCEPT ![r] = "setup"] /\ todo' = SetUp
        /\ UNCHANGED <<interrupted, proc, port, file, backup, owned, cleanup, deviceVars>>
    BY <1>9 DEF DeviceGateway, Step, Asleep, Over
  <2>2. GateInv'
    <3>1. pc[r] \notin Over \cup {"restoring", "catching"}
      BY <2>1 DEF Over
    <3>2. "setup" \in Labels \ (Over \cup {"idle", "gateway", "listening", "restoring"})
      BY DEF Labels, DeviceSteps, Over
    <3> QED  BY <1>0, <2>1, <3>1, <3>2, OthersAsleep, GateMoved
  <2>3. FilesInv'
    BY <1>0, <1>9, FilesSetUp
  <2>4. SetUp \in SetUps
    BY DEF SetUps
  <2> QED  BY <1>0, <2>1, <2>2, <2>3, <2>4, DeviceInv DEF Labels, DeviceSteps
<1>10. ASSUME NEW r \in Runs, FileStep(r) PROVE IInv'
  <2>1. /\ pc[r] \in {"setup", "restoring", "catching"} /\ pc' = pc
        /\ UNCHANGED <<scriptVars, owned, deviceVars>>
    BY <1>10 DEF FileStep
  <2>2. FilesInv' /\ GateInv'
    BY <1>0, <1>10, <2>1, FilesStep, GateHolds
  <2>3. todo' \in SetUps \cup PutBacks
    <3>1. FilesAt(pc[r])'
      BY <2>1, <2>2 DEF FilesInv, Asleep, Over
    <3> QED  BY <2>1, <3>1 DEF FilesAt, TodoAt
  <2>4. PICK f \in Files : Head(todo)[2] = f
    <3>1. \E k : \E f \in Files : Head(todo) = Op(k, f)
      <4>1. todo # <<>>
        BY <1>10 DEF FileStep
      <4>2. todo \in SetUps => \E k : \E f \in Files : Head(todo) = Op(k, f)
        BY <4>1, SetUpParts
      <4>3. todo \in PutBacks => \E k : \E f \in Files : Head(todo) = Op(k, f)
        BY <4>1, PutBackParts
      <4> QED  BY <1>0, <4>2, <4>3
    <3> QED  BY <3>1 DEF Op
  <2>5. file' \in [Files -> Contents] /\ backup' \in [Files -> Contents] /\ cleanup' \subseteq Files
    <3>1. backup \in [Files -> Contents] /\ cleanup \subseteq Files
      BY <1>0 DEF TypeInv
    <3> QED  BY <1>0, <1>10, <2>4, <3>1 DEF FileStep, Save, RestoreFile, Contents
  <2>6. TypeInv' /\ OneAtATime'
    BY <1>0, <2>1, <2>3, <2>5 DEF TypeInv, OneAtATime
  <2> QED  BY <2>2, <2>6 DEF IInv
<1>11. ASSUME NEW r \in Runs, Launch(r) PROVE IInv'
  <2>1. /\ pc[r] = "setup" /\ ~Asleep(r) /\ pc' = [pc EXCEPT ![r] = "settling"]
        /\ file' = [file EXCEPT !.config = file.template]
        /\ UNCHANGED <<interrupted, proc, port, backup, owned, cleanup, todo, deviceVars>>
    BY <1>11 DEF Launch, Step, Asleep, Over
  <2>2. GateInv'
    <3>1. pc[r] \notin Over \cup {"restoring", "catching"}
      BY <2>1 DEF Over
    <3>2. "settling" \in Labels \ (Over \cup {"idle", "gateway", "listening", "restoring"})
      BY DEF Labels, DeviceSteps, Over
    <3> QED  BY <1>0, <2>1, <3>1, <3>2, OthersAsleep, GateMoved
  <2>3. FilesInv'
    BY <1>0, <1>11, FilesBuilt
  <2>4. file' \in [Files -> Contents]
    BY <1>0, <2>1 DEF Files
  <2> QED  BY <1>0, <2>1, <2>2, <2>3, <2>4, DeviceInv DEF Labels, DeviceSteps
<1>12. ASSUME NEW r \in Runs, Settled(r) PROVE IInv'
  <2>1. /\ pc[r] = "settling" /\ ~Asleep(r) /\ pc' = [pc EXCEPT ![r] = "publishing"]
        /\ UNCHANGED <<interrupted, proc, port, fileVars, deviceVars>>
    BY <1>12 DEF Settled, Step, Asleep, Over
  <2>2. GateInv'
    <3>1. pc[r] \notin Over \cup {"restoring", "catching"}
      BY <2>1 DEF Over
    <3>2. "publishing" \in Labels \ (Over \cup {"idle", "gateway", "listening", "restoring"})
      BY DEF Labels, DeviceSteps, Over
    <3> QED  BY <1>0, <2>1, <3>1, <3>2, OthersAsleep, GateMoved
  <2> QED  BY <1>0, <2>1, <2>2, PassedInv DEF Alike, Labels, DeviceSteps
<1>13. ASSUME NEW r \in Runs, ServePublish(r) PROVE IInv'
  BY <1>0, <1>13, GateServe, StayedInv DEF ServePublish
<1>14. ASSUME NEW r \in Runs, Published(r) PROVE IInv'
  <2>1. /\ pc[r] = "publishing" /\ ~Asleep(r) /\ pc' = [pc EXCEPT ![r] = "listening"]
        /\ since' = 0 /\ UNCHANGED <<proc, port, fileVars, lines>>
    BY <1>14 DEF Published, Step, Asleep, Over
  <2>2. GateInv'
    BY <1>0, <1>14, GateServe
  <2> QED  BY <1>0, <2>1, <2>2, PassedInv DEF Alike, Labels, DeviceSteps
<1>15. ASSUME NEW r \in Runs, Poll(r) PROVE IInv'
  <2>1. lines' \subseteq [fresh : BOOLEAN, age : 0 .. MaxDelay]
    <3>1. 0 \in 0 .. MaxDelay /\ (port["gateway"] = published) \in BOOLEAN
      BY DelayAssumption
    <3> QED  BY <1>15, <3>1 DEF Poll
  <2>2. GateInv'
    BY <1>0, <1>15, GateServe
  <2> QED  BY <1>0, <1>15, <2>1, <2>2, StayedInv DEF Poll
<1>16. ASSUME NEW r \in Runs, Tick(r) PROVE IInv'
  <2>1. lines' \subseteq [fresh : BOOLEAN, age : 0 .. MaxDelay] /\ since' \in Nat
    BY <1>0, <1>16, DelayAssumption DEF Tick
  <2>2. GateInv'
    BY <1>0, <1>16, GateServe
  <2> QED  BY <1>0, <1>16, <2>1, <2>2, StayedInv DEF Tick
<1>17. ASSUME NEW r \in Runs, NEW line \in lines, Arrive(r, line) PROVE IInv'
  <2>1. /\ pc[r] \in {"settling", "publishing", "listening"} /\ ~Asleep(r)
        /\ lines' = lines \ {line} /\ since' = since
        /\ UNCHANGED <<port, file, backup, cleanup, edits, found, undisturbed, owned>>
    BY <1>17 DEF Arrive, Asleep, Over
  <2>2. GateInv'
    BY <1>0, <1>17, GateArrive
  <2>3. CASE pc[r] = "listening" /\ Counts
    <3>1. pc' = [pc EXCEPT ![r] = "restoring"] /\ KillAll(r) /\ todo' = PutBack
      BY <1>17, <2>3 DEF Arrive
    <3>2. FilesInv'
      BY <1>0, <2>1, <2>3, <3>1, FilesPutBack
    <3>3. proc' \in [Runs \X Servers -> {"none", "starting", "up", "asked"}]
      BY <1>0, <3>1, KillAllFits
    <3>4. todo' \in SetUps \cup PutBacks
      BY <1>0, <3>1, PutBackFits DEF TypeInv
    <3> QED  BY <1>0, <2>1, <2>2, <3>1, <3>2, <3>3, <3>4, DeviceInv DEF Labels, DeviceSteps
  <2>4. CASE ~(pc[r] = "listening" /\ Counts)
    <3>1. pc' = pc /\ proc' = proc /\ todo' = todo
      BY <1>17, <2>4 DEF Arrive
    <3> QED  BY <1>0, <2>1, <2>2, <3>1, StayedInv
  <2> QED  BY <2>3, <2>4
<1>18. ASSUME NEW r \in Runs, Catch(r) PROVE IInv'
  <2>1. /\ pc[r] \in {"preparing", "waiting", "setup", "publishing", "listening"} /\ ~Asleep(r)
        /\ pc' = [pc EXCEPT ![r] = "catching"] /\ todo' = PutBack
        /\ UNCHANGED <<interrupted, proc, port, file, backup, cleanup, edits, found, undisturbed,
                       owned, deviceVars>>
    BY <1>18 DEF Catch, Asleep, Over
  <2>2. GateInv'
    <3>1. pc[r] \notin Over \cup {"restoring", "catching"}
      BY <2>1 DEF Over
    <3>2. "catching" \in Labels \ (Over \cup {"idle", "gateway", "listening", "restoring"})
      BY DEF Labels, DeviceSteps, Over
    <3> QED  BY <1>0, <2>1, <3>1, <3>2, OthersAsleep, GateMoved
  <2>3. FilesInv'
    BY <1>0, <2>1, FilesPutBack
  <2>4. todo' \in SetUps \cup PutBacks
    BY <1>0, <2>1, PutBackFits DEF TypeInv
  <2> QED  BY <1>0, <2>1, <2>2, <2>3, <2>4, DeviceInv DEF Labels, DeviceSteps
<1>19. ASSUME NEW r \in Runs, Interrupt(r) PROVE IInv'
  <2>1. proc' \in [Runs \X Servers -> {"none", "starting", "up", "asked"}]
    BY <1>0, <1>19, KillAllFits DEF Interrupt
  <2>2. GateInv'
    BY <1>0, <1>19, GateInterrupt
  <2> QED  BY <1>0, <1>19, <2>1, <2>2, StayedInv DEF Interrupt
<1>20. ASSUME NEW p \in Runs \X Servers, Listen(p) PROVE IInv'
  <2>1. GateInv'
    BY <1>0, <1>20, GateListen
  <2>2. p[2] \in Servers
    OBVIOUS
  <2>3. /\ proc' \in [Runs \X Servers -> {"none", "starting", "up", "asked"}]
        /\ port' \in [Servers -> {NoOne} \cup (Runs \X Servers)]
    BY <1>0, <1>20, <2>2 DEF Listen
  <2> QED  BY <1>0, <1>20, <2>1, <2>3, StayedInv DEF Listen
<1>21. ASSUME NEW p \in Runs \X Servers, Obey(p) PROVE IInv'
  <2>1. GateInv'
    BY <1>0, <1>21, GateObey
  <2>2. /\ proc' \in [Runs \X Servers -> {"none", "starting", "up", "asked"}]
        /\ port' \in [Servers -> {NoOne} \cup (Runs \X Servers)]
    BY <1>0, <1>21 DEF Obey
  <2> QED  BY <1>0, <1>21, <2>1, <2>2, StayedInv DEF Obey
<1>22. ASSUME NEW f \in Files, NEW text \in Texts, Edit(f, text) PROVE IInv'
  <2>1. /\ pc' = pc /\ UNCHANGED <<scriptVars, backup, todo, cleanup, deviceVars>>
        /\ file' = [file EXCEPT ![f] = text]
        /\ owned' = [owned EXCEPT ![f] = IF backup[f] = Absent THEN text ELSE @]
    BY <1>22 DEF Edit
  <2>2. FilesInv' /\ GateInv'
    BY <1>0, <1>22, <2>1, FilesEdited, GateHolds
  <2>3. TypeInv' /\ OneAtATime'
    BY <1>0, <2>1 DEF TypeInv, OneAtATime, Contents
  <2> QED  BY <2>2, <2>3 DEF IInv
<1>23. CASE UNCHANGED vars
  <2>1. pc' = pc /\ UNCHANGED <<scriptVars, fileVars, deviceVars>>
    BY <1>23 DEF vars
  <2>2. GateInv'
    BY <1>0, <2>1, GateHolds
  <2> QED  BY <1>0, <2>1, <2>2, StayedInv
<1> QED
  BY <1>1, <1>2, <1>3, <1>4, <1>5, <1>6, <1>7, <1>8, <1>9, <1>10, <1>11, <1>12, <1>13, <1>14,
     <1>15, <1>16, <1>17, <1>18, <1>19, <1>20, <1>21, <1>22, <1>23 DEF Next, Boot, Device

\* The invariant holds throughout.
THEOREM Invariant == Spec => []IInv
<1> QED  BY InitInv, NextInv, PTL DEF Spec

\* However runs are interrupted, killed or fail, what the developer last wrote while no
\* backup lay there is in the file or in its backup.
THEOREM TextsKept == Spec => []OriginalsRecoverable
<1>1. IInv => OriginalsRecoverable
  <2> SUFFICES ASSUME IInv PROVE OriginalsRecoverable
    OBVIOUS
  <2>1. PICK step : FilesAt(step)
    BY DEF IInv, FilesInv
  <2> QED  BY <2>1 DEF FilesAt, TextsAt, OriginalsRecoverable
<1> QED  BY <1>1, Invariant, PTL

\* A device run that gets to its end, or to the end of its catch, has put back what it found.
THEOREM FilesPutBackAtEnd == Spec => FilesRestored
<1> DEFINE Restored ==
      \A r \in Runs, f \in Files :
        /\ pc[r] \in {"restoring", "catching"} /\ pc[r]' = "ended"
        /\ undisturbed /\ found[f] # Absent
        => file[f]' = found[f]
<1>1. IInv /\ [Next]_vars => [Restored]_vars
  <2> SUFFICES ASSUME IInv, Next, NEW r \in Runs, NEW f \in Files,
                      pc[r] \in {"restoring", "catching"}, pc'[r] = "ended",
                      undisturbed, found[f] # Absent
               PROVE  file'[f] = found[f]
    OBVIOUS
  <2>1. pc \in [Runs -> Labels] /\ ~Asleep(r) /\ FilesAt(pc[r])
    BY DEF IInv, TypeInv, FilesInv, Asleep, Over
  <2>2. DeviceEnd(r)
    <3>1. ASSUME NEW q \in Runs, Boot(q) \/ Terminate(q) \/ HandleInterrupt(q)
          PROVE  pc'[r] = pc[r]
      <4>1. pc[q] \in Awaits \cup {"idle"} /\ \E to : pc' = [pc EXCEPT ![q] = to]
        BY <3>1 DEF Boot, BootStart, BootNext, BootEnd, Terminate, HandleInterrupt, Step,
                    Awaits, BootSteps
      <4> QED  BY <2>1, <4>1 DEF Awaits, BootSteps
    <3>2. ASSUME NEW q \in Runs, Kill(q)
          PROVE  pc'[r] # "ended"
      BY <2>1, <3>2 DEF Kill
    <3>3. ASSUME NEW q \in Runs, Device(q), ~DeviceEnd(q)
          PROVE  pc'[r] # "ended"
      BY <2>1, <3>3 DEF Device, DeviceStart, Prepared, DeviceGateway, FileStep, Launch, Settled,
                        ServePublish, Published, Poll, Tick, Arrive, Catch, Step, scriptVars
    <3>4. ASSUME NEW q \in Runs, DeviceEnd(q)
          PROVE  q = r
      BY <2>1, <3>4 DEF DeviceEnd
    <3>5. ASSUME NEW q \in Runs, Interrupt(q)
          PROVE  pc' = pc
      BY <3>5 DEF Interrupt
    <3>6. ASSUME NEW p \in Runs \X Servers, Listen(p) \/ Obey(p)
          PROVE  pc' = pc
      BY <3>6 DEF Listen, Obey
    <3>7. ASSUME NEW g \in Files, NEW text \in Texts, Edit(g, text)
          PROVE  pc' = pc
      BY <3>7 DEF Edit, scriptVars
    <3> QED  BY <3>1, <3>2, <3>3, <3>4, <3>5, <3>6, <3>7 DEF Next
  <2>3. todo = <<>> /\ file' = file
    BY <2>2 DEF DeviceEnd, diskVars
  <2>4. ~Left("restore", f)
    BY <2>3, Members0 DEF Left
  <2> QED  BY <2>1, <2>3, <2>4 DEF FilesAt, FoundAt
<1> QED  BY Invariant, <1>1, PTL DEF Spec, FilesRestored

\* The line that ends a device run's wait is of a fetch its own gateway served after the
\* publish: a line from before is older than the grace allows.
THEOREM ConfirmationIsNew == Spec => []ConfirmedFetchedNew
<1>1. IInv => ConfirmedFetchedNew
  BY DEF IInv, GateInv, LinesOf, ConfirmedFetchedNew
<1> QED  BY <1>1, Invariant, PTL
=============================================================================
