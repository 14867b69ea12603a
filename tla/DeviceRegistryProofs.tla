------------------------ MODULE DeviceRegistryProofs ------------------------
(***************************************************************************)
(* The devices and configurations of the gateway for any number of them,   *)
(* of groups and of heartbeats served at once: one active configuration    *)
(* per group, no device in a group nobody put it in, and what a heartbeat  *)
(* leaves behind.  What makes the third inductive is what a handler        *)
(* carries from one statement to the next: a version its device has        *)
(* reported, and a version some configuration has.                         *)
(***************************************************************************)
EXTENDS DeviceRegistry, FiniteSetTheorems, TLAPS

Config == [group : Groups, active : BOOLEAN]
Labels == {"idle", "lookup", "register", "touch", "reread", "active", "status"}

TypeInv ==
  /\ Registered \subseteq Devices /\ devices \in [Registered -> Row]
  /\ configs \in Seq(Config)
  /\ beats \in [Devices -> SUBSET Reports]
  /\ pc \in [Handlers -> Labels]
  /\ DOMAIN beat = Handlers
  /\ group \in [Handlers -> Groups]
  /\ DOMAIN expected = Handlers
  /\ assigned \in [Devices -> Groups]

\* What a handler carries from statement to statement.
HandlersHold ==
  \A h \in Handlers :
    /\ pc[h] # "idle" => beat[h].device \in Devices /\ beat[h].version \in beats[beat[h].device]
    /\ expected[h] \in ExpectedVersions

\* The active configuration of a group that has any.
OneActive ==
  \A g \in Groups :
    (\E id \in DOMAIN configs : configs[id].group = g) =>
      \E id \in DOMAIN configs : ActiveIds(g) = {id}

\* The two halves of HeartbeatRecorded: who sent a heartbeat is registered,
Registers ==
  \A d \in Devices :
    /\ beats[d] # {} /\ d \notin unsaved
    /\ \A h \in Handlers : beat[h].device = d => pc[h] \notin {"lookup", "register"}
    => d \in Registered

\* and a row holds what was reported and, if it is marked so, expected.
RowsHeld ==
  \A d \in Registered :
    /\ devices[d].version \in beats[d] \cup {0}
    /\ devices[d].applied => devices[d].version \in ExpectedVersions

IInv == TypeInv /\ HandlersHold /\ OneActive /\ GroupKept /\ Registers /\ RowsHeld

-----------------------------------------------------------------------------
\* A configuration that is created is the active one of its group, and none of another
\* group is touched.
LEMMA CreateStep ==
  ASSUME TypeInv, OneActive, NEW g \in Groups, CreateConfig(g)
  PROVE  configs' \in Seq(Config) /\ OneActive' /\ DOMAIN configs \subseteq DOMAIN configs'
<1> DEFINE n == Len(configs)
           old == [id \in DOMAIN configs |->
                     IF id \in ActiveIds(g) THEN [configs[id] EXCEPT !.active = FALSE]
                     ELSE configs[id]]
           new == [group |-> g, active |-> TRUE]
<1>1. n \in Nat /\ DOMAIN configs = 1 .. n /\ \A id \in 1 .. n : configs[id] \in Config
  BY DEF TypeInv
<1>2. \A id \in 1 .. n : /\ old[id] \in Config
                         /\ old[id].group = configs[id].group
                         /\ configs[id].group = g => ~old[id].active
                         /\ configs[id].group # g => old[id] = configs[id]
  BY <1>1 DEF Config, ActiveIds
<1>3. old \in Seq(Config) /\ Len(old) = n /\ new \in Config
  <2>1. old \in [1 .. n -> Config]
    BY <1>1, <1>2
  <2> HIDE DEF old
  <2>2. old \in Seq(Config) /\ Len(old) = n
    BY <1>1, <2>1
  <2> QED  BY <2>2 DEF Config
<1>4. configs' = Append(old, new)
  BY DEF CreateConfig
<1> HIDE DEF old
<1>5. /\ configs' \in Seq(Config) /\ DOMAIN configs' = 1 .. n + 1
      /\ configs'[n + 1] = new
      /\ \A id \in 1 .. n : configs'[id] = old[id]
  BY <1>1, <1>3, <1>4
<1>6. ASSUME NEW f \in Groups, NEW i \in 1 .. n + 1, configs'[i].group = f
      PROVE  \E id \in DOMAIN configs' : ActiveIds(f)' = {id}
  <2>1. CASE f = g
    <3>1. \A id \in 1 .. n + 1 : configs'[id].group = f /\ configs'[id].active <=> id = n + 1
      <4> TAKE id \in 1 .. n + 1
      <4>1. CASE id = n + 1
        BY <1>5, <2>1, <4>1
      <4>2. CASE id \in 1 .. n
        BY <1>1, <1>2, <1>5, <2>1, <4>2
      <4> QED  BY <1>1, <4>1, <4>2
    <3>2. ActiveIds(f)' = {n + 1} /\ n + 1 \in DOMAIN configs'
      BY <1>1, <1>5, <3>1 DEF ActiveIds
    <3> QED  BY <3>2
  <2>2. CASE f # g
    <3>1. i \in 1 .. n /\ configs[i].group = f
      BY <1>1, <1>2, <1>5, <1>6, <2>2
    <3>2. PICK id \in 1 .. n : ActiveIds(f) = {id}
      BY <1>1, <3>1 DEF OneActive
    <3>3. \A j \in 1 .. n + 1 :
            (configs'[j].group = f /\ configs'[j].active)
              <=> (j \in 1 .. n /\ configs[j].group = f /\ configs[j].active)
      <4> TAKE j \in 1 .. n + 1
      <4>1. CASE j = n + 1
        BY <1>1, <1>5, <2>2, <4>1
      <4>2. CASE j \in 1 .. n
        BY <1>1, <1>2, <1>5, <2>2, <4>2
      <4> QED  BY <1>1, <4>1, <4>2
    <3>4. ActiveIds(f)' = ActiveIds(f)
      BY <1>1, <1>5, <3>3 DEF ActiveIds
    <3> QED  BY <1>1, <1>5, <3>2, <3>4
  <2> QED  BY <2>1, <2>2
<1> QED  BY <1>1, <1>5, <1>6 DEF OneActive

\* So is one that is activated.
LEMMA ActivateStep ==
  ASSUME TypeInv, OneActive, NEW id, ActivateConfig(id)
  PROVE  configs' \in Seq(Config) /\ OneActive' /\ DOMAIN configs \subseteq DOMAIN configs'
<1> DEFINE n == Len(configs)
           k == configs[id].group
<1>1. n \in Nat /\ DOMAIN configs = 1 .. n /\ id \in 1 .. n
      /\ \A i \in 1 .. n : configs[i] \in Config
  BY DEF TypeInv, ActivateConfig
<1>2. configs' = [i \in 1 .. n |-> IF configs[i].group # k THEN configs[i]
                                   ELSE [configs[i] EXCEPT !.active = (i = id)]]
  BY <1>1 DEF ActivateConfig
<1>3. ASSUME NEW i \in 1 .. n
      PROVE  /\ configs'[i] \in Config
             /\ configs'[i].group = configs[i].group
             /\ configs[i].group # k => configs'[i] = configs[i]
             /\ configs[i].group = k => configs'[i].active = (i = id)
  <2>1. CASE configs[i].group # k
    BY <1>1, <1>2, <2>1
  <2>2. CASE configs[i].group = k
    <3>1. configs'[i] = [configs[i] EXCEPT !.active = (i = id)] /\ configs[i] \in Config
      BY <1>1, <1>2, <2>2
    <3> QED  BY <2>2, <3>1 DEF Config
  <2> QED  BY <2>1, <2>2
<1>4. configs' \in Seq(Config) /\ DOMAIN configs' = 1 .. n
  BY <1>1, <1>2, <1>3
<1>5. ASSUME NEW f \in Groups, NEW i \in 1 .. n, configs'[i].group = f
      PROVE  \E j \in DOMAIN configs' : ActiveIds(f)' = {j}
  <2>1. CASE f = k
    <3>1. \A j \in 1 .. n : (configs'[j].group = f /\ configs'[j].active) <=> j = id
      BY <1>1, <1>3, <2>1
    <3>2. ActiveIds(f)' = {id}
      BY <1>1, <1>4, <3>1 DEF ActiveIds
    <3> QED  BY <1>1, <1>4, <3>2
  <2>2. CASE f # k
    <3>1. PICK j \in 1 .. n : ActiveIds(f) = {j}
      BY <1>1, <1>3, <1>5 DEF OneActive
    <3>2. \A l \in 1 .. n : (configs'[l].group = f /\ configs'[l].active)
                              <=> (configs[l].group = f /\ configs[l].active)
      BY <1>3, <2>2
    <3>3. ActiveIds(f)' = ActiveIds(f)
      BY <1>1, <1>4, <3>2 DEF ActiveIds
    <3> QED  BY <1>1, <1>4, <3>1, <3>3
  <2> QED  BY <2>1, <2>2
<1> QED  BY <1>1, <1>4, <1>5 DEF OneActive

-----------------------------------------------------------------------------
\* A registration leaves group and config status of a row, and gives a new one defaults.
LEMMA UpsertStep ==
  ASSUME TypeInv, NEW d \in Devices, NEW info \in {"own", "auto"}, NEW g \in Groups,
         Upsert(d, info, g)
  PROVE  /\ Registered' = Registered \cup {d} /\ devices' \in [Registered' -> Row]
         /\ \A e \in Registered : /\ devices'[e].group = devices[e].group
                                  /\ devices'[e].version = devices[e].version
                                  /\ devices'[e].applied = devices[e].applied
         /\ d \notin Registered => devices'[d].group = g /\ devices'[d].version = 0
<1> DEFINE row(e) == IF e # d THEN devices[e]
                     ELSE IF d \in Registered THEN [devices[d] EXCEPT !.info = info]
                     ELSE [info |-> info, group |-> g, version |-> 0, applied |-> TRUE]
<1>1. devices' = [e \in Registered \cup {d} |-> row(e)]
  BY DEF Upsert
<1>2. \A e \in Registered : devices[e] \in Row
  BY DEF TypeInv
<1>3. ASSUME NEW e \in Registered
      PROVE  /\ row(e) \in Row /\ row(e).group = devices[e].group
             /\ row(e).version = devices[e].version /\ row(e).applied = devices[e].applied
  BY <1>2 DEF Row
<1>4. d \notin Registered => row(d) \in Row /\ row(d).group = g /\ row(d).version = 0
  BY DEF Row
<1>5. \A e \in Registered \cup {d} : row(e) \in Row
  BY <1>3, <1>4
<1>6. Registered' = Registered \cup {d}
  BY <1>1 DEF Registered
<1> HIDE DEF row
<1>7. devices' \in [Registered' -> Row]
  BY <1>1, <1>5, <1>6
<1> QED  BY <1>1, <1>3, <1>4, <1>6, <1>7

\* What may be expected, and what was reported, only becomes more.
LEMMA ExpectedGrow ==
  ASSUME DOMAIN configs \subseteq DOMAIN configs'
  PROVE  ExpectedVersions \subseteq ExpectedVersions'
BY DEF ExpectedVersions

\* Rows that keep version and mark, or are new, hold what they should.
LEMMA RowsKept ==
  ASSUME RowsHeld, DOMAIN configs \subseteq DOMAIN configs',
         \A d \in Registered : beats[d] \subseteq beats'[d],
         \A d \in Registered' :
           \/ d \in Registered /\ devices'[d].version = devices[d].version
                               /\ devices'[d].applied = devices[d].applied
           \/ devices'[d].version = 0
  PROVE  RowsHeld'
<1>1. 0 \in ExpectedVersions' /\ ExpectedVersions \subseteq ExpectedVersions'
  BY ExpectedGrow DEF ExpectedVersions
<1> QED  BY <1>1 DEF RowsHeld

\* A step that leaves the configurations alone leaves these alone.
LEMMA ConfigsAlone ==
  UNCHANGED configs => UNCHANGED <<ExpectedVersions>> /\ (OneActive => OneActive')
BY DEF ExpectedVersions, OneActive, ActiveIds

-----------------------------------------------------------------------------
\* The invariant holds at the start,
LEMMA InitInv == Init => IInv
<1> SUFFICES ASSUME Init PROVE IInv
  OBVIOUS
<1>1. Registered = {} /\ configs = <<>> /\ DOMAIN configs = {}
  BY DEF Init, Registered
<1>2. TypeInv
  BY <1>1, GroupsAssumption DEF Init, TypeInv, Labels
<1>3. HandlersHold
  BY DEF Init, HandlersHold, ExpectedVersions
<1> QED  BY <1>1, <1>2, <1>3 DEF Init, IInv, OneActive, GroupKept, Registers, RowsHeld

\* A registration keeps it.
LEMMA RegisterStep ==
  ASSUME IInv, NEW d \in Devices, NEW g \in Groups, Register(d, g)
  PROVE  IInv'
<1> USE DEF IInv
<1>1. /\ Registered' = Registered \cup {d} /\ devices' \in [Registered' -> Row]
      /\ \A e \in Registered : /\ devices'[e].group = devices[e].group
                               /\ devices'[e].version = devices[e].version
                               /\ devices'[e].applied = devices[e].applied
      /\ d \notin Registered => devices'[d].group = g /\ devices'[d].version = 0
  BY UpsertStep DEF Register
<1>2. /\ UNCHANGED <<configs, beats, pc, beat, group, expected, unsaved>>
      /\ assigned' = IF d \in Registered THEN assigned ELSE [assigned EXCEPT ![d] = g]
  BY DEF Register, handlerVars
<1>3. UNCHANGED <<ExpectedVersions>> /\ OneActive'
  BY <1>2, ConfigsAlone
<1>4. TypeInv'
  BY <1>1, <1>2 DEF TypeInv
<1>5. HandlersHold'
  BY <1>2, <1>3 DEF HandlersHold
<1>6. GroupKept'
  BY <1>1, <1>2 DEF GroupKept, TypeInv
<1>7. Registers'
  BY <1>1, <1>2 DEF Registers
<1>8. RowsHeld'
  BY <1>1, <1>2, RowsKept
<1> QED  BY <1>3, <1>4, <1>5, <1>6, <1>7, <1>8

\* So does a change of the group.
LEMMA UpdateGroupStep ==
  ASSUME IInv, NEW d \in Devices, NEW g \in Groups, UpdateGroup(d, g)
  PROVE  IInv'
<1> USE DEF IInv
<1>1. /\ d \in Registered /\ devices' = [devices EXCEPT ![d].group = g]
      /\ assigned' = [assigned EXCEPT ![d] = g]
      /\ UNCHANGED <<configs, beats, pc, beat, group, expected, unsaved>>
  BY DEF UpdateGroup, handlerVars
<1>2. /\ Registered' = Registered /\ devices' \in [Registered -> Row]
      /\ \A e \in Registered : /\ devices'[e].group = IF e = d THEN g ELSE devices[e].group
                               /\ devices'[e].version = devices[e].version
                               /\ devices'[e].applied = devices[e].applied
  BY <1>1 DEF Registered, TypeInv, Row
<1>3. UNCHANGED <<ExpectedVersions>> /\ OneActive'
  BY <1>1, ConfigsAlone
<1>4. TypeInv'
  BY <1>1, <1>2 DEF TypeInv
<1>5. HandlersHold'
  BY <1>1, <1>3 DEF HandlersHold
<1>6. GroupKept'
  BY <1>1, <1>2 DEF GroupKept, TypeInv
<1>7. Registers'
  BY <1>1, <1>2 DEF Registers
<1>8. RowsHeld'
  BY <1>1, <1>2, RowsKept
<1> QED  BY <1>3, <1>4, <1>5, <1>6, <1>7, <1>8

\* So does every statement of a heartbeat: its arrival,
LEMMA StatusStep ==
  ASSUME IInv, NEW h \in Handlers, NEW d \in Devices, NEW v \in Reports, Status(h, d, v)
  PROVE  IInv'
<1> USE DEF IInv
<1>1. /\ pc[h] = "idle"
      /\ beat' = [beat EXCEPT ![h] = [device |-> d, version |-> v]]
      /\ beats' = [beats EXCEPT ![d] = @ \cup {v}]
      /\ pc' = [pc EXCEPT ![h] = "lookup"]
      /\ UNCHANGED <<devices, configs, group, expected, assigned, unsaved, Registered>>
  BY DEF Status, Goto, historyVars, Registered
<1>2. /\ \A e \in Devices : beats[e] \subseteq beats'[e]
      /\ beat'[h].device = d /\ beat'[h].version = v /\ v \in beats'[d] /\ pc'[h] = "lookup"
      /\ \A g \in Handlers \ {h} : beat'[g] = beat[g] /\ pc'[g] = pc[g]
      /\ \A e \in Devices \ {d} : beats'[e] = beats[e]
  BY <1>1 DEF TypeInv
<1>3. UNCHANGED <<ExpectedVersions>> /\ OneActive'
  BY <1>1, ConfigsAlone
<1>4. TypeInv'
  BY <1>1 DEF TypeInv, Labels
<1>5. HandlersHold'
  <2>1. ASSUME NEW g \in Handlers, pc'[g] # "idle"
        PROVE  beat'[g].device \in Devices /\ beat'[g].version \in beats'[beat'[g].device]
    <3>1. CASE g = h
      BY <1>2, <3>1
    <3>2. CASE g # h
      BY <1>2, <2>1, <3>2 DEF HandlersHold
    <3> QED  BY <3>1, <3>2
  <2>2. \A g \in Handlers : expected'[g] \in ExpectedVersions'
    BY <1>1, <1>3 DEF HandlersHold
  <2> QED  BY <2>1, <2>2 DEF HandlersHold
<1>6. GroupKept'
  BY <1>1 DEF GroupKept
<1>7. Registers'
  <2>1. ASSUME NEW e \in Devices, beats'[e] # {}, e \notin unsaved,
               \A g \in Handlers : beat'[g].device = e => pc'[g] \notin {"lookup", "register"}
        PROVE  e \in Registered
    <3>1. e # d
      BY <1>2, <2>1
    <3>2. \A g \in Handlers : beat[g].device = e => pc[g] \notin {"lookup", "register"}
      BY <1>1, <1>2, <2>1
    <3> QED  BY <1>2, <2>1, <3>1, <3>2 DEF Registers
  <2> QED  BY <1>1, <2>1 DEF Registers
<1>8. RowsHeld'
  BY <1>1, <1>2, RowsKept DEF TypeInv
<1> QED  BY <1>3, <1>4, <1>5, <1>6, <1>7, <1>8

\* a statement that only reads,
LEMMA ReadingStep ==
  ASSUME IInv, NEW h \in Handlers, NEW label \in Labels, pc[h] # "idle",
         pc' = [pc EXCEPT ![h] = label],
         pc[h] \in {"lookup", "register"} => label = "register" \/ beat[h].device \in Registered,
         UNCHANGED <<devices, configs, beats, beat, assigned, unsaved>>,
         group' \in [Handlers -> Groups],
         DOMAIN expected' = Handlers, \A g \in Handlers : expected'[g] \in ExpectedVersions
  PROVE  IInv'
<1> USE DEF IInv
<1>1. UNCHANGED <<ExpectedVersions>> /\ OneActive'
  BY ConfigsAlone
<1>2. Registered' = Registered
  BY DEF Registered
<1>3. TypeInv'
  BY <1>2 DEF TypeInv
<1>4. HandlersHold'
  BY <1>1 DEF HandlersHold, TypeInv
<1>5. GroupKept'
  BY <1>2 DEF GroupKept
<1>6. Registers'
  BY <1>2 DEF Registers, TypeInv
<1>7. RowsHeld'
  BY <1>2, RowsKept
<1> QED  BY <1>1, <1>3, <1>4, <1>5, <1>6, <1>7

\* the registration, done or refused,
LEMMA AutoRegisterStep ==
  ASSUME IInv, NEW h \in Handlers, AutoRegister(h)
  PROVE  IInv'
<1> DEFINE d == beat[h].device
<1> USE DEF IInv
<1>1. /\ pc[h] = "register" /\ pc' = [pc EXCEPT ![h] = "reread"]
      /\ UNCHANGED <<configs, beats, beat, group, expected>>
  BY DEF AutoRegister, Goto
<1>2. d \in Devices
  BY <1>1 DEF HandlersHold
<1>3. \/ /\ Upsert(d, "auto", "default") /\ unsaved' = unsaved
         /\ assigned' = IF d \in Registered THEN assigned ELSE [assigned EXCEPT ![d] = "default"]
      \/ unsaved' = unsaved \cup {d} /\ UNCHANGED <<devices, assigned>>
  BY DEF AutoRegister
<1>4. \/ /\ Registered' = Registered \cup {d}
         /\ d \notin Registered => devices'[d].group = "default" /\ devices'[d].version = 0
         /\ unsaved' = unsaved
         /\ assigned' = IF d \in Registered THEN assigned ELSE [assigned EXCEPT ![d] = "default"]
      \/ Registered' = Registered /\ unsaved' = unsaved \cup {d} /\ UNCHANGED assigned
  BY <1>2, <1>3, UpsertStep, GroupsAssumption DEF Registered
<1>5. /\ devices' \in [Registered' -> Row]
      /\ \A e \in Registered : /\ devices'[e].group = devices[e].group
                               /\ devices'[e].version = devices[e].version
                               /\ devices'[e].applied = devices[e].applied
  BY <1>2, <1>3, UpsertStep, GroupsAssumption DEF TypeInv, Registered
<1>6. UNCHANGED <<ExpectedVersions>> /\ OneActive'
  BY <1>1, ConfigsAlone
<1>7. TypeInv'
  <2>1. Registered' \subseteq Devices /\ assigned' \in [Devices -> Groups]
    BY <1>2, <1>4, GroupsAssumption DEF TypeInv
  <2> QED  BY <1>1, <1>5, <2>1 DEF TypeInv, Labels
<1>8. HandlersHold'
  BY <1>1, <1>6 DEF HandlersHold, TypeInv
<1>9. GroupKept'
  BY <1>2, <1>4, <1>5 DEF GroupKept, TypeInv
<1>10. Registers'
  <2>1. ASSUME NEW e \in Devices, e # d, beats[e] # {}, e \notin unsaved',
               \A g \in Handlers : beat[g].device = e => pc'[g] \notin {"lookup", "register"}
        PROVE  e \in Registered'
    <3>1. \A g \in Handlers : beat[g].device = e => pc[g] \notin {"lookup", "register"}
      BY <1>1, <2>1 DEF TypeInv
    <3> QED  BY <1>4, <2>1, <3>1 DEF Registers
  <2>2. d \in Registered' \/ d \in unsaved'
    BY <1>4
  <2> QED  BY <1>1, <2>1, <2>2 DEF Registers
<1>11. RowsHeld'
  BY <1>1, <1>4, <1>5, RowsKept
<1> QED  BY <1>6, <1>7, <1>8, <1>9, <1>10, <1>11

\* and the config status, stored or not.
LEMMA WriteStatusStep ==
  ASSUME IInv, NEW h \in Handlers, WriteStatus(h)
  PROVE  IInv'
<1> DEFINE d == beat[h].device
           v == beat[h].version
<1> USE DEF IInv
<1>1. /\ pc[h] = "status" /\ pc' = [pc EXCEPT ![h] = "idle"]
      /\ UNCHANGED <<configs, beats, beat, group, expected, assigned, unsaved>>
  BY DEF WriteStatus, Goto, historyVars
<1>2. d \in Devices /\ v \in beats[d] /\ expected[h] \in ExpectedVersions
  BY <1>1 DEF HandlersHold
<1>3. CASE UNCHANGED devices
  <2>1. \A g \in Handlers : expected'[g] \in ExpectedVersions
    BY <1>1 DEF HandlersHold
  <2>2. "idle" \in Labels /\ group' \in [Handlers -> Groups] /\ DOMAIN expected' = Handlers
    BY <1>1 DEF Labels, TypeInv
  <2> QED  BY <1>1, <1>3, <2>1, <2>2, ReadingStep
<1>4. CASE devices' = [devices EXCEPT ![d] = WithStatus(@, v, v = expected[h])]
  <2>1. d \in Registered => WithStatus(devices[d], v, v = expected[h]) \in Row
    <3>1. d \in Registered => devices[d] \in Row
      BY DEF TypeInv
    <3>2. v \in Reports
      BY <1>2 DEF TypeInv
    <3> QED  BY <3>1, <3>2 DEF WithStatus, Row
  <2>2. /\ Registered' = Registered /\ devices' \in [Registered -> Row]
        /\ \A e \in Registered : devices'[e].group = devices[e].group
        /\ \A e \in Registered \ {d} : devices'[e] = devices[e]
        /\ d \in Registered => devices'[d] = WithStatus(devices[d], v, v = expected[h])
    BY <1>4, <2>1 DEF Registered, TypeInv, WithStatus
  <2>3. UNCHANGED <<ExpectedVersions>> /\ OneActive'
    BY <1>1, ConfigsAlone
  <2>4. TypeInv'
    BY <1>1, <2>2 DEF TypeInv, Labels
  <2>5. HandlersHold'
    BY <1>1, <2>3 DEF HandlersHold, TypeInv
  <2>6. GroupKept'
    BY <1>1, <2>2 DEF GroupKept
  <2>7. Registers'
    BY <1>1, <2>2 DEF Registers, TypeInv
  <2>8. RowsHeld'
    <3>1. d \in Registered => /\ devices'[d].version = v
                              /\ devices'[d].applied => v = expected[h]
      <4> SUFFICES ASSUME d \in Registered
                   PROVE  devices'[d].version = v /\ (devices'[d].applied => v = expected[h])
        OBVIOUS
      <4>1. devices'[d] = WithStatus(devices[d], v, v = expected[h])
        BY <2>2
      <4>2. /\ WithStatus(devices[d], v, v = expected[h]).version = v
            /\ WithStatus(devices[d], v, v = expected[h]).applied => v = expected[h]
        BY DEF WithStatus
      <4> QED  BY <4>1, <4>2, Zenon
    <3> QED  BY <1>1, <1>2, <2>2, <2>3, <3>1 DEF RowsHeld
  <2> QED  BY <2>3, <2>4, <2>5, <2>6, <2>7, <2>8
<1> QED  BY <1>3, <1>4 DEF WriteStatus

\* All statements of a heartbeat do.
LEMMA HeartbeatStep ==
  ASSUME IInv, NEW h \in Handlers, Heartbeat(h)
  PROVE  IInv'
<1> USE DEF IInv
<1>0. /\ Labels = {"idle", "lookup", "register", "touch", "reread", "active", "status"}
      /\ DOMAIN expected = Handlers /\ group \in [Handlers -> Groups]
      /\ \A g \in Handlers : expected[g] \in ExpectedVersions
  BY DEF Labels, TypeInv, HandlersHold
<1>1. CASE Lookup(h)
  <2>1. PICK label \in {"register", "touch"} :
          /\ pc' = [pc EXCEPT ![h] = label] /\ pc[h] = "lookup"
          /\ label = "register" \/ beat[h].device \in Registered
    BY <1>1 DEF Lookup, Goto, Readable
  <2> QED  BY <1>0, <1>1, <2>1, ReadingStep DEF Lookup, historyVars
<1>2. CASE Touch(h)
  BY <1>0, <1>2, ReadingStep DEF Touch, Goto, historyVars
<1>3. CASE Reread(h)
  <2>1. PICK label \in {"idle", "active"} : pc' = [pc EXCEPT ![h] = label] /\ pc[h] = "reread"
    BY <1>3 DEF Reread, Goto
  <2>2. group' \in [Handlers -> Groups]
    BY <1>0, <1>3 DEF Reread, Readable, TypeInv, Row
  <2> QED  BY <1>0, <1>3, <2>1, <2>2, ReadingStep DEF Reread, historyVars
<1>4. CASE ReadActive(h)
  <2>1. PICK label \in {"idle", "status"} : pc' = [pc EXCEPT ![h] = label] /\ pc[h] = "active"
    BY <1>4 DEF ReadActive, Goto
  <2>2. DOMAIN expected' = Handlers /\ \A g \in Handlers : expected'[g] \in ExpectedVersions
    BY <1>0, <1>4 DEF ReadActive, ActiveIds, ExpectedVersions
  <2> QED  BY <1>0, <1>4, <2>1, <2>2, ReadingStep DEF ReadActive, historyVars
<1> QED  BY <1>1, <1>2, <1>3, <1>4, StatusStep, AutoRegisterStep, WriteStatusStep DEF Heartbeat

\* Every step keeps the invariant.
LEMMA NextInv == IInv /\ [Next]_vars => IInv'
<1> SUFFICES ASSUME IInv, [Next]_vars PROVE IInv'
  OBVIOUS
<1> USE DEF IInv
<1>1. ASSUME UNCHANGED <<devices, beats, pc, beat, group, expected, assigned, unsaved>>,
             DOMAIN configs \subseteq DOMAIN configs', configs' \in Seq(Config), OneActive'
      PROVE  IInv'
  <2>1. Registered' = Registered /\ ExpectedVersions \subseteq ExpectedVersions'
    BY <1>1, ExpectedGrow DEF Registered
  <2>2. TypeInv'
    BY <1>1, <2>1 DEF TypeInv
  <2>3. HandlersHold'
    BY <1>1, <2>1 DEF HandlersHold
  <2>4. GroupKept' /\ Registers'
    BY <1>1, <2>1 DEF GroupKept, Registers
  <2>5. RowsHeld'
    BY <1>1, <2>1, RowsKept
  <2> QED  BY <1>1, <2>2, <2>3, <2>4, <2>5
<1>2. ASSUME NEW g \in Groups, CreateConfig(g) PROVE IInv'
  BY <1>1, <1>2, CreateStep DEF CreateConfig, handlerVars, historyVars
<1>3. ASSUME NEW id \in 1 .. MaxConfigs, ActivateConfig(id) PROVE IInv'
  BY <1>1, <1>3, ActivateStep DEF ActivateConfig, handlerVars, historyVars
<1>4. CASE RolloutStatus \/ UNCHANGED vars
  <2>1. UNCHANGED <<devices, configs, beats, pc, beat, group, expected, assigned, unsaved>>
    BY <1>4 DEF RolloutStatus, vars, handlerVars, historyVars
  <2>2. configs' \in Seq(Config) /\ OneActive'
    BY <2>1, ConfigsAlone DEF TypeInv
  <2> QED  BY <1>1, <2>1, <2>2
<1> QED  BY <1>2, <1>3, <1>4, RegisterStep, UpdateGroupStep, HeartbeatStep DEF Next

\* The invariant of the registry.
THEOREM Invariant == Spec => []IInv
BY InitInv, NextInv, PTL DEF Spec

\* Creating and activating configurations leaves every group that has any with exactly one
\* active (CreateOTELConfig and ActivateOTELConfig, db.go).
THEOREM OneConfigActive == Spec => []OneActivePerGroup
<1>1. IInv => OneActivePerGroup
  BY FS_Singleton DEF IInv, OneActive, OneActivePerGroup
<1> QED  BY <1>1, Invariant, PTL

\* A device stays in the group it was last put in, whatever heartbeats and registrations
\* race with that (RegisterDevice and UpdateDeviceGroup, db.go).
THEOREM GroupsKept == Spec => []GroupKept
<1>1. IInv => GroupKept
  BY DEF IInv
<1> QED  BY <1>1, Invariant, PTL

\* A heartbeat that has passed the registration leaves its device registered, unless that
\* was refused, with a version it has reported and marked as applied only if some
\* configuration was expected to have it (HandleStatus, handlers.go).
THEOREM HeartbeatsRecorded == Spec => []HeartbeatRecorded
<1>1. IInv => HeartbeatRecorded
  BY DEF IInv, Registers, RowsHeld, HeartbeatRecorded
<1> QED  BY <1>1, Invariant, PTL
=============================================================================
