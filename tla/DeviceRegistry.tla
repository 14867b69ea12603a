--------------------------- MODULE DeviceRegistry ---------------------------
(***************************************************************************)
(* The devices of the gateway and the OTEL configurations rolled out to    *)
(* their groups.  POST /status (a heartbeat) is a sequence of SQL          *)
(* statements without a transaction, one action each; explicit             *)
(* registration and a change of group are one statement.  Creating and     *)
(* activating a configuration are transactions, which ConfigStore shows to *)
(* be atomic for the tables of this database, and are one step here.       *)
(***************************************************************************)
EXTENDS Integers, Sequences, FiniteSets

CONSTANTS
  Devices,      \* device ids
  Groups,       \* group names; device_groups itself only ever lists "default"
  Handlers,     \* request goroutines that serve heartbeats
  Reports,      \* the config versions a device may report
  MaxConfigs,   \* no configuration is created after this many (bound)
  MaxBeats,     \* a device sends at most this many heartbeats (bound)
  ParsesTimes   \* TRUE if the driver hands COALESCE over TIMESTAMP columns to
                \* Scan as a time.  The driver of go.mod hands it over as text,
                \* which Scan cannot store in a time.Time (see ListDevices).

ASSUME GroupsAssumption == "default" \in Groups
ASSUME BoundsAssumption == Reports \subseteq Nat /\ MaxConfigs \in Nat /\ MaxBeats \in Nat
ASSUME ParsesTimesAssumption == ParsesTimes \in BOOLEAN

VARIABLES
  devices,  \* the rows of the devices table, by id
  configs,  \* otel_configurations: configs[id]
  beats,    \* beats[d] : the versions the heartbeats of d have recorded
  pc,       \* pc[h] : the statement h is about to execute
  beat,     \* beat[h] : [device, version], the heartbeat h serves
  group,    \* group[h] : device.DeviceGroup, once GetDevice has returned it
  expected, \* expected[h] : expectedVersion
  rollout,  \* the last answer of the rollout status; answer is "panic" for a crash
  assigned, \* history: the group each device was last put in
  unsaved   \* history: devices for which a registration failed

vars == <<devices, configs, beats, pc, beat, group, expected, rollout, assigned, unsaved>>
handlerVars == <<pc, beat, group, expected>>
historyVars == <<assigned, unsaved>>

\* Who filled in token, OS and app version: the device, or a heartbeat with
\* an "auto_" token and "unknown".
Row == [info : {"own", "auto"}, group : Groups, version : Reports \cup {0}, applied : BOOLEAN]

Registered == DOMAIN devices

Init ==
  /\ devices = <<>>
  /\ configs = <<>>
  /\ beats = [d \in Devices |-> {}]
  /\ pc = [h \in Handlers |-> "idle"]
  /\ beat \in [Handlers -> {[device |-> CHOOSE d \in Devices : TRUE, version |-> 0]}]
  /\ group = [h \in Handlers |-> "default"]
  /\ expected = [h \in Handlers |-> 0]
  /\ rollout = [answer |-> "none", version |-> 0, compliant |-> {}]
  /\ assigned = [d \in Devices |-> "default"]
  /\ unsaved = {}

Goto(h, label) == pc' = [pc EXCEPT ![h] = label]

-----------------------------------------------------------------------------
\* Mutation: the conflict clause overwrites the group as well.
UpsertGroup(d, info, g) ==
  devices' = [e \in Registered \cup {d} |->
                IF e # d THEN devices[e]
                ELSE [info |-> info, group |-> g, version |-> 0, applied |-> TRUE]]

\* RegisterDevice: a new row gets the defaults of the table; a conflict keeps
\* group and config status.
Upsert(d, info, g) ==
  devices' = [e \in Registered \cup {d} |->
                IF e # d THEN devices[e]
                ELSE IF d \in Registered THEN [devices[d] EXCEPT !.info = info]
                ELSE [info |-> info, group |-> g, version |-> 0, applied |-> TRUE]]

\* POST /register: HandleRegisterDevice.
Register(d, g) ==
  /\ Upsert(d, "own", g)
  /\ assigned' = IF d \in Registered THEN assigned ELSE [assigned EXCEPT ![d] = g]
  /\ UNCHANGED <<configs, beats, handlerVars, rollout, unsaved>>

\* PATCH of the group: an UPDATE, which matches nothing for an unknown device.
UpdateGroup(d, g) ==
  /\ d \in Registered
  /\ devices' = [devices EXCEPT ![d].group = g]
  /\ assigned' = [assigned EXCEPT ![d] = g]
  /\ UNCHANGED <<configs, beats, handlerVars, rollout, unsaved>>

-----------------------------------------------------------------------------
ActiveIds(g) == {id \in DOMAIN configs : configs[id].group = g /\ configs[id].active}

\* Mutation: only the configuration itself is switched on.
CreateBesides(g) ==
  /\ Len(configs) < MaxConfigs
  /\ configs' = Append(configs, [group |-> g, active |-> TRUE])
  /\ UNCHANGED <<devices, beats, handlerVars, rollout, historyVars>>

\* Its major version is the time of creation, here the id.
CreateConfig(g) ==
  /\ Len(configs) < MaxConfigs
  /\ configs' = Append([id \in DOMAIN configs |->
                          IF id \in ActiveIds(g) THEN [configs[id] EXCEPT !.active = FALSE]
                          ELSE configs[id]],
                       [group |-> g, active |-> TRUE])
  /\ UNCHANGED <<devices, beats, handlerVars, rollout, historyVars>>

ActivateConfig(id) ==
  /\ id \in DOMAIN configs
  /\ configs' = [i \in DOMAIN configs |->
                   IF configs[i].group # configs[id].group THEN configs[i]
                   ELSE [configs[i] EXCEPT !.active = (i = id)]]
  /\ UNCHANGED <<devices, beats, handlerVars, rollout, historyVars>>

\* strconv.Atoi(activeConfig.Version), its error dropped: a version reads
\* "<seconds>.0.0", which is no integer, and the result is 0.
AtoiVersion(id) == 0

-----------------------------------------------------------------------------
\* A heartbeat arrives; RecordHeartbeat fails and the request is over, or not.
Status(h, d, v) ==
  /\ pc[h] = "idle"
  /\ Cardinality(beats[d]) < MaxBeats
  /\ beat' = [beat EXCEPT ![h] = [device |-> d, version |-> v]]
  /\ beats' = [beats EXCEPT ![d] = @ \cup {v}]
  /\ Goto(h, "lookup")
  /\ UNCHANGED <<devices, configs, group, expected, rollout, historyVars>>

\* GetDevice finds the row and can return it.  It may fail for any row.
Readable(d) == d \in Registered /\ ParsesTimes

\* Mutation: an error of the lookup skips the registration.
LookupSkips(h) ==
  /\ pc[h] = "lookup"
  /\ \/ Goto(h, "reread")
     \/ Readable(beat[h].device) /\ Goto(h, "touch")
  /\ UNCHANGED <<devices, configs, beats, beat, group, expected, rollout, historyVars>>

\* The first GetDevice: an error counts as "not registered".
Lookup(h) ==
  /\ pc[h] = "lookup"
  /\ \/ Goto(h, "register")  \* no row, or an error
     \/ Readable(beat[h].device) /\ Goto(h, "touch")
  /\ UNCHANGED <<devices, configs, beats, beat, group, expected, rollout, historyVars>>

\* The auto-registration; its failure is logged.
AutoRegister(h) ==
  /\ pc[h] = "register"
  /\ \/ /\ Upsert(beat[h].device, "auto", "default")
        /\ assigned' = IF beat[h].device \in Registered THEN assigned
                       ELSE [assigned EXCEPT ![beat[h].device] = "default"]
        /\ UNCHANGED unsaved
     \/ /\ unsaved' = unsaved \cup {beat[h].device}
        /\ UNCHANGED <<devices, assigned>>
  /\ Goto(h, "reread")
  /\ UNCHANGED <<configs, beats, beat, group, expected, rollout>>

\* UpdateDeviceLastSeen: no column of this model.
Touch(h) ==
  /\ pc[h] = "touch"
  /\ Goto(h, "reread")
  /\ UNCHANGED <<devices, configs, beats, beat, group, expected, rollout, historyVars>>

\* The second GetDevice.
Reread(h) ==
  /\ pc[h] = "reread"
  /\ \/ /\ Goto(h, "idle")  \* no row, or an error: the answer is "ok"
        /\ UNCHANGED group
     \/ /\ Readable(beat[h].device)
        /\ group' = [group EXCEPT ![h] = devices[beat[h].device].group]
        /\ Goto(h, "active")
  /\ UNCHANGED <<devices, configs, beats, beat, expected, rollout, historyVars>>

\* GetActiveOTELConfig of the group that was read.
ReadActive(h) ==
  /\ pc[h] = "active"
  /\ \/ Goto(h, "idle") /\ UNCHANGED expected  \* none, or an error
     \/ \E id \in ActiveIds(group[h]) :
          /\ expected' = [expected EXCEPT ![h] = AtoiVersion(id)]
          /\ Goto(h, "status")
  /\ UNCHANGED <<devices, configs, beats, beat, group, rollout, historyVars>>

\* The row with the config status that UpdateDeviceConfigStatus writes.
WithStatus(row, v, ok) == [info |-> row.info, group |-> row.group, version |-> v, applied |-> ok]

\* UpdateDeviceConfigStatus; its failure is logged.
WriteStatus(h) ==
  LET v == beat[h].version
  IN  /\ pc[h] = "status"
      /\ \/ devices' = [devices EXCEPT ![beat[h].device] = WithStatus(@, v, v = expected[h])]
         \/ UNCHANGED devices
      /\ Goto(h, "idle")
      /\ UNCHANGED <<configs, beats, beat, group, expected, rollout, historyVars>>

Heartbeat(h) ==
  \/ \E d \in Devices, v \in Reports : Status(h, d, v)
  \/ Lookup(h) \/ AutoRegister(h) \/ Touch(h) \/ Reread(h) \/ ReadActive(h) \/ WriteStatus(h)

-----------------------------------------------------------------------------
\* The devices HandleGetConfigRolloutStatus counts as compliant with id.
Compliant(g, id) ==
  {d \in Registered : /\ devices[d].group = g
                      /\ devices[d].version = AtoiVersion(id) /\ devices[d].applied}

\* The rollout status of "default".  GetActiveOTELConfig returns nil without
\* an error when no configuration is active, and the handler dereferences it.
RolloutStatus ==
  /\ \/ /\ ActiveIds("default") = {}
        /\ rollout' = [answer |-> "panic", version |-> 0, compliant |-> {}]
     \/ \E id \in ActiveIds("default") :
          rollout' = [answer |-> "ok", version |-> id,
                      compliant |-> Compliant("default", id)]
  /\ UNCHANGED <<devices, configs, beats, handlerVars, historyVars>>

Next ==
  \/ \E d \in Devices, g \in Groups : Register(d, g) \/ UpdateGroup(d, g)
  \/ \E g \in Groups : CreateConfig(g)
  \/ \E id \in 1 .. MaxConfigs : ActivateConfig(id)
  \/ \E h \in Handlers : Heartbeat(h)
  \/ RolloutStatus

Spec == Init /\ [][Next]_vars
-----------------------------------------------------------------------------
\* A group that was ever given a configuration has exactly one active one.
OneActivePerGroup ==
  \A g \in Groups :
    (\E id \in DOMAIN configs : configs[id].group = g) => Cardinality(ActiveIds(g)) = 1

\* A device stays in the group its operator, or its first registration, put
\* it in: no later registration and no heartbeat moves it back to "default",
\* whatever it races with.
GroupKept == \A d \in Registered : devices[d].group = assigned[d]

\* What a device may have been expected to report: nothing yet, or a version.
ExpectedVersions == {0} \cup {AtoiVersion(id) : id \in DOMAIN configs}

\* What a heartbeat leaves behind, although its statements run one by one and
\* each may fail: the device is in the registry, unless the database refused to
\* register it; the version stored for it is one it has reported; and it is
\* marked as having applied that only if it was an expected one, whatever
\* became of its group and of the configuration meanwhile.
HeartbeatRecorded ==
  \A d \in Devices :
    /\ (/\ beats[d] # {} /\ d \notin unsaved
        /\ \A h \in Handlers : beat[h].device = d => pc[h] \notin {"lookup", "register"})
       => d \in Registered
    /\ d \in Registered =>
         /\ devices[d].version \in beats[d] \cup {0}
         /\ devices[d].applied => devices[d].version \in ExpectedVersions

\* HandleStatus: "Auto-register device if not already registered".  What a
\* device said of itself at its registration stays.
RegistrationKept ==
  [][\A d \in Registered : devices[d].info = "own" => devices'[d].info = "own"]_devices

=============================================================================
