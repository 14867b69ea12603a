CONSTANTS
  Devices = {d1}
  Groups = {"default", "prod"}
  Handlers = {h1, h2}
  Reports = {0, 1, 2}
  MaxConfigs = 2
  MaxBeats = 2
  ParsesTimes = TRUE
SPECIFICATION Spec
INVARIANTS OneActivePerGroup GroupKept HeartbeatRecorded
