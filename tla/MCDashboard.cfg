SPECIFICATION Spec
CONSTANTS
  Groups = {all, g1}
  All = all
  MaxCalls = 3
  Heartbeats = {h1, h2}
  Reported <- MCReported
  MaxPolls = 2
  DeviceGroups = {g1, g2}
  DefaultGroup = g1
  Contents = {c1, c2}
  MaxConfigCalls = 3
  MaxChanges = 1
  MaxMade = 2
  Nanos = 1000000
  NoTrace = ""
  Documents <- MCDocuments
  NoPicture = ""
  Tokens = {t1, t2}
  Renamed <- MCRenamed
  MaxEndpoints = 5
INVARIANTS ControlsFollowCalls SettledOnSelection DocumentAccounted CredentialsReach
PROPERTY PollShowsAll
SYMMETRY Symmetric
