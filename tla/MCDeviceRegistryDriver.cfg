CONSTANTS
  Devices = {d1}
  Groups = {"default", "prod"}
  Handlers = {h1}
  Reports = {0, 1, 2}
  MaxConfigs = 2
  MaxBeats = 2
  ParsesTimes = FALSE
SPECIFICATION Spec
PROPERTY RegistrationKept
