SPECIFICATION Spec
CONSTANTS
  MaxRuns = 2
  Original = original
  Texts = {edited}
  Deaf <- MCDeaf
  MaxEdits = 1
  MaxDelay = 1
  Grace = 1
  Patience = 2
INVARIANTS OriginalsRecoverable ConfirmedFetchedNew
PROPERTIES FilesRestored TornDown
CHECK_DEADLOCK FALSE
