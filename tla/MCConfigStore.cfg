CONSTANTS
  Handlers = {h1, h2}
  MaxVersion = 2
SPECIFICATION FairSpec
INVARIANTS TypeOK ExactlyOneActive NoLockCycle
PROPERTIES ImplementsRegistry Answered
