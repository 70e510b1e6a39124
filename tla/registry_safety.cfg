SPECIFICATION Spec
CONSTANTS
  Jobs = {j1, j2}
  NoJob = NoJob
  Requests = {r1}
  NFiles = 2
  TTL = 1
  MaxTime = 2
SYMMETRY Symmetry
INVARIANTS
  TypeOK
  DoneReplyIsComplete
  PromptLeavesNoDir
PROPERTIES
  LinkLivesForTTL
  ImplementsStore
