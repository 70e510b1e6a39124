SPECIFICATION Spec
CONSTANTS
  Jobs = {j1}
  NoJob = NoJob
  Requests = {r1}
  NFiles = 1
  TTL = 1
  MaxTime = 3
INVARIANTS
  NoOrphanDirs
