SPECIFICATION FairSpec
CONSTANTS
  Jobs = {j1}
  NoJob = NoJob
  Requests = {r1}
  NFiles = 2
  TTL = 1
  MaxTime = 3
PROPERTIES
  VerdictReached
  FailedLeavesNoDir
  ExpiredIsReclaimed
  RequestAnswered
