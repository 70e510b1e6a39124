SPECIFICATION Spec
CONSTANTS
  Days = {yesterday, today}
  OpenDays = {today}
  r1 = r1
  r2 = r2
  r3 = r3
  r4 = r4
  job = job
  env = env
  Rows = {r1, r2, r3, r4}
  Units <- MCUnits
  Keys = {job, env}
  KeyOf <- MCKeyOf
  PageSize = 2
INVARIANTS
  TypeOK
  NoRowMissed
  ExactIfStill
  CountedWithinLists
