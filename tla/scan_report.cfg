SPECIFICATION Spec
CONSTANTS
  a = a
  b = b
  cx = cx
  env1 = env1
  prod = prod
  dev = dev
  d1 = d1
  d2 = d2
  a1 = a1
  s1 = s1
  Metrics = {a, b, cx}
  Internal = {cx}
  NoName = NoName
  Keys = {env1}
  Values = {prod, dev}
  Empty = Empty
  NoId = NoId
  Tenants <- MCTenants
  Resources <- MCResources
  Docs <- MCDocs
INVARIANTS
  TypeOK
  UsageCountsReferrers
  SelectorsAccounted
  UsedSeriesSurvive
  DropIsExplained
