SPECIFICATION FairSpec
CONSTANTS
  Metrics = {m1, m2, m3}
  NoMetric = NoMetric
  Series = {s1, s2}
  Limit = 2
  Workers = 2
INVARIANTS
  TypeOK
  ReportIsComplete
  RootCauseReported
PROPERTIES
  ImplementsGather
  FetchEnds
