SPECIFICATION Spec
CONSTANTS
  m1 = m1
  m2 = m2
  m3 = m3
  m4 = m4
  job = job
  env = env
  Metrics = {m1, m2, m3, m4}
  Labels = {job, env}
  Catalog <- MCCatalog
  MetricOf <- MCMetricOf
  KeyOf <- MCKeyOf
  Answers <- MCAnswers
  Workers = 2
INVARIANTS
  SubsetMatchIsBilled
