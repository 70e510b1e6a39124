SPECIFICATION FairSpec
CONSTANTS
  Runs = {c1, c2}
  NoRun = NoRun
  Polls = {p1, p2}
INVARIANTS
  TypeOK
  LinksAreOfDoneJob
  PageIsOfLatest
PROPERTIES
  ButtonComesBack
  VerdictShown
