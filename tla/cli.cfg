SPECIFICATION Spec
CONSTANTS
  p1 = p1
  p2 = p2
  job = job
  Procs = {p1, p2}
  Metrics = {2, 3}
  Internal = {}
  NoName = 0
  Keys = {job}
  Values = {"x", "y"}
  Empty = ""
  Nil = Nil
  Invocations <- MCInvocations
  Catalog <- MCCatalog
  Shares <- MCShares
  Replies <- MCReplies
  Files <- MCFiles
  Unsafe = {" ", "/", "!"}
  Normal <- MCNormal
  ApiHostNames = {"api.new.example"}
  Midnights <- MCMidnights
  CloseLies = FALSE
INVARIANTS
  TypeOK
  LastSuccessStands
  RollupsAgree
  WindowIsOfBillingDay
