CONSTANTS
  Calls <- MCCalls
  ResponseHeaders <- MCResponseHeaders
  Key = "key"
  BodyLimit = 3
  ExcerptLimit = 2
  MaxSize = 5
SPECIFICATION CallSpec
INVARIANTS
  RequestReplayed
  BodyNotMisquoted
  OutcomeIsApiCalls
