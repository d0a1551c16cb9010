CONSTANTS
  r1 = r1
  d1 = d1
  k1 = k1
  Runs = {r1}
  Decisions = {d1}
  Contracts = {}
  Tenants = {}
  Workspaces = {w1}
  Streams = {s1}
  CommandKeys = {k1}
  ResponseKeys = {}
  RequestedStates <- FirstStates
  MaxEvents = 3
  StoreKind = "file"
  LoadMayFail = TRUE
  InitialJournal <- EmptyJournal
  InitialRecords <- NoRecords
  NoRun = NoRun
  NoDecision = NoDecision
  NoRecord = NoRecord
  NoAggregate = NoAggregate
  NoVersion = NoVersion
SPECIFICATION DurableSpec
INVARIANT StoredVersionsIncrease
CHECK_DEADLOCK FALSE
