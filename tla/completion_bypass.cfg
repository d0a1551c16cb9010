CONSTANTS
  r1 = r1
  d1 = d1
  k1 = k1
  k2 = k2
  Runs = {r1}
  Decisions = {d1}
  Contracts = {c1}
  Tenants = {}
  Workspaces = {w1}
  Streams = {}
  CommandKeys = {k1, k2}
  ResponseKeys = {p1}
  RequestedStates <- LateAndCompleted
  MaxEvents = 25
  StoreKind = "file"
  LoadMayFail = FALSE
  InitialJournal <- IntegratingJournal
  InitialRecords <- CreationRecord
  NoRun = NoRun
  NoDecision = NoDecision
  NoRecord = NoRecord
  NoAggregate = NoAggregate
  NoVersion = NoVersion
SPECIFICATION DurableSpec
INVARIANT StoredCompletionHasDecision
