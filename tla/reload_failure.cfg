CONSTANTS
  r1 = r1
  d1 = d1
  k1 = k1
  k2 = k2
  Runs = {r1}
  Decisions = {d1}
  Contracts = {}
  Tenants = {}
  Workspaces = {w1}
  Streams = {}
  CommandKeys = {k1, k2}
  ResponseKeys = {}
  RequestedStates <- FirstStates
  MaxEvents = 4
  StoreKind = "postgres"
  LoadMayFail = TRUE
  InitialJournal <- EmptyJournal
  InitialRecords <- NoRecords
  NoRun = NoRun
  NoDecision = NoDecision
  NoRecord = NoRecord
  NoAggregate = NoAggregate
  NoVersion = NoVersion
SPECIFICATION DurableSpec
INVARIANT StoreIsReplayable
