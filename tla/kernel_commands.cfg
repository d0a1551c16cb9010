CONSTANTS
  r1 = r1
  r2 = r2
  Runs = {r1, r2}
  Decisions = {d1}
  Contracts = {c1}
  Tenants = {t1}
  Workspaces = {w1}
  Streams = {s1}
  CommandKeys = {k1, k2}
  ResponseKeys = {p1}
  RequestedStates <- MCStates
  MaxEvents = 26
  NoRun = NoRun
  NoDecision = NoDecision
  NoRecord = NoRecord
  NoAggregate = NoAggregate
  NoVersion = NoVersion
SYMMETRY MCSymmetry
SPECIFICATION CommandsSpec
INVARIANTS
  TypeOK
  VersionsContiguous
  RunVersionIsJournalVersion
  StateMatchesReplay
  RunHistoryLegal
  TransitionsAudited
  CreatedRunsAreRetryable
  RecordedOnce
PROPERTY HistoryIsKept
