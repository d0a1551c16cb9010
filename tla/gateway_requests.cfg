CONSTANTS
  r1 = r1
  r2 = r2
  h1 = h1
  c1 = c1
  q1 = q1
  q2 = q2
  q3 = q3
  Runs = {r1, r2}
  Items <- MCItems
  Keys = {q1, q2, q3}
  Menu <- MCMenu
  AgentMoves <- MCAgentMoves
  MaxAttempts <- MCMaxAttempts
  NoRun = NoRun
  NoItem = NoItem
SPECIFICATION MCSpec
INVARIANTS
  GatewayTypeOK
  CompletedByOwnDecision
  ProjectionsShowCore
  LateAttemptsAreSilent
PROPERTIES
  ScopeApprovalsStayDecided
CHECK_DEADLOCK FALSE
