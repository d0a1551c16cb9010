CONSTANTS
  build1 = build1
  build2 = build2
  test1 = test1
  edit1 = edit1
  edit2 = edit2
  edit3 = edit3
  ta = ta
  tb = tb
  tc = tc
  NotReleased = NotReleased
  Commands = {build1, build2, test1, edit1, edit2, edit3}
  Request <- MCRequest
  Quotas <- MCQuotas
  Ttl = 2
  MaxReservations = 3
  MaxTime = 3
  Provisions = {edit1, edit2, edit3}
  Paths = {"f"}
  LeaseTtl = 2
  MaxReads = 3
  MaxFailures = 2
  Tenants = {ta, tb, tc}
  Watched = ta
  Priorities = {1, 2}
  MaxSlots = 2
  CursorCycle = 6
  Modules <- MCModules
  Schemas <- MCSchemas
  Callers = {"control", "mobile"}
  Methods = {"initialize", "initialized", "turn/start", "model/list", "thread/shellCommand"}
  MaxWire = 5
SPECIFICATION MCSpec
INVARIANTS
  WithinQuota
  PlannedWithinQuota
  StartedSandboxes
  LeaseWritesOnce
  NobodyStarves
  DenialsStay
  SchemaStaysCovered
  HandshakeFirst
CHECK_DEADLOCK FALSE
