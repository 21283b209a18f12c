SPECIFICATION MCSpec
CONSTANTS
  Parts = {"batch"}
  Op = Op
  Await = Await
  Helpers = {h1, h2}
  Conns = {c1, c2}
  None = None
  Callers = {c1, c2}
  MinDelay = 1
  MaxDelay = 3
  Factor = 2
  MaxAttempts = 3
  MaxQueries = 2
  Adders = {a1, a2}
  Scopes = {"s"}
  Names <- MCNames
  MaxOps = 2
  MaxRouters = 3
  Registrants = {r1, r2}
  Queries = {q1}
  Prios = {1, 2}
  MaxEntries = 3
  MaxInputs = 2
  MaxSent = 2
  MaxErrors = 2
  MaxAnswers = 3
  MaxHeard = 4
  IndexRange = 3
  Providers = {p1, p2}
  MaxItems = 2
INVARIANTS UndecodableIsReported
CHECK_DEADLOCK FALSE
