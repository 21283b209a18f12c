SPECIFICATION MCServeSpec
CONSTANTS
  Parts = {"serve"}
  Endpoints = {e1, e2}
  MaxDelay = 1
  None = None
  Grants = {0, 4, 6, 9}
  Requested = 9
  MinRenew = 2
  MaxTime = 13
  MaxHooks = 2
  MaxFails = 3
  Keys = {a, b}
  MaxSent = 3
  Servers = {s1, s2}
  RetryMax = 4
  RetryFor = 10
  MaxBindings = 3
  Requests = {r1, r2}
  Values = {u, v}
  Zero = zero
  Nil = nil
  Strangers = {v, nil, other}
  NoLocal = TRUE
  Failures = TRUE
  MaxCalls = 2
  MaxStrange = 1
  w1 = w1
  w2 = w2
  w3 = w3
  w4 = w4
  Walkers = {w1, w2, w3, w4}
  Goal <- MCGoal
  Creates <- MCCreates
  Planted <- MCPlanted
  Deep = FALSE
  MaxDeletes = 1
PROPERTIES HookQueryAnswered
CHECK_DEADLOCK FALSE
