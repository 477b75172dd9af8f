SPECIFICATION Spec
CONSTANTS
  d1 = d1  d2 = d2  h1 = h1  h2 = h2  p1 = p1  p2 = p2
  Drafts = {d1, d2}
  Handlers = {h1}
  Pollers = {p1}
  Edits = {"edited"}
  ThreadOf <- OneThread
  MaxAttempts = 2
  PageLimit = 2
  GuardsInFlight = FALSE
  ReportsFailures = TRUE
  Deliverable = {d1, d2}
  MaxFaults = 0
  MaxDoerRuns = 1
INVARIANT DoerWorkIsApproved
CHECK_DEADLOCK FALSE
