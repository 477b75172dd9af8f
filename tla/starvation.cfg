SPECIFICATION FairSpec
CONSTANTS
  d1 = d1  d2 = d2  h1 = h1  h2 = h2  p1 = p1  p2 = p2
  Drafts = {d1, d2}
  Handlers = {}
  Pollers = {p1}
  Edits = {}
  ThreadOf <- OneThread
  MaxAttempts = 2
  PageLimit = 1
  GuardsInFlight = TRUE
  ReportsFailures = FALSE
  Deliverable = {d1}
  MaxFaults = 0
  MaxDoerRuns = 1
PROPERTY ApprovedIsAttempted
CHECK_DEADLOCK FALSE
