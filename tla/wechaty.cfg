SPECIFICATION FairSpec
CONSTANTS
  d1 = d1  d2 = d2  h1 = h1  h2 = h2  p1 = p1  p2 = p2
  ThreadOf <- OneThread
  Drafts = {d1, d2}
  Handlers = {}
  Pollers = {p1, p2}
  Edits = {"blank"}
  MaxAttempts = 2
  PageLimit = 2
  GuardsInFlight = TRUE
  ReportsFailures = FALSE
  Deliverable = {d1}
  MaxFaults = 1
  MaxDoerRuns = 1
INVARIANT OneActuationAtATime
PROPERTY ApprovedIsAttempted
CHECK_DEADLOCK FALSE
