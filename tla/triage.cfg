SPECIFICATION TriageSpec
CONSTANTS
  d1 = d1  d2 = d2  h1 = h1  h2 = h2  p1 = p1  p2 = p2
  e1 = e1  e2 = e2
  Recorded = {e1, e2}
  MaxUnlogged = 1
  Measured = {e1}
  DayLength = 1
  MaxTime = 3
  MaxInserting = 2
  Tasks = {e1, e2}
  MaxBreaks = 2
  Users = {alice, bob}
  Envelopes = {"envelope"}
  Calls = {"call"}
  MaxLosses = 1
  ThreadOf <- OneThread
  Drafts = {d1, d2}
  Handlers = {h1, h2}
  Pollers = {p1}
  Edits = {"reworded"}
  MaxAttempts = 2
  PageLimit = 2
  GuardsInFlight = FALSE
  ReportsFailures = TRUE
  Deliverable = {d1, d2}
  MaxFaults = 0
  MaxDoerRuns = 1
INVARIANTS PolicyContainment SentWasActuated  OneReviewPerThread
  LogTellsWhoSent ExchangesAreTold
PROPERTY ImplementsContract
SYMMETRY AllInterchangeable
CHECK_DEADLOCK FALSE
