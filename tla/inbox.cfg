SPECIFICATION InboundSpec
CONSTANTS
  alice = alice  room = room
  Keys = {alice, room}
  Rooms = {room}
  MaxFragments = 2
  MaxReports = 2
  MaxFaults = 2
  Messages = {m1, m2}
  Silent = {m2}
  MaxTries = 2
  MaxPatches = 1
  MaxHookFaults = 1
  Sends = {s1, s2}
  Lifetime = 2
  Margin = 1
  MaxTime = 4
  MaxTokens = 2
  MaxRefusals = 1
  Runs = {r1, r2}
  RetryLimit = 1
  MaxDrafts = 4
  MaxSweeps = 0
  MaxQueueFaults = 1
INVARIANTS FragmentsAreConserved DirectIsInOrder StopFlushes
  GatewaysAreTrue CachedTokensServe DoneIsAnswered
PROPERTIES ArrivedIsSettled QueuedIsSettled
CHECK_DEADLOCK FALSE
