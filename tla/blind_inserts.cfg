SPECIFICATION Spec
CONSTANTS
  m1 = m1  m2 = m2  m3 = m3  r1 = r1  r2 = r2
  Messages = {m1}
  Runs = {r1, r2}
  LowSignal = {}
  RetryLimit = 1
  MaxEvents = 1
  MaxSends <- FirstTwice
  MaxFaults = 1
INVARIANT EventsAreMerged
CHECK_DEADLOCK FALSE
