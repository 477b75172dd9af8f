SPECIFICATION BotSpec
CONSTANTS
  Cap = 9
  MaxEvents = 4
  MaxSessions = 2
  MaxFaults = 4
  Callers = {c1, c2}
  MaxStarts = 2
  MaxStops = 1
  MaxSwitches = 2
  MaxTrouble = 1
INVARIANTS OneSocket WireIsInOrder LifeIsSound
PROPERTIES Reconnects 
CHECK_DEADLOCK FALSE
