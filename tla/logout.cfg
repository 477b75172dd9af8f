SPECIFICATION Spec
CONSTANTS
  alice = alice  room = room
  Keys = {alice}
  Rooms = {}
  MaxFragments = 1
  MaxReports = 2
  MaxFaults = 0
INVARIANT LogoutShows
CHECK_DEADLOCK FALSE
