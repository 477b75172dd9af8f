SPECIFICATION ClientsSpec
CONSTANTS
  Self = self
  Contacts = {self, peer}
  Rooms = {room}
  MembersOf <- OnlySelf
  Tasks = {t1, t2}
  MaxVersion = 2
  MaxStarts = 2
  MaxFaults = 1
  Callers = {u1, u2}
  MaxCalls = 4
  MaxRefusals = 2
  Threads = {ta, tb}
  Nobody = nobody
  Files = {f1, f2}
  MaxViewClicks = 3
  MaxMishaps = 1
  MaxMessages = 2
  MaxPresses = 3
  MaxErrors = 1
  Users = {"ann", "bob"}
  Channels = {"twilio", "wechat"}
  Summarised = {"thread"}
  Texts = {"text"}
  Typed = "typed"
  Unset = "unset"
  DefaultOf <- Defaults
  Operator = "ann"
  MaxEdits = 4
  MaxOutages = 1
  Chats = {"ann1", "ann2", "bob1"}
  OwnerOf <- Owners
  MaxDrafts = 2
  MaxTouches = 4
  MaxLosses = 1
INVARIANTS ObjectsAreCurrent ClientIsWhole   PageIsOfSession
SYMMETRY Interchangeable
CHECK_DEADLOCK FALSE
