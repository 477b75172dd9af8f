SPECIFICATION ServiceSpec
CONSTANTS
  m1 = m1  m2 = m2  r1 = r1  r2 = r2  r3 = r3
  Messages = {m1}
  Runs = {r1, r2, r3}
  RetryLimit = 2
  MaxDrafts = 6
  MaxSweeps = 1
  MaxFaults = 2
  Drafts <- Numbered
  ThreadOf <- OneThread
  Edits = {}
  MaxAttempts = 1
  PageLimit = 1
  MaxChanges = 1
  Requests = {q1, q2}
  Hints = {"brief", "warm"}
  Notes = {n1, n2}
  Boundaries = {"no money"}
  Default = {"no secrets"}
  Cap = 1
  MaxRequests = 2
  MaxFailures = 1
  Imports = {i1, i2}
  Callbacks = {c1, c2}
  Chats = {"chat"}
  Bundles <- TwoBundles
  MaxImports = 3
  MaxMessages = 1
  MaxRefusals = 1
  Places <- TwoPlaces
  All = "all"
  Matches = {"word", "part"}
  ThreadLimit = 2
  SearchLimit = 1
  ListLimit = 1
  DraftLimit = 2
  MemoryLimit = 1
  MaxRows = 3
  MaxWrites = 4
INVARIANTS DraftsAreExplained 
  
PROPERTY SettledStands
SYMMETRY Interchangeable
CHECK_DEADLOCK FALSE
