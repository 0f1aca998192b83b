CONSTANTS
  Recs = {r1, r2}
  Conns = {k1, k2}
  Calls = {c1, c2}
  Targets = {t1}
  Files = {f1}
  None = None
  MaxCalls = 3
  MaxInbox = 1
  TabFrames = {"f1"}
  Early = {"f1"}
  MaxDocs = 2
  MaxSess = 2
  MaxSnaps = 2
  MaxQueue = 1
  MaxTricks = 2
  PageRequests = {"q1", "q2"}
  Times = 1
  Cap = 1
  MaxSets = 2
  MaxDialogs = 2
  MaxLoads = 3
  BodyWatchers = {1}
  BodySessions = {"s1", "s2"}
  BusySessions = {"s1"}
  MaxBodyChanges = 1
  TurnWatchers = {1, 2}
  TurnSessions = {"s1"}
  MaxChanges = 4
  PendingCap = 2
  RingCap = 2
  ItemMax = 1
  Budget = 1
  Permits = 1
  BacklogCap = 1
  MaxBody = 2
  Senders = {"x", "y", "z"}
  Instances = {"i", "j"}
  Sids = {"k", "l"}
  MaxMoves = 2
  Timeouts = {0, 3}
  Interval = 2
  MaxTime = 4
  MaxClicks = {0, 2}
  MaxEmulations = 2
  Sheets = {1, 2, 3}
  Texts <- MCTexts
  MaxSheets = 2
  MaxRules = 3
  MaxSheetChanges = 1
  MaxStarts = 3
  MaxAsks = 3
SPECIFICATION MCSpec
SYMMETRY Symmetry
INVARIANTS OneLoop SessionsMatch RefsDescribeThePage NothingStaysDown FillStaysInItsField RequestsAreServed LoadIsNotMissed BodiesAreAccountedFor NewestIsRegistered TableMatchesWaiters ExpiryIsAudited ToolsTellTheTruth SnapshotTellsTheTruth RedactionIsSafe RulesDoAsTheySay
PROPERTIES NoWaiterPassedOver
CHECK_DEADLOCK FALSE
