SPECIFICATION SpecOne
CONSTANTS
  None = None
  Rule = {r1}
  NoRule = NoRule
  Condition = {"high", "change"}
  MaxOccurrences = 2
  AskedKind = {"active", "history"}
  ThresholdAlarm = {"o1"}
  ChangeAlarm = {"o2"}
  MaxRules = 2
  MaxStream = 2
  MaxAsked = 1
  Pair = {a, b}
  User = {"u1", "u2"}
  Call = {a, b}
  MaxTokenVersion = 1
  MaxEpoch = 1
  Project = {"p1"}
  MaxBackups = 1
  MaxProjectVersion = 3
  MaxProjectEdits = 1
  View = {"v1", "v2"}
  MaxRowVersion = 2
  Variable = {"v1"}
  Digital = {"v1"}
  PointValue = {0, 2}
  MaxQueue = 2
  MaxValue = 1
  MaxBindingEdits = 2
  LinkValue = {0, 1}
  Wire = 3
  SyncEvery = 2
  MaxFrames = 1
  ServerNode = {1, 2}
  MaxConfigEdits = 2
  Capacity = 2
  MaxBatch = 2
SYMMETRY Symmetry
INVARIANTS
  TypesOK
  ShowsReceived
  OldForAReason
  WhoLoggedIn
  KeptAlive
  TokensValid
  NothingLost
  SyncSafe
  HistoryFits
  Mirrors
  ShowsSelected
  NoBlindWrite
  ReopensTheSame
  ShowsVariable
  AlarmStands
  EventsTell
  GuardsMatchSchemas
  LinkInStep
  ConfigInStep
  Fed
CHECK_DEADLOCK FALSE
