SPECIFICATION SpecOne
CONSTANTS
  Socket = {s1, s2}
  NoSocket = NoSocket
  Address = {"a", "b", "bad"}
  Malformed = {"bad"}
  AddressLists <- TwoLists
  Members <- PrimaryAndBackup
  Threshold = 2
  FailbackTicks = 1
  MaxCommands = 1
  Mute = {"p"}
  Breakable = {"p"}
CHECK_DEADLOCK FALSE
INVARIANTS ConnectsAsAsked AnimationsRun OneSpeaks
PROPERTIES Reconnects GroupServes
