SPECIFICATION MCSpec
CONSTANTS
  Broker1 = Broker1
  Broker2 = Broker2
  Brokers = {Broker1, Broker2}
  Direct = Direct
  Unset = Unset
  Startup = Unset
  Blank = Blank
  MaxPolls = 2
  MaxSwitches = 2
  Db1 = Db1
  Db2 = Db2
  Databases = {Db1, Db2}
  None = None
  MaxReads = 2
  MaxTests = 2
INVARIANTS TypeOK OldLampsAreMarked OneSwitchPerPage ClaimsAreTrue
PROPERTIES MCPanelFollows MCFiguresFollow MCLoggedOutIsShown
CHECK_DEADLOCK FALSE
