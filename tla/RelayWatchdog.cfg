\* The times of the code in half seconds.  CenterPass is the longest pass of
\* the Center's loop when no call waits for the network: the 2 s a verdict is
\* displayed and the delays around it.
CONSTANTS
  HeartbeatPeriod = 40
  RelayLag = 1
  NetworkDelay = 1
  CenterPass = 5
  UpdatePeriod = 2
  WatchdogLimit = 50
SPECIFICATION Spec
INVARIANTS
  TypeOK
  NoFalseAlarm
  SilenceIsNoticed
