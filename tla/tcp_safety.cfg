SPECIFICATION Spec
CONSTANTS
  Fds = {f1, f2, f3}
  NoFd = noFd
  Hosts = {h1}
  NoHost = noHost
  Reconnects = {TRUE, FALSE}
  Windows = FALSE
  MaxAddrs = 2
  MaxHosts = 3
INVARIANTS
  ThreadOwnership
  StoppedIsQuiet
  DoConnectExclusive
  DialHasAddress
  ConnectedHasSocket
  NoSilentLoss
  StopClosesSockets
  IInv
PROPERTIES
  DialLeaksNothing
  LastTurn
  DoubleCloseHasCause
  ConnectionSpec
