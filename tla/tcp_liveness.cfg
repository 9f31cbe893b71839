SPECIFICATION LiveSpec
CONSTANTS
  Fds = {f1, f2, f3}
  NoFd = noFd
  Hosts = {h1}
  NoHost = noHost
  Reconnects = {TRUE}
  Windows = FALSE
  MaxAddrs = 1
  MaxHosts = 2
PROPERTIES
  LossNoticed
  Redials
  StopCompletes
