SPECIFICATION LiveSpec
CONSTANTS
  Fds = {f1, f2}
  NoFd = noFd
  Hosts = {h1}
  NoHost = noHost
  Reconnects = {TRUE}
  Windows = TRUE
  MaxAddrs = 1
  MaxHosts = 1
PROPERTIES
  Redials
