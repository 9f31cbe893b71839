SPECIFICATION Spec
CONSTANTS
  Fds = {f1, f2}
  NoFd = noFd
  Hosts = {h1}
  NoHost = noHost
  Reconnects = {TRUE}
  Windows = FALSE
  MaxAddrs = 1
  MaxHosts = 1
INVARIANTS
  ForeignUntouched
