SPECIFICATION Spec
CONSTANTS
  nvr1 = nvr1
  nvr2 = nvr2
  Conns <- MCConns
  Fds <- MCFdsLive
  MaxFiles = 1
  HeartLimit = 1
SYMMETRY Symm
INVARIANT SendsToOwnServer
