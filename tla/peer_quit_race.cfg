CONSTANTS
  a1 = a1
  a2 = a2
  i1 = i1
  i2 = i2
  Listener = Listener
  NoConn = NoConn
  ServerFd = 3
  Inbound = {i1, i2}
  Dials = {}
  Addr = {i1, i2}
  AddrOf <- MCServingAddrOf
  FD <- MCFD4
  MaxPeers = 2
  Capacity = 10
  Commands = {"QUIT"}
  Traffic = {"DSN"}
  MaxInbox = 1
SPECIFICATION FairSpec
CHECK_DEADLOCK FALSE
PROPERTIES QuitTerminates
