CONSTANTS
  a1 = a1
  a2 = a2
  i1 = i1
  d1 = d1
  Listener = Listener
  NoConn = NoConn
  ServerFd = 3
  Inbound = {i1}
  Dials = {d1}
  Addr <- MCDiallingAddr
  AddrOf <- MCDiallingAddrOf
  FD <- MCFD3
  MaxPeers = 2
  Capacity = 10
  Commands = {"CONNECT", "DISCONNECT", "QUIT"}
  Traffic = {"DSN"}
  MaxInbox = 1
SPECIFICATION FairSpec
PROPERTIES CommandCompletes QuitTerminatesOncePeersLeft
CHECK_DEADLOCK FALSE
