CONSTANTS
  a1 = a1
  a2 = a2
  i1 = i1
  i2 = i2
  Listener = Listener
  NoConn = NoConn
  ServerFd = 3
  Inbound = {i1, i2}
  Dials = {}
  Addr = {i1, i2}
  AddrOf <- MCServingAddrOf
  FD <- MCFD3
  MaxPeers = 1
  Capacity = 10
  Commands = {"QUIT"}
  Traffic = {"DSN", "PNG"}
  MaxInbox = 1
SPECIFICATION FairSpec
INVARIANTS TypeOK AtMostMaxPeers SocketsNeverMixedUp JoinedBeforeFree PlacesGivenBack QuitWakesReaders
PROPERTIES LostPeerUnlisted QuitTerminatesIfPeersRead
CHECK_DEADLOCK FALSE
