CONSTANTS
  relay = relay
  leech = leech
  seed = seed
  NoJob = NoJob
  Peer <- MCPeer
  NChunks = 2
  First <- MCFirst
  Size <- MCSize
  DataMax = 2
  Buffer = 1
  Dials <- MCRelayDials
  Listing = {relay}
  Failing = {relay}
  Requests <- MCRelayRequests
  UserOffsets = {}
  Seeds <- MCRelaySeeds
  Files = {leech, seed}
SPECIFICATION Spec
INVARIANTS TypeOK ServedBlocksRight
PROPERTIES SwarmSpec
CHECK_DEADLOCK FALSE
