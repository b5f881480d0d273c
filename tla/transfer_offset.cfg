CONSTANTS
  relay = relay
  leech = leech
  seed = seed
  NoJob = NoJob
  Peer <- MCPair
  NChunks = 2
  First <- MCTwinFirst
  Size <- MCTwinSize
  DataMax = 2
  Buffer = 1
  Dials <- MCPairDials
  Listing = {}
  Failing = {}
  Requests <- MCTwinRequests
  UserOffsets = {2}
  Seeds <- MCPairSeeds
  Files = {seed}
SPECIFICATION Spec
INVARIANTS ServedBlocksRight
CHECK_DEADLOCK FALSE
