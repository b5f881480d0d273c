CONSTANTS
  relay = relay
  leech = leech
  seed = seed
  NoJob = NoJob
  Peer <- MCPeer
  NChunks = 2
  First <- MCFirst
  Size <- MCSize
  DataMax = 2
  Buffer = 1
  Dials <- MCSourcesDials
  Listing = {}
  Failing = {}
  Requests <- MCSourcesRequests
  UserOffsets = {}
  Seeds <- MCSourcesSeeds
  Files = {seed, leech}
SPECIFICATION Spec
PROPERTIES RightBlocksStay
CHECK_DEADLOCK FALSE
