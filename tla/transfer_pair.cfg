CONSTANTS
  relay = relay
  leech = leech
  seed = seed
  NoJob = NoJob
  Peer <- MCPair
  NChunks = 2
  First <- MCFirst
  Size <- MCSize
  DataMax = 2
  Buffer = 1
  Dials <- MCPairDials
  Listing = {relay, seed}
  Failing = {relay, seed}
  Requests <- MCPairRequests
  UserOffsets = {}
  Seeds <- MCPairSeeds
  Files = {seed}
SPECIFICATION FairSpec
PROPERTIES FetchAnswered FetchServed
CHECK_DEADLOCK FALSE
