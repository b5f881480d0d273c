CONSTANTS
  four = four
  one = one
  whole = whole
  shortHashes = shortHashes
  shortChunks = shortChunks
  single = single
  serving = serving
  Main = Main
  NoJob = NoJob
  Pkg <- MCPkg
  NChunks <- MCNChunks
  Hashes <- MCHashes
  Hash <- MCHash
  BpkgFile <- MCFiles
  Describes <- MCDescribes
  Lines <- MCLines
  MaxObjects = 2
  Capacity = 10
  Mistaken = {one}
  Handler <- MCHandlers
  Incoming <- MCIncoming
  Files = {four}
  Length <- MCLength
  Seeds <- MCSeeds
SPECIFICATION Spec
INVARIANTS NoUseAfterFree
CHECK_DEADLOCK FALSE
