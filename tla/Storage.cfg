SPECIFICATION StorageSpec
CONSTANTS
  MemorySize = 15
  PageRun = 5
  kMaxLevel = 4
  Requests <- Sizes
  Null = Null
  kInline = 1
  ArenaBlocks = {b1, b2, b3}
  Space = Space
  Junk <- MCJunk
  Elements = {0, 1, 2, 3, 8, 16}
  MaxTable = 16
  Ptrs <- MCPtrs
  NoPtr = NoPtr
  HashOf <- MCHashOf
  MaxNodes = 3
  MaxVersion = 3
  e_SIZE = 2
  Callstacks = 2
  Hashes = {h1, h2, h3}
  NoHash = NoHash
  LeakSizes = {0, 1, 2, 3}
  MaxLeaks = 4
INVARIANTS BlocksTileTheRegions SkipListIsExact WindowsIsAskedOnce SearchesEnd BlocksAreOwned LargestLeaksAreShown
PROPERTIES RefinesArenaMemory RefinesSet RefinesGraph
