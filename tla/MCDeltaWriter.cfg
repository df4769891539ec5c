CONSTANTS
  Keys <- TheKeys
  Hashes <- TheHashes
  HashOf <- TheHashOf
  PCs <- ThePCs
  FramesOf <- TheFramesOf
  Rest <- TheRest
  Maps <- TheMaps
  StackOf <- TheStackOf
  Runtime <- TheRuntime
  MaxSamples = 2
SPECIFICATION WriterSpec
INVARIANT IdsDistinct
INVARIANT InlineChains
INVARIANT SkipsOwnFrames
INVARIANT HasFunctionsRight
INVARIANT SamplesReadAsStacks
INVARIANT ListsIntact
PROPERTY SameEntry
