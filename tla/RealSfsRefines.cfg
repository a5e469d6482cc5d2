SPECIFICATION Spec
CONSTANTS
  PartitionSize = 4
  DataStart = 1
  EntryCount = 2
  BlockCnt = 2
  BlockSize = 1
  Names = {a, b}
  NoName = NoName
  Stored <- StoredNames
  Prefix = none
  Objs = {p, q}
  NoInode = NoInode
  Uncached = Uncached
  Negative = Negative
  NoWrite = NoWrite
  Workload = {}
SYMMETRY Interchangeable
INVARIANTS DentryTruth SizeWillBeSaved
PROPERTIES PoolSpec StoreSpec
