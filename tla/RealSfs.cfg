SPECIFICATION Spec
CONSTANTS
  PartitionSize = 3
  DataStart = 1
  EntryCount = 2
  BlockCnt = 2
  BlockSize = 2
  Names = {a, b}
  NoName = NoName
  Stored <- StoredNames
  Prefix = none
  Objs = {p, q}
  NoInode = NoInode
  Uncached = Uncached
  Negative = Negative
  NoWrite = NoWrite
  Workload = {"read_error"}
SYMMETRY Interchangeable
INVARIANTS TypeOK OneInodePerFile AccountingExact NoCrossLink RemountAgrees
  MappedOwned ReadableBelowSize NamesFound
