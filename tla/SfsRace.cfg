SPECIFICATION Spec
CONSTANTS
  PartitionSize = 3
  DataStart = 1
  EntryCount = 2
  BlockCnt = 2
  BlockSize = 1
  Names = {a, b}
  NoName = NoName
  Stored <- StoredWhole
  Tasks = {p, q}
  Flusher = flusher
  Scenes = {"io", "crash", "list"}
  Longest <- LongestFiles
SYMMETRY Interchangeable
INVARIANTS NoTwoOwners DiskSharesOnlyPending TrackerExactAtRest ListingWhole
CONSTRAINT Clean
