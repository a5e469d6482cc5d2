SPECIFICATION Spec
CONSTANTS
  PartitionSize = 4
  DataStart = 2
  EntryCount = 2
  BlockCnt = 2
  BlockSize = 2
  Names = {a, b}
  NoName = none
  Stored <- StoredWhole
  Texts = {x, y}
  Perms <- RwOrR
INVARIANTS ReadBack NoSharing OneEntryPerName
SYMMETRY Interchangeable
