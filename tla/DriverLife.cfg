SPECIFICATION DiskSpec
CONSTANTS
  Nothing = Nothing
  SegLists <- Segments
  Near = 2
  MaxWrites = 2
INVARIANTS NothingLeft ParentsLast CodeStays HandlersReady ReadsWhatWasWritten LayoutSound
PROPERTY GivesBackItsOwn
