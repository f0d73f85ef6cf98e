SPECIFICATION FairSpec
CONSTANTS
  FirstPage = 1
  LastPage = 2
  ItemsPerPage = 3
  MaxBlockIndex = 4
  MaxMessages = 2
  Item = {a}
  Environment = {"reset", "delete", "eraseError"}
INVARIANTS
  EraseInterlock
  MetadataMatchesFlash
  AssertionsHold
PROPERTIES
  NoWriteWhileErasing
  EraseEnds
