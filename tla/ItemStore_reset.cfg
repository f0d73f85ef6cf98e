SPECIFICATION Spec
CONSTANTS
  FirstPage = 1
  LastPage = 3
  ItemsPerPage = 2
  MaxBlockIndex = 6
  MaxMessages = 1
  Item = {a, b}
  Environment = {"reset"}
INVARIANTS
  MetadataMatchesFlash
  AlwaysWritable
  AssertionsHold
PROPERTIES
  ImplementsRecycledLog
