SPECIFICATION SoundReaderSpec
CONSTANTS
  FirstPage = 1
  LastPage = 3
  ItemsPerPage = 2
  MaxBlockIndex = 6
  MaxMessages = 1
  Item = {a, b}
  Environment = {"reset", "delete"}
  StartIndex <- MCStartIndex
  Garbage = Garbage
INVARIANTS
  ReaderTypeOK
  DeliversRequested
  ClosedPagesAreFull
