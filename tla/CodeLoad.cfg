CONSTANTS
  FileAlign = 2
  HeaderSize = 2
  EntrySize = 6
  DataSections <- MCDataSections
  KernelAlign = 4
  KernelSizes = {5}
  Pieces <- MCPieces
  Versions = {1, 2}
  SectionLimit = 4
  SegmentLimit = 2
  SymbolLimit = 3
  DataLimit = 1
  CodeLimit = 2
  CodeWritable = {FALSE}
  NoteLimit = 1
  Objects = {}
  Limit = 100
  None = None
SPECIFICATION Spec
INVARIANTS TypeOK LoaderNeeds TidyInPlace EntryHoldsKernel FailsOnlyIfLacking
CHECK_DEADLOCK FALSE
