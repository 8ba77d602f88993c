CONSTANTS
  Blocks = 2
  Shapes <- MCShapes
  Old = Old
  Addresses = 2
SPECIFICATION Spec
INVARIANT DownloadedIfFlushed
