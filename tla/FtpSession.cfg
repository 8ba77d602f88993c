CONSTANTS
  Blocks = 2
  Shapes <- MCShapes
  Old = Old
  Addresses = 2
SPECIFICATION FairSpec
INVARIANTS SessionInv InStep OldFileKept DownloadedUnlessUnnoticed
 NoFailureWithoutCause
PROPERTY ClientReturns
