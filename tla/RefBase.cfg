\* Three references, any interleaving of their calls, fair threads.
CONSTANTS
  Ids = {i1, i2, i3}
  Creator = creator
  NoSrc = nosrc
  INITIAL_STRONG_VALUE = 16
  MAX_COUNT = 7
SPECIFICATION FairSpec
INVARIANTS CountsMatch SafeReclaim EndNoticed AcquireBalance
PROPERTIES NoRevival ImplementsRefCount DropCompletes
