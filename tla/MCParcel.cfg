\* A parcel that is written and read and takes over the driver's.
CONSTANTS
  b = b
  h = h
  f = f
  Null = Null
  Locals = {b}
  Remotes = {h, h0}
  Handle0 = h0
  Fds = {f}
  Parcels = {p1}
  Messages <- MCMessages
  Sizes = {100}
  Capacity = 128
  MaxItems = 3
  MaxHeld = 3
SPECIFICATION Spec
\* Handles and the descriptor, one after the other.
ACTION_CONSTRAINT FewAtOnce
INVARIANTS ParcelSound ReferencesAnswered DescriptorsOpen ObjectFound
CHECK_DEADLOCK FALSE
