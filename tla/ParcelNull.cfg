\* A small one, with the null binder that answers a lookup.
CONSTANTS
  b = b
  h = h
  f = f
  Null = Null
  Locals = {b}
  Remotes = {h, h0}
  Handle0 = h0
  Fds = {f}
  Parcels = {p1}
  Messages <- MCMessages
  Sizes = {100}
  Capacity = 128
  MaxItems = 2
  MaxHeld = 3
SPECIFICATION Spec
INVARIANTS NullReported
CHECK_DEADLOCK FALSE
