\* What a comment of addService says, against what put does.
CONSTANTS
  Names = {manager, n1}
  BadNames = {bad}
  Manager = manager
  Binders = {b1}
  Self = b0
  InName = inname
  Garbage = garbage
  Null = null
  MaxBits = 3
  MaxServices = 4
SPECIFICATION Spec
INVARIANTS OverwritesOld
CHECK_DEADLOCK FALSE
