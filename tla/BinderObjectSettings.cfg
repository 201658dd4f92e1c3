\* What a comment of flattenBinder says, against setters whose extras are lost.
CONSTANTS
  Owners = {o1, o2}
  Clients = {c1, c2}
  Null = null
  MaxCalls = 2
  MaxParcels = 2
SPECIFICATION Spec
SYMMETRY Symmetry
INVARIANTS SettingsReachDriver
\* Calls and parcels are bounded, and both processes may die.
CHECK_DEADLOCK FALSE
