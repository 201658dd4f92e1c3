\* Two threads of the pool and one outside it, three deliveries of the handle.
CONSTANTS
  Threads = {l1, l2, c1}
  Loopers = {l1, l2}
  MaxBuffers = 3
SPECIFICATION Spec
SYMMETRY Symmetry
INVARIANTS ProxySound DriverExact
\* The bounds stop it.
CHECK_DEADLOCK FALSE
