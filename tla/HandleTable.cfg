\* Four handles, a vector that has to grow more than once.
CONSTANTS
  MaxHandle = 3
  MaxProxies = 3
  VECTOR_INIT_CAPACITY = 1
SPECIFICATION Spec
INVARIANTS LookupsSound
PROPERTIES SameWhileAlive
CHECK_DEADLOCK FALSE
