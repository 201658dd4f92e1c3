\* Handles met in any order.
CONSTANTS
  MaxHandle = 2
  MaxProxies = 2
  VECTOR_INIT_CAPACITY = 16
SPECIFICATION Spec
INVARIANTS OwnProxyAlways
CHECK_DEADLOCK FALSE
