\* The comment at ProcessState.c:187-188 about destroyed proxies.
CONSTANTS
  Threads = {l1, c1}
  Loopers = {l1}
  MaxBuffers = 2
SPECIFICATION Spec
INVARIANTS Expunged
CHECK_DEADLOCK FALSE
