\* Two handlers that wait and a third call: main, the pool's first thread, and
\* as many more as the driver may ask for.
CONSTANTS
  Threads = {main, t1, t2, t3}
  Main = main
  Limits = {1, 2}
  Calls = 3
SPECIFICATION Spec
INVARIANTS CountsSound PoolWithinLimit
PROPERTIES CallsServed
\* Handlers wait for ever where the threads are too few.
CHECK_DEADLOCK FALSE
