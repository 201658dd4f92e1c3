\* Two providers make two registrations and a client looks or waits, on two CPUs; or
\* they make three of one name.
CONSTANTS
  Services = {s}
  Binders = {b1, b2}
  Clients = {c1}
  Home = {b1, c1}
  Routes = {"away"}
  MaxAdds = 3
  Mortals = {b1, c1}
  Null = null
SPECIFICATION Spec
ACTION_CONSTRAINT FewAtOnce
INVARIANTS EntriesSound WaitFinds
PROPERTIES WaitersWoken DeadEntriesGo
\* Every process may be done.
CHECK_DEADLOCK FALSE
