\* Two clients and the manager; or others that fill its map until it has grown, whose
\* names have any hashes.
CONSTANTS
  Names = {manager, n1, n2, n3}
  BadNames = {bad}
  Manager = manager
  Binders = {b1}
  Self = b0
  InName = inname
  Garbage = garbage
  Null = null
  MaxBits = 3
  MaxServices = 4
  Clients = {c1, c2}
  MaxCalls = 2
  MaxPolls = 2
SPECIFICATION MCSpec
ACTION_CONSTRAINT FewAtOnce
INVARIANTS AnswersTrue ToldTheTruth RegistryKept
PROPERTIES CallsReturn FirstWins NothingDropped
\* Calls are bounded.
CHECK_DEADLOCK FALSE
