\* Two threads of the pool and one outside it, three links.
CONSTANTS
  Threads = {l1, l2, c1}
  Loopers = {l1, l2}
  MaxLinks = 3
SPECIFICATION FairSpec
INVARIANTS LinksKept CookieBacked Watched
PROPERTIES DeathReported
\* The process may crash, and the bound on links stops the rest.
CHECK_DEADLOCK FALSE
