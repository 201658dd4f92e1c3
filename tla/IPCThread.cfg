\* Any kind of thread, four transactions nested in any way.
CONSTANTS
  MaxCalls = 4
  MaxDue = 2
SPECIFICATION Spec
INVARIANTS CallsMirrored OwnAnswer LoansReturned
PROPERTIES Answered
\* A plain thread that has made its calls has nothing left to do.
CHECK_DEADLOCK FALSE
