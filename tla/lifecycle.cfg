SPECIFICATION FairSpec
CONSTANTS
  Thread = {t1, t2, t3}
  None = None
  MaxCalls = 2
INVARIANTS TypeOK ServerAlive NeverTerminates
PROPERTY CallsReturn
\* All calls have been made, a stop or a destructor joins for ever, or the object
\* is gone.
CHECK_DEADLOCK FALSE
