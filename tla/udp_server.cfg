SPECIFICATION FairSpec
CONSTANTS
  Thread = {t1, t2}
  Loop = Loop
  Good = Good
  Bad = Bad
  MaxEvents = 4
\* A bad address terminates the process.
CHECK_DEADLOCK FALSE
INVARIANTS TypeOK InOrder NoLostWakeup ContextsOwned
PROPERTY EventuallyHandled
