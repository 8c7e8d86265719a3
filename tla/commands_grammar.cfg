SPECIFICATION Spec
CONSTANTS
  Id <- MCId
  Version = {1, 2}
  Number <- MCNumber
  Error = Error
  Request <- MCRequest
  None = None
  Null = Null
  Me = Me
  MaxTasks = 2
INVARIANT DocumentedUnderstood
\* The process ends at a null task.
CHECK_DEADLOCK FALSE
