SPECIFICATION Spec
CONSTANTS
  Id = {"a", "b"}
  Task <- MCTask
  IdOf <- MCIdOf
  Null = Null
  MaxTime = 4
INVARIANTS TypeOK OneOwner
PROPERTY TimesOut
