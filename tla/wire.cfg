SPECIFICATION Spec
CONSTANTS
  Id <- MCId
  Version = {1, 2}
  Number <- MCNumber
  Error = Error
  SizeMax = 999
  Incomplete = Incomplete
  Thrown = Thrown
  Wild = Wild
  Datagram <- MCDatagram
  Port = 7
  Self <- MCSelf
  Rumors <- MCRumors
INVARIANTS TypeOK PrefixSafe SingleUnderstood OwnDocumented
\* A datagram is parsed once.
CHECK_DEADLOCK FALSE
