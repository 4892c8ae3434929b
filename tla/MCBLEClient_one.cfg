\* One reader and its beacon; the caps leave room for three and four failures.
SPECIFICATION Spec
CONSTANTS
  r = r
  Clients <- OneReader
  Readers <- OneReader
  MaxDiscoveryDelay = 6
  MaxConnectionDelay = 8
INVARIANTS
  Inv
  NoNullDereference
  NoUseAfterFree
  JoinsStartedThread
PROPERTIES
  StopsWithinRound
  ShutdownCompletes
  EventsFlow
  ImplementsGattAccess
