CONSTANTS
  HostIf = {0}
  Requests <- AllRequests
SPECIFICATION FairSpec
INVARIANTS
  TypeOK
  EventsMatchQueue
  UsesModuleSafely
  EndsOnlyForRemoval
  EndIsLast
  OperStatusTellsState
  SubscriberIsUpToDate
  QueueIsBounded
PROPERTIES
  ImplementsLifecycle
  RemoveNetifReturns
  RemoveModuleReturns
  QuietlyConfigured
