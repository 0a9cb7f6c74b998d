CONSTANTS
  HostIf = {0}
  Requests <- AcceptedRequests
SPECIFICATION Spec
INVARIANT
  NoReadyWithoutNetif
