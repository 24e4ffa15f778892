SPECIFICATION ServerFairSpec
CONSTANTS
  Workers = {worker1, worker2}
  Connections = {conn1, conn2, conn3}
  None = None
INVARIANTS
  TypeOK
  OneOwner
  NoLostWakeup
  DrainedBeforeLeaving
  FewAfterSignal
PROPERTIES
  ImplementsService
  ImplementsPool
  ExitsAfterSignal
CHECK_DEADLOCK FALSE
