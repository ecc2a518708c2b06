SPECIFICATION FairSpec
CONSTANTS
  Sessions = {s1, s2}
  NoSession = NoSession
  Stuck <- NoneStuck
  MaxAttempts = 0

INVARIANTS TypeOK OneRunLoop GapExclusive NoOrphan ClosedIsFinal ManagerSurvives NoLostDisconnect
PROPERTIES ImplementsDeviceSlot Recovers ShutdownCompletes
