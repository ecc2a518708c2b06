CONSTANTS
  m1 = m1
  m2 = m2
  Sends = {m1, m2}
  MaxRetries = 1
SPECIFICATION FairSpec
INVARIANTS TypeOK SentWasDelivered AttemptsBounded RecordFinal
PROPERTIES RecordNeverReverts ImplementsLifecycle AlwaysSettles
