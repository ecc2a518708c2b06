SPECIFICATION Spec
CONSTANTS
  Sessions = {s1, s2, s3}
  NoSession = NoSession
  Stuck = {s1}
  MaxAttempts = 1
INVARIANT StuckStaysOwned
