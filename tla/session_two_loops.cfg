SPECIFICATION Spec
CONSTANTS
  Sessions = {s1, s2, s3}
  NoSession = NoSession
  Stuck <- AllStuck
  MaxAttempts = 0
SYMMETRY Symmetry
INVARIANT OneRunLoop
