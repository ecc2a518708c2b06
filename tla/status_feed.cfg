SPECIFICATION FeedSpec
CONSTANTS
  Sessions = {s1, s2}
  NoSession = NoSession
  Stuck <- NoneStuck
  MaxAttempts = 0
SYMMETRY Symmetry
INVARIANT FeedTruthful
