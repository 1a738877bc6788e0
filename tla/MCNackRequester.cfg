SPECIFICATION NackSpec
CONSTANTS
  None = None
  Modulus = 10
  MaxAhead = 4
  NackGap = 3
  ListSize = 2
  BatchSize = 1
  ReorderWait = 1
  MaxAge = 5
  MaxRetries = 2
  RetryFallback = 1
  MinRetry = 1
  Rtts = {0, 1, 3}
INVARIANTS OnlyMissing AnswerAwaited
