SPECIFICATION ExchangeSpec
INVARIANT RetryIsSafe
CHECK_DEADLOCK FALSE
