SPECIFICATION Spec
CONSTANTS
  read = read
  Calls = {read}
  Idempotent = {read}
  Journaling = {}
  Retries = 1
  Options = {}
  MaxLogins = 1
  MaxLives = 1
CHECK_DEADLOCK FALSE
INVARIANT NetworkFailuresAreRetried
