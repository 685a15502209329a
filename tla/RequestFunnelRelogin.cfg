SPECIFICATION Spec
CONSTANTS
  read = read
  Calls = {read}
  Idempotent = {read}
  Journaling = {}
  Retries = 1
  Options = {}
  MaxLogins = 2
  MaxLives = 2
CHECK_DEADLOCK FALSE
INVARIANT FreshCookieIsSent
