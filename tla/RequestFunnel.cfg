SPECIFICATION FairSpec
CONSTANTS
  read = read
  save = save
  Calls = {read, save}
  Idempotent = {read}
  Journaling = {save}
  Retries = 2
  Options = {"limiter", "breaker", "mutations"}
  MaxLogins = 1
  MaxLives = 2
CHECK_DEADLOCK FALSE
INVARIANT TypeOK
INVARIANT EffectsBounded
INVARIANT GivesUpLast
PROPERTY EveryCallReturns
