SPECIFICATION Spec
CONSTANTS
  Requests = {r1, r2}
  Logins = {l1}
  MaxLogins = 2
  MaxTokens = 2
  MaxRestarts = 1
SYMMETRY RequestSymmetry
CHECK_DEADLOCK FALSE
INVARIANT TypeOK
INVARIANT RequestCarriesLogin
INVARIANT RestartFindsSession
